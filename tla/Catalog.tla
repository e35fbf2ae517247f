------------------------------ MODULE Catalog ------------------------------
(* The setup of pipelines on Postgres: discover resolves a spec of the      *)
(* Stripe API (bundled, cached in a file, from the CDN or from GitHub) and  *)
(* makes a catalog of it, setup turns the catalog into tables, write puts   *)
(* rows there. Several processes share the cache and the schema, and any of *)
(* them may die at any step.                                                *)
(*                                                                          *)
(* A document is its number among Specs; GitHub publishes them in order.    *)
EXTENDS SpecParser, Sequences

CONSTANTS
    Process,
    Task,           \* what a pipeline asks for: [account, version]
    Specs,          \* sequence of specs
    Depths,         \* per document and node: how deep its references and parts go
    Bundled,        \* BUNDLED_API_VERSION; its spec is the first
    Cdn,            \* per version: the document of the manifest, or 0
    Dated,          \* per version: the last document of its day, or 0
    MaxSetups,      \* bound: setups begun
    MaxFaults       \* bound: deaths, bad answers, failed writes and teardowns

Doc == 1 .. Len(Specs)

ASSUME CatalogAssumption ==
    /\ Task # {} /\ Len(Specs) \in Nat \ {0} /\ {MaxSetups, MaxFaults} \subseteq Nat
    /\ \A t \in Task : {Cdn[t.version], Dated[t.version]} \subseteq Doc \cup {0}
    /\ \A doc \in Doc : WellFormed(Specs[doc], Depths[doc])

\* From one document to the next fields come and go and become nullable or not, but
\* what has a type keeps it.
ASSUME StableTypes ==
    \A c, d \in Doc : \A t \in SyncableTables(Specs[c]) \cap SyncableTables(Specs[d]) :
        \A name \in Columns(Specs[c], t) \cap Columns(Specs[d], t) :
            Column(Specs[c], t, name).type = Column(Specs[d], t, name).type

VARIABLES
    file,       \* per version: the cache file
    head,       \* the latest document on GitHub
    memory,     \* per process and version: discoverCache
    work,       \* per process: the setup it is in, with its document and its catalog
    schema,     \* the schema exists in Postgres
    table,      \* the tables that exist
    ready,      \* history: what the setups since the last teardown may write
    setups, faults

catalogVars == <<file, head, memory, work, schema, table, ready, setups, faults>>

Version == {t.version : t \in Task}
None == 0
Torn == Len(Specs) + 1

NoWork == [at |-> "idle", task |-> CHOOSE t \in Task : TRUE, spec |-> None,
           catalog |-> <<>>, left |-> {}, lost |-> FALSE]

CatalogInit ==
    /\ file = [v \in Version |-> None] /\ head = 1
    /\ memory = [p \in Process |-> [v \in Version |-> None]]
    /\ work = [p \in Process |-> NoWork]
    /\ table = <<>> /\ ready = {} /\ schema = FALSE
    /\ setups = 0 /\ faults = 0

Fault == faults < MaxFaults /\ faults' = faults + 1
V(p)  == work[p].task.version

-----------------------------------------------------------------------------
(* discover                                                                 *)

Goes(p, at)        == work' = [work EXCEPT ![p].at = at]
Found(p, doc, at)  == work' = [work EXCEPT ![p].spec = doc, ![p].at = at]
Fails(p)           == work' = [work EXCEPT ![p] = NoWork]

\* catalogFromOpenApi: the streams of a document and their columns
CatalogOf(doc) ==
    [t \in Streams(Specs[doc]) |-> PgColumns(Specs[doc], t)]

Begin(p, task) ==
    /\ work[p].at = "idle" /\ setups < MaxSetups /\ setups' = setups + 1
    /\ LET known == memory[p][task.version]
           todo  == [NoWork EXCEPT !.task = task]
       IN  work' = [work EXCEPT ![p] =
               IF known # None THEN [todo EXCEPT !.at = "schema", !.spec = known, !.catalog = CatalogOf(known)]
               ELSE IF task.version = Bundled THEN [todo EXCEPT !.at = "parse", !.spec = 1]
               ELSE [todo EXCEPT !.at = "cache"]]
    /\ UNCHANGED <<file, head, memory, schema, table, ready, faults>>

\* tryReadCachedSpec: JSON.parse and validateOpenApiSpec reject the rest
Usable(doc) == doc \notin {None, Torn}

ReadCache(p) ==
    /\ work[p].at = "cache"
    /\ IF Usable(file[V(p)]) THEN Found(p, file[V(p)], "parse") ELSE Goes(p, "cdn")
    /\ UNCHANGED <<file, head, memory, schema, table, ready, setups, faults>>

\* anything but a valid document counts as none
FetchFromCdn(p) ==
    /\ work[p].at = "cdn"
    /\ \/ /\ IF Cdn[V(p)] # None THEN Found(p, Cdn[V(p)], "write") ELSE Goes(p, "github")
          /\ UNCHANGED faults
       \/ Cdn[V(p)] # None /\ Fault /\ Goes(p, "github")
    /\ UNCHANGED <<file, head, memory, schema, table, ready, setups>>

\* the last commit until that day, else the latest; a bad answer ends discover
FetchFromGithub(p) ==
    /\ work[p].at = "github"
    /\ \/ /\ Found(p, IF Dated[V(p)] # None THEN Dated[V(p)] ELSE head, "write")
          /\ UNCHANGED faults
       \/ Fault /\ Fails(p)
    /\ UNCHANGED <<file, head, memory, schema, table, ready, setups>>

\* writeFile empties the file first; no failure of it is an error
OpenCache(p) ==
    /\ work[p].at = "write"
    /\ \/ file' = [file EXCEPT ![V(p)] = Torn] /\ Goes(p, "fill") /\ UNCHANGED faults
       \/ Fault /\ Goes(p, "parse") /\ UNCHANGED file
    /\ UNCHANGED <<head, memory, schema, table, ready, setups>>

FillCache(p) ==
    /\ work[p].at = "fill"
    /\ \/ file' = [file EXCEPT ![V(p)] = work[p].spec] /\ UNCHANGED faults
       \/ Fault /\ UNCHANGED file
    /\ Goes(p, "parse")
    /\ UNCHANGED <<head, memory, schema, table, ready, setups>>

\* catalogFromOpenApi throws for a table without a schema
Parse(p) ==
    /\ work[p].at = "parse"
    /\ IF Ghosts(Specs[work[p].spec]) # {}
       THEN Fails(p) /\ UNCHANGED memory
       ELSE /\ memory' = [memory EXCEPT ![p][V(p)] = work[p].spec]
            /\ work' = [work EXCEPT ![p].at = "schema", ![p].catalog = CatalogOf(work[p].spec)]
    /\ UNCHANGED <<file, head, schema, table, ready, setups, faults>>

-----------------------------------------------------------------------------
(* setup                                                                    *)

Wanted(p) == work[p].catalog

\* the account that the CHECK of a table's _account_id lets in
AllowList(t) == table[t].account

\* CREATE SCHEMA, then assertEnumConstraintsConsistent on the tables of the catalog
CheckEnums(p) ==
    /\ work[p].at = "schema" /\ schema' = TRUE
    /\ IF \A t \in DOMAIN Wanted(p) \cap DOMAIN table : AllowList(t) = work[p].task.account
       THEN work' = [work EXCEPT ![p].at = "tables", ![p].left = DOMAIN Wanted(p)]
       ELSE Fails(p)
    /\ UNCHANGED <<file, head, memory, table, ready, setups, faults>>

Created(p, t) ==
    [columns |-> Wanted(p)[t], account |-> work[p].task.account, rows |-> {}]

(* Mutant: no new columns.                                                 *)
MigratedOnce(p, t) == IF t \in DOMAIN table THEN table[t] ELSE Created(p, t)

\* buildCreateTableDDL, one transaction: a table with its CHECK, or new columns for
\* the table there is. Columns and a CHECK that exist stay as they are.
Migrated(p, t) ==
    IF t \in DOMAIN table THEN [table[t] EXCEPT !.columns = Completed(@, Wanted(p)[t])]
    ELSE Created(p, t)

\* Without the schema it fails, and it may when another creates the same table.
Migrate(p, t) ==
    /\ work[p].at = "tables" /\ t \in work[p].left
    /\ IF schema
       THEN /\ table' = [s \in DOMAIN table \cup {t} |-> IF s = t THEN Migrated(p, t) ELSE table[s]]
            /\ work' = [work EXCEPT ![p].left = @ \ {t}]
       ELSE Fails(p) /\ UNCHANGED table
    /\ UNCHANGED <<file, head, memory, schema, ready, setups, faults>>

Collide(p) ==
    /\ work[p].at = "tables"
    /\ \E q \in Process \ {p} : work[q].at = "tables" /\ work[p].left \cap DOMAIN Wanted(q) # {}
    /\ Fails(p)
    /\ UNCHANGED <<file, head, memory, schema, table, ready, setups, faults>>

ValuesOfKind ==
    [boolean |-> {"true"}, integer |-> {"1"}, number |-> {"1", "1.5"}, array   |-> {"{}"},
     object  |-> {"{}"},   date |-> {"abc"},  string |-> {"abc"},      unknown |-> {"abc"}]

\* what the values of a schema may look like
ValuesOf(spec, n) ==
    LET of[m \in DOMAIN spec.nodes] ==
            LET node == spec.nodes[Resolved(spec, m)]
            IN  (IF node.nullable THEN {"null"} ELSE {}) \cup
                (IF node.kind = "composed" THEN UNION {of[p] : p \in node.parts}
                 ELSE ValuesOfKind[node.kind])
    IN  of[n]

\* per stream and field: the values of a record that conforms
Conforming(spec) ==
    [t \in Streams(spec) |-> [name \in Columns(spec, t) |->
        UNION {ValuesOf(spec, c) : c \in UNION {Candidates(spec, n, name) : n \in Sources(spec, t)}}]]

EndSetup(p) ==
    /\ work[p].at = "tables" /\ work[p].left = {}
    /\ ready' = ready \cup IF work[p].lost THEN {} ELSE {Conforming(Specs[work[p].spec])}
    /\ Fails(p)
    /\ UNCHANGED <<file, head, memory, schema, table, setups, faults>>

-----------------------------------------------------------------------------
(* The rest of the world.                                                   *)

\* a row that violates the CHECK fails its batch
Write(task, t) ==
    /\ t \in DOMAIN table /\ task.account \notin table[t].rows
    /\ AllowList(t) = task.account
    /\ table' = [table EXCEPT ![t].rows = @ \cup {task.account}]
    /\ UNCHANGED <<file, head, memory, work, schema, ready, setups, faults>>

\* DROP SCHEMA ... CASCADE, beside the setups that are under way
Teardown ==
    /\ schema /\ Fault
    /\ schema' = FALSE /\ table' = <<>> /\ ready' = {}
    /\ work' = [p \in Process |-> [work[p] EXCEPT !.lost = @ \/ work[p].at = "tables"]]
    /\ UNCHANGED <<file, head, memory, setups>>

Publish ==
    /\ head < Len(Specs) /\ head' = head + 1
    /\ UNCHANGED <<file, memory, work, schema, table, ready, setups, faults>>

Die(p) ==
    /\ Fault
    /\ \/ work[p].at # "idle"
       \/ \E v \in Version : memory[p][v] # None
    /\ memory' = [memory EXCEPT ![p] = [v \in Version |-> None]]
    /\ Fails(p)
    /\ UNCHANGED <<file, head, schema, table, ready, setups>>

CatalogNext ==
    \/ Publish \/ Teardown
    \/ \E task \in Task, t \in DOMAIN table : Write(task, t)
    \/ \E p \in Process :
        \/ \E task \in Task : Begin(p, task)
        \/ ReadCache(p) \/ FetchFromCdn(p) \/ FetchFromGithub(p)
        \/ OpenCache(p) \/ FillCache(p) \/ Parse(p)
        \/ CheckEnums(p) \/ (\E t \in work[p].left : Migrate(p, t)) \/ Collide(p) \/ EndSetup(p)
        \/ Die(p)

CatalogSpec == CatalogInit /\ [][CatalogNext]_catalogVars

-----------------------------------------------------------------------------
(* Correctness.                                                             *)

\* The state is well typed; what a process works with and remembers are documents.
CatalogTyped ==
    /\ file \in [Version -> Doc \cup {None, Torn}] /\ head \in Doc
    /\ memory \in [Process -> [Version -> Doc \cup {None}]]
    /\ schema \in BOOLEAN /\ (~schema => table = <<>>)
    /\ \A t \in DOMAIN table :
        /\ table[t].account \in {k.account : k \in Task}
        /\ table[t].rows \subseteq {k.account : k \in Task}
    /\ \A p \in Process :
        /\ work[p].task \in Task
        /\ work[p].at \in {"parse", "schema", "tables", "write", "fill"} => work[p].spec \in Doc
        /\ work[p].left # {} => work[p].at = "tables" /\ work[p].left \subseteq DOMAIN Wanted(p)
    /\ \A values \in ready : DOMAIN values \subseteq Range(TableOf)

\* A cache file that a death or another process has left half written never
\* becomes the spec of a setup.
OnlyWholeSpecs ==
    \A p \in Process : Torn \notin {work[p].spec} \cup Range(memory[p])

Complete(spec, t) ==
    /\ EndpointsOf(spec, t) # {} /\ Sources(spec, t) # {}
    /\ \E r \in WebhookUpdatableIds(spec) : TableOf[r] = t
IsComplete(spec) == Ghosts(spec) = {} /\ \A t \in Streams(spec) : Complete(spec, t)

\* Parser and registry agree on every spec that discover comes by: no stream is
\* without schema (catalogFromOpenApi would throw, and every setup with it), list
\* endpoint, key or events that keep it up to date.
StreamsAreComplete ==
    \A p \in Process : work[p].at = "parse" => IsComplete(Specs[work[p].spec])

\* what the generated column makes of them without an error
Accepts == [boolean |-> {"true", "null"}, bigint |-> {"1", "null"},
            numeric |-> {"1", "1.5", "null"},
            text    |-> {"null", "true", "1", "1.5", "{}", "abc"},
            jsonb   |-> {"null", "true", "1", "1.5", "{}", "abc"}]

\* Whatever other setups, of other versions too, ran before, beside or after it,
\* and died where they may: once a setup has succeeded, all its tables are there
\* and their columns take any record that conforms to its spec.
ReadyTablesFit ==
    \A values \in ready : \A t \in DOMAIN values :
        /\ t \in DOMAIN table
        /\ \A name \in DOMAIN values[t] :
            /\ name \in DOMAIN table[t].columns
            /\ values[t][name] \subseteq Accepts[table[t].columns[name]]

\* No table holds rows of two accounts, although setups of both may pass the check
\* of the allow-lists at the same time.
TenantsApart == \A t \in DOMAIN table : Cardinality(table[t].rows) <= 1

\* Until a teardown, a table keeps its columns, each with its type, and its rows.
TablesOnlyGrow ==
    [][schema' => \A t \in DOMAIN table :
          /\ t \in DOMAIN table' /\ table[t].rows \subseteq table'[t].rows
          /\ \A name \in DOMAIN table[t].columns :
                name \in DOMAIN table'[t].columns
                /\ table'[t].columns[name] = table[t].columns[name]]_catalogVars

\* A setup works from a whole spec, and from one whose streams have all that a
\* sync needs.
SpecsAreSound == CatalogTyped /\ OnlyWholeSpecs /\ StreamsAreComplete

\* The tables of a setup that succeeded take its records, and those of one account.
TablesAreSound == ReadyTablesFit /\ TenantsApart
=============================================================================
