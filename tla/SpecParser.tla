----------------------------- MODULE SpecParser -----------------------------
(* From an OpenAPI spec of Stripe to the catalog of streams and the types   *)
(* of their Postgres columns: SpecParser, buildResourceRegistry,            *)
(* catalogFromOpenApi, parsedTableToJsonSchema and jsonSchemaToColumns.     *)
(*                                                                          *)
(* A spec is a record.                                                      *)
(*   paths    the GET operations: whether the response has the shape of a   *)
(*            list, the name of its items' schema, the path of the parent   *)
(*            ("" at the top level), the query parameters and those of them *)
(*            that are required                                             *)
(*   events   event types: the resources that the part before the last dot  *)
(*            names, whole or after a dot                                   *)
(*   nodes    schemas, the inline ones too: a node has a kind ("ref",       *)
(*            "composed", or what "type" and "format" say), the node it     *)
(*            refers to, a resource ("" without), its properties and the    *)
(*            parts it is composed of                                       *)
(*   named    the nodes under components.schemas; crud, those that carry a  *)
(*            CRUD event, with the node of its object                       *)
(* Names stand for resources and tables alike: TableOf is the alias map     *)
(* and the plural. x-expansionResources is left out: it ends with the       *)
(* parser, for parsedTableToJsonSchema does not pass it on.                 *)
EXTENDS Naturals, FiniteSets, Functions

CONSTANTS
    TableOf,        \* function from resources to tables
    Excluded,       \* EXCLUDED_TABLES
    Reserved,       \* RESERVED_COLUMNS
    Compatibility   \* OPENAPI_COMPATIBILITY_COLUMNS: per table, names and types

\* the types of inferType
OfKind ==
    [boolean |-> "boolean", integer |-> "bigint", number |-> "numeric", date |-> "timestamptz",
     string  |-> "text",    array   |-> "json",   object |-> "json",    unknown |-> "text"]

\* What documents promise: names that are defined, resources that have a table, and
\* references and compositions that end (the parser follows them to their end). A
\* node is less deep than those that refer to it or are composed of it.
WellFormed(spec, depth) ==
    LET names == DOMAIN spec.nodes IN
    /\ IsFiniteSet(names) /\ spec.named \cup spec.crud \subseteq names
    /\ depth \in [names -> 0 .. Cardinality(names)]
    /\ \A n \in names : LET node == spec.nodes[n] IN
        /\ node.nullable \in BOOLEAN /\ node.resource \in DOMAIN TableOf \cup {""}
        /\ node.parts \subseteq names /\ Range(node.properties) \subseteq names
        /\ \/ node.kind = "ref" /\ node.ref \in names /\ depth[node.ref] < depth[n]
           \/ node.kind = "composed" /\ \A p \in node.parts : depth[p] < depth[n]
           \/ node.kind \in DOMAIN OfKind /\ node.parts = {}

Pagination == {"limit", "starting_after", "ending_before", "created", "expand"}

-----------------------------------------------------------------------------
(* Discovery of tables and endpoints.                                       *)

\* cleanOpenApiSpec, then iterListPaths
Listed(spec, path) ==
    /\ path.list /\ ~path.deprecated
    /\ path.items \in spec.named /\ spec.nodes[path.items].kind # "ref"
    /\ spec.nodes[path.items].resource # ""

ListPaths(spec) == {path \in spec.paths : Listed(spec, path)}
Resource(spec, path) == spec.nodes[path.items].resource

ListableIds(spec) == {Resource(spec, path) : path \in ListPaths(spec)}

\* Any event that is named after a resource counts, and a CRUD event that has it as
\* its object.
WebhookUpdatableIds(spec) ==
    {r \in ListableIds(spec) : \E e \in spec.events : r \in e}
        \cup {spec.nodes[n].resource : n \in {n \in spec.crud : spec.nodes[n].resource # ""}}

ListableTables(spec) == {TableOf[r] : r \in ListableIds(spec)} \ Excluded

SyncableTables(spec) ==
    {TableOf[r] : r \in ListableIds(spec) \cap WebhookUpdatableIds(spec)} \ Excluded

\* the paths of a table at the top level that ask for nothing but paging, of which
\* the first one serves
EndpointsOf(spec, table) ==
    {path \in ListPaths(spec) :
        /\ path.parent = "" /\ TableOf[Resource(spec, path)] = table
        /\ path.required \subseteq Pagination}

Endpoints(spec) == {t \in ListableTables(spec) : EndpointsOf(spec, t) # {}}

-----------------------------------------------------------------------------
(* Columns.                                                                 *)

Resolved(spec, n) ==
    LET end[m \in DOMAIN spec.nodes] ==
            IF spec.nodes[m].kind = "ref" THEN end[spec.nodes[m].ref] ELSE m
    IN  end[n]

\* the schemas that collectPropertyCandidates visits, each of them once
Visited(spec, n) ==
    LET last == Cardinality(DOMAIN spec.nodes)
        seen[k \in 0 .. last] ==
            IF k = 0 THEN {Resolved(spec, n)}
            ELSE LET before == seen[k - 1]
                 IN  before \cup {Resolved(spec, p) : p \in UNION {spec.nodes[m].parts : m \in before}}
    IN  seen[last]

Fields(spec, n)           == UNION {DOMAIN spec.nodes[m].properties : m \in Visited(spec, n)}
Candidates(spec, n, name) ==
    {spec.nodes[m].properties[name] :
        m \in {m \in Visited(spec, n) : name \in DOMAIN spec.nodes[m].properties}}

ScalarType == {"text", "boolean", "bigint", "numeric", "json", "timestamptz"}

MergeTypes(left, right) ==
    IF left = right THEN left
    ELSE IF "json" \in {left, right} THEN "json"
    ELSE IF {left, right} = {"numeric", "bigint"} THEN "numeric"
    ELSE "text"

\* "none" is the null of inferFromCandidates before the first candidate
MergeAll(types) ==
    LET merged[S \in SUBSET types] ==
            IF S = {} THEN "none"
            ELSE LET t    == CHOOSE t \in S : TRUE
                     rest == merged[S \ {t}]
                 IN  IF rest = "none" THEN t ELSE MergeTypes(rest, t)
    IN  merged[types]

\* inferType and inferFromCandidates: type, and whether it is nullable
Inferred(spec, n) ==
    LET of[m \in DOMAIN spec.nodes] ==
            LET node  == spec.nodes[Resolved(spec, m)]
                parts == {of[p] : p \in node.parts}
            IN  IF node.kind = "composed"
                THEN [type     |-> MergeAll({p.type : p \in parts}),
                      nullable |-> node.nullable \/ \E p \in parts : p.nullable]
                ELSE [type     |-> OfKind[node.kind],
                      nullable |-> node.nullable \/ node.kind = "unknown"]
    IN  of[n]

\* the schemas of a table; those of the same resource add up
Sources(spec, table) ==
    {n \in spec.named :
        spec.nodes[Resolved(spec, n)].resource \in {r \in DOMAIN TableOf : TableOf[r] = table}}

Columns(spec, table) == UNION {Fields(spec, n) : n \in Sources(spec, table)} \ Reserved

Column(spec, table, name) ==
    LET all == {Inferred(spec, c) : c \in UNION {Candidates(spec, n, name) : n \in Sources(spec, table)}}
    IN  [type     |-> MergeAll({i.type : i \in all}),
         nullable |-> \E i \in all : i.nullable]

\* f, and g where f has no value
Completed(f, g) == [x \in DOMAIN f \cup DOMAIN g |-> IF x \in DOMAIN f THEN f[x] ELSE g[x]]

\* parse, over the tables it is allowed
Parsed(spec, table) ==
    Completed([name \in Columns(spec, table) |-> Column(spec, table, name)],
              [name \in DOMAIN Compatibility[table] |->
                  [type |-> Compatibility[table][name], nullable |-> TRUE]])
ParsedTables(spec)  == SyncableTables(spec)

-----------------------------------------------------------------------------
(* The catalog.                                                             *)

(* Mutant: every endpoint.                                                 *)
RegistryOfAll(spec, allowed) == Endpoints(spec) \ Excluded
Registry(spec, allowed) == (Endpoints(spec) \cap allowed) \ Excluded

\* The guard of catalogFromOpenApi against a table without a schema. Nested
\* resources are in the registry too, not to be synced.
Ghosts(spec)  == Registry(spec, SyncableTables(spec)) \ ParsedTables(spec)
Streams(spec) == Registry(spec, SyncableTables(spec))

\* a nullable column has oneOf in the place of a type, and becomes text
PgType(column) ==
    IF column.nullable THEN "text"
    ELSE IF column.type = "json" THEN "jsonb"
    ELSE IF column.type \in {"boolean", "bigint", "numeric"} THEN column.type
    ELSE "text"

\* jsonSchemaToColumns of the stream's json_schema
PgColumns(spec, table) ==
    LET parsed == Parsed(spec, table)
    IN  [name \in DOMAIN parsed |-> PgType(parsed[name])]
=============================================================================
