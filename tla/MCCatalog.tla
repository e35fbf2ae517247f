----------------------------- MODULE MCCatalog -----------------------------
(* Instances of Catalog for TLC: two accounts and three versions on a small *)
(* API, of which three documents were published.                            *)
EXTENDS Catalog, TLC

CONSTANTS p1, p2

Tables == [customer |-> "customers", invoice |-> "invoices", line |-> "lines", plan |-> "plans",
           quote |-> "quotes", report |-> "reports", credit |-> "credits"]
Compat == [t \in Range(Tables) |-> IF t = "invoices" THEN [paid |-> "boolean"] ELSE <<>>]

Node(kind) == [kind |-> kind, nullable |-> FALSE, resource |-> "", ref |-> "",
               properties |-> <<>>, parts |-> {}]
Ref(n)     == [Node("ref") EXCEPT !.ref = n]
Composed(parts) == [Node("composed") EXCEPT !.parts = parts]
Object(resource, properties, parts) ==
    [Node(IF parts = {} THEN "object" ELSE "composed") EXCEPT
        !.resource = resource, !.properties = properties, !.parts = parts]

\* schemas that have a property become nullable in the second document; a customer
\* and an invoice refer to each other, and a customer has two ways to its base
Nodes(second) ==
    [int |-> Node("integer"), num |-> Node("number"), str |-> Node("string"),
     bool |-> Node("boolean"), null |-> [Node("string") EXCEPT !.nullable = TRUE],
     balance   |-> [Node("integer") EXCEPT !.nullable = second],
     amount    |-> Composed({"int", "num"}),
     toInvoice |-> Composed({"str", "refInvoice"}), refInvoice |-> Ref("invoice"),
     refCustomer |-> Ref("customer"), refBase |-> Ref("base"),
     base      |-> Object("", [name |-> "null"], {}),
     contact   |-> Object("", [email |-> "str"], {"refBase"}),
     customer  |-> Object("customer",
                      [id |-> "str", balance |-> "balance", last |-> "toInvoice"]
                          @@ IF second THEN [phone |-> "str"] ELSE <<>>, {"refBase", "contact"}),
     deleted   |-> Object("customer", [id |-> "str", deleted |-> "bool", balance |-> "num"], {}),
     invoice   |-> Object("invoice", [total |-> "amount", customer |-> "refCustomer"], {}),
     line      |-> Object("line", [amount |-> "int"], {}),
     plan      |-> Object("plan", [active |-> "bool"], {}),
     quote     |-> Object("quote", <<>>, {}),
     report    |-> Object("report", <<>>, {}),
     credit    |-> Object("credit", <<>>, {})]

Path(path, items, parent) ==
    [path |-> path, items |-> items, parent |-> parent, list |-> TRUE, deprecated |-> FALSE,
     params |-> {"limit", "starting_after"}, required |-> {}]
Lists(without) ==
    {path \in {[Path("/old", "customer", "") EXCEPT !.deprecated = TRUE],
               Path("/c", "customer", ""), Path("/c/{id}/l", "line", "/c"),
               Path("/i", "invoice", ""), Path("/r", "report", ""), Path("/k", "credit", ""),
               [Path("/q", "quote", "") EXCEPT !.required = {"customer"}]} :
        path.items \notin without}
Named == {"base", "customer", "deleted", "invoice", "line", "plan", "quote", "report", "credit"}

First ==
    [nodes |-> Nodes(FALSE), named |-> Named, crud |-> {"invoice"},
     events |-> {{"customer"}, {"line"}, {"quote"}, {"credit"}},
     paths |-> Lists({}) \cup {[Path("/p", "plan", "") EXCEPT !.list = FALSE]}]
Second ==
    [First EXCEPT !.nodes = Nodes(TRUE), !.crud = {"invoice", "plan"},
                  !.paths = Lists({}) \cup {Path("/p", "plan", "")}]
Third ==
    [Second EXCEPT !.nodes = Nodes(FALSE), !.paths = Lists({"invoice"}) \cup {Path("/p", "plan", "")}]

Documents == <<First, Second, Third>>
DepthOf   == [n \in DOMAIN Nodes(FALSE) |->
                 CASE n = "refCustomer" -> 4 [] n = "customer" -> 3
                   [] n \in {"toInvoice", "contact"} -> 2
                   [] n \in {"amount", "refInvoice", "refBase"} -> 1 [] OTHER -> 0]
AllDepths == [doc \in 1 .. 3 |-> DepthOf]
Old       == [account |-> "a", version |-> "old"]
Tasks     == {Old, [account |-> "b", version |-> "new"], [account |-> "a", version |-> "now"]}
OfCdn     == [old |-> 2, new |-> 0, now |-> 0]
OfDay     == [old |-> 1, new |-> 0, now |-> 0]
Processes == Permutations({p1, p2})
=============================================================================
