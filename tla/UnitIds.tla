------------------------------- MODULE UnitIds -------------------------------
(***************************************************************************)
(* How agent-coderag names the units of a file (parsers/tree_sitter.py):   *)
(* a walk over the syntax tree gives every entity an id made of its name   *)
(* and of the classes and functions around it.  The id is the primary key  *)
(* of the unit's row and of its vector, and its shape is what the Python   *)
(* provider of library APIs takes for "top level".                         *)
(*                                                                         *)
(* The tree is any tree of MaxNodes nodes below the root, numbered in the  *)
(* order of the walk.  An id is the sequence of its segments: the dots of  *)
(* "a.b" separate segments wherever they come from.                        *)
(***************************************************************************)
EXTENDS Naturals, Sequences, FiniteSets

CONSTANTS
    Names,      \* what _resolve_name returns: sequences of identifiers
    MaxNodes    \* number of nodes of a syntax tree

ASSUME NamesAssumption ==
    /\ MaxNodes \in Nat
    /\ \A nm \in Names : nm \in Seq(STRING) /\ nm # <<>>

Nodes == 1..MaxNodes
Root  == 0          \* tree.root_node; its context is made by distill_file

VARIABLES
    parent,     \* the parent of each node
    kind,       \* "plain", "MODULE" or "scope": a CLASS, FUNCTION or METHOD
    name,       \* what _resolve_name returns, <<>> for a plain node
    next,       \* the node the walk visits next
    owner,      \* whose qname and name_counts the node hands its children
    counts,     \* name_counts: one dict for each owner
    qname       \* the qualified name of each node, <<>> while it has none

tree == <<parent, kind, name>>
vars == <<tree, next, owner, counts, qname>>

\* m is above n: everything from m to n is below m.
Above(m, n) == m < n /\ \A k \in (m + 1)..n : parent[k] >= m

Init ==
    /\ parent \in [Nodes -> 0..MaxNodes]
    /\ \A n \in Nodes : parent[n] < n /\ Above(parent[n], n)
    /\ kind \in [Nodes -> {"plain", "MODULE", "scope"}]
    /\ name \in [Nodes -> Names \cup {<<>>}]
    /\ \A n \in Nodes : kind[n] = "plain" <=> name[n] = <<>>
    /\ next = 1
    /\ owner = [n \in Nodes \cup {Root} |-> Root]
    /\ counts = [o \in Nodes \cup {Root} |-> [nm \in Names |-> 0]]
    /\ qname = [n \in Nodes \cup {Root} |-> <<>>]
-----------------------------------------------------------------------------
IsEntity(n) == kind[n] # "plain"

\* Faulty variant of Label: a repeated name is not numbered.
LabelUnnumbered(nm, seen) == [i \in 1..Len(nm) |-> <<nm[i], 1>>]

\* The text node_name, or f"{node_name}#{seen}" if the name was seen before:
\* the number is part of the last segment.
Label(nm, seen) ==
    [i \in 1..Len(nm) |-> <<nm[i], IF i = Len(nm) THEN seen ELSE 1>>]

\* Faulty variant of Scope: the parent, even one that has no name.
ScopeIsParent(n) == parent[n]

\* The node whose qname is ctx["scope"] for n, and whose counts n uses.
Scope(n) == owner[parent[n]]

\* Faulty variant of Qualify: a repeated name is left out of the units.
QualifyFirst(n) ==
    LET seen == counts[Scope(n)][name[n]] + 1
    IN  /\ counts' = [counts EXCEPT ![Scope(n)][name[n]] = seen]
        /\ qname' = IF seen > 1 THEN qname
                    ELSE [qname EXCEPT ![n] = qname[Scope(n)] \o Label(name[n], 1)]

\* _qualified_name: count the name in the scope, put the label behind it.
Qualify(n) ==
    LET seen == counts[Scope(n)][name[n]] + 1
    IN  /\ counts' = [counts EXCEPT ![Scope(n)][name[n]] = seen]
        /\ qname' = [qname EXCEPT ![n] = qname[Scope(n)] \o Label(name[n], seen)]

\* Faulty variant of Opens: a module is part of the names in it, too.
OpensAnyEntity(n) == IsEntity(n)

\* canonical_map.get(node.type) in ("CLASS", "FUNCTION", "METHOD")
Opens(n) == kind[n] = "scope"

\* _recursive_distill of one node: name it if it is an entity, then hand its
\* children their scope and the counts they share.
Distill ==
    /\ next \in Nodes
    /\ IF IsEntity(next) THEN Qualify(next) ELSE UNCHANGED <<counts, qname>>
    /\ owner' = [owner EXCEPT ![next] = IF Opens(next) THEN next ELSE Scope(next)]
    /\ next' = next + 1
    /\ UNCHANGED tree

\* distill_file returns the units.
Return == next > MaxNodes /\ UNCHANGED vars

Next == Distill \/ Return

Spec == Init /\ [][Next]_vars
-----------------------------------------------------------------------------
(***************************************************************************)
(* Properties.                                                             *)
(***************************************************************************)
Units == {n \in Nodes : n < next /\ IsEntity(n)}

\* The innermost class, function or method around a node, read off the tree.
Around(n) ==
    CHOOSE m \in {s \in Nodes : Above(s, n) /\ kind[s] = "scope"} \cup {Root} :
        \A s \in Nodes : Above(s, n) /\ kind[s] = "scope" => s <= m

\* No name on the way from the root to n has a dot of its own, as that of a
\* Swift "extension A.B" or of a Lua "function M.f" has.
Undotted(n) ==
    \A m \in Nodes : (m = n \/ Above(m, n)) /\ kind[m] # "plain" => Len(name[m]) = 1

\* The walk keeps its books: names are given to the entities visited, counts
\* are natural numbers of the scopes that have been opened.
TypeOK ==
    /\ next \in 1..(MaxNodes + 1)
    /\ owner \in [Nodes \cup {Root} -> Nodes \cup {Root}]
    /\ counts \in [Nodes \cup {Root} -> [Names -> Nat]]
    /\ DOMAIN qname = Nodes \cup {Root}
    /\ \A n \in Nodes : qname[n] # <<>> <=> n \in Units

\* "Two different bodies cannot share one primary key": whatever is nested in
\* what, and repeated where, two units of a file have two ids, unless a name
\* with a dot of its own is involved.
DistinctIds ==
    \A m, n \in Units : m # n /\ Undotted(m) /\ Undotted(n) => qname[m] # qname[n]

\* The id tells where a unit stands: it continues the id of a class, function
\* or method exactly if the unit is inside of it.  In particular an id of one
\* segment is top level, as extract_api of the Python provider takes it.
IdShowsNesting ==
    \A m, n \in Units :
        kind[m] = "scope" /\ m # n /\ Undotted(m) /\ Undotted(n) =>
            (Above(m, n) <=> /\ Len(qname[m]) < Len(qname[n])
                             /\ SubSeq(qname[n], 1, Len(qname[m])) = qname[m])

\* An id depends on the names around a unit and on the units of its own name
\* before it in the same scope, on nothing else: code added elsewhere in the
\* file leaves the unit its row and its vector.
IdIsLocal ==
    \A n \in Units :
        LET namesakes == {m \in 1..n : /\ kind[m] # "plain" /\ name[m] = name[n]
                                       /\ Around(m) = Around(n)}
        IN  qname[n] = qname[Around(n)] \o Label(name[n], Cardinality(namesakes))
=============================================================================
