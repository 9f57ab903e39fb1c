--------------------------- MODULE UnitIds_proofs ---------------------------
(***************************************************************************)
(* Proofs about UnitIds, for syntax trees of any size and shape and any    *)
(* names, with dots or without.                                            *)
(***************************************************************************)
EXTENDS UnitIds, FiniteSetTheorems, SequenceTheorems, WellFoundedInduction, TLAPS

Segments == STRING \X Nat
Places   == Nodes \cup {Root}

(***************************************************************************)
(* The inductive invariant.  The walk goes down the tree in the order of   *)
(* the nodes, so that whatever is above a node was visited before it: what *)
(* the code hands down is then what can be read off the tree.              *)
(***************************************************************************)
\* The tree, of which the walk changes nothing.
IsTree ==
    /\ parent \in [Nodes -> 0..MaxNodes]
    /\ \A n \in Nodes : parent[n] < n /\ Above(parent[n], n)
    /\ kind \in [Nodes -> {"plain", "MODULE", "scope"}]
    /\ name \in [Nodes -> Names \cup {<<>>}]
    /\ \A n \in Nodes : kind[n] = "plain" <=> name[n] = <<>>

Types == TypeOK /\ qname \in [Places -> Seq(Segments)] /\ qname[Root] = <<>>

\* s is the innermost class, function or method around n.
Encloses(s, n) ==
    /\ s = Root \/ (s \in Nodes /\ Above(s, n) /\ kind[s] = "scope")
    /\ \A t \in Nodes : Above(t, n) /\ kind[t] = "scope" => t <= s

\* The scope handed to a node's children is the innermost one around them.
Scoped ==
    /\ owner[Root] = Root
    /\ \A n \in Nodes : n < next =>
         owner[n] = IF kind[n] = "scope" THEN n ELSE owner[parent[n]]
    /\ \A n \in Nodes : parent[n] < next => Encloses(Scope(n), n)

\* The entities up to node n with a name in a scope.
Bearers(n, nm, o) ==
    {m \in 1..n : kind[m] # "plain" /\ name[m] = nm /\ Scope(m) = o}

\* A scope's count of a name is the number of its entities so far.
Counted ==
    \A o \in Places, nm \in Names :
        counts[o][nm] = Cardinality(Bearers(next - 1, nm, o))

\* An id is that of the scope and a label with the unit's number in it.
Named ==
    \A n \in Units :
        qname[n] = qname[Scope(n)]
                     \o Label(name[n], Cardinality(Bearers(n, name[n], Scope(n))))

Walked == IsTree /\ Types /\ Scoped /\ Counted /\ Named
-----------------------------------------------------------------------------
(***************************************************************************)
(* The tree.                                                               *)
(***************************************************************************)
\* Nodes are numbers, and an entity has a name that consists of identifiers.
LEMMA Numbers ==
    /\ MaxNodes \in Nat /\ Nodes \subseteq Nat /\ Places \subseteq Nat
    /\ Root = 0 /\ Root \notin Nodes /\ Root \in Places /\ Nodes \subseteq Places
BY NamesAssumption DEF Nodes, Root, Places

\* An entity has a name, and it is one or several identifiers.
LEMMA EntityName ==
  ASSUME IsTree, NEW n \in Nodes, kind[n] # "plain"
  PROVE  name[n] \in Names /\ name[n] \in Seq(STRING) /\ name[n] # <<>>
<1>1. name[n] \in Names
  BY DEF IsTree
<1> QED
  BY <1>1, NamesAssumption

\* Above is an order: what is above a node above another is above that one.
LEMMA AboveTransitive ==
  ASSUME IsTree, NEW l \in Places, NEW m \in Nodes, NEW n \in Nodes,
         Above(l, m), Above(m, n)
  PROVE  Above(l, n)
<1>1. /\ l \in Nat /\ m \in Nat /\ n \in Nat /\ l < m /\ m < n
      /\ \A k \in (l + 1)..m : parent[k] >= l
      /\ \A k \in (m + 1)..n : parent[k] >= m
  BY Numbers DEF Above
<1>2. ASSUME NEW k \in (l + 1)..n PROVE parent[k] >= l
  <2>1. k \in Nodes
    BY <1>1, Numbers DEF Nodes
  <2>2. parent[k] \in Nat
    BY <2>1, Numbers DEF IsTree
  <2>3. k \in (l + 1)..m \/ k \in (m + 1)..n
    BY <1>1
  <2> QED
    BY <1>1, <2>2, <2>3
<1> QED
  BY <1>1, <1>2 DEF Above

\* Of two nodes above one, the first is above the second.
LEMMA AboveInner ==
  ASSUME IsTree, NEW l \in Places, NEW m \in Nodes, NEW n \in Nodes,
         Above(l, n), l < m, m <= n
  PROVE  Above(l, m)
BY Numbers DEF Above

\* What is above a node is its parent, or above its parent.
LEMMA AboveParent ==
  ASSUME IsTree, NEW n \in Nodes, NEW s \in Nodes
  PROVE  /\ parent[n] \in Places /\ parent[n] < n /\ Above(parent[n], n)
         /\ Above(s, n) <=> s = parent[n] \/ (parent[n] \in Nodes /\ Above(s, parent[n]))
<1>1. /\ parent[n] \in 0..MaxNodes /\ parent[n] < n /\ Above(parent[n], n)
      /\ n \in Nat /\ s \in Nat /\ parent[n] \in Nat
  BY Numbers DEF IsTree
<1>2. parent[n] \in Places
  BY <1>1 DEF Places, Nodes, Root
<1>3. ASSUME Above(s, n), s # parent[n]
      PROVE  parent[n] \in Nodes /\ Above(s, parent[n])
  <2>1. s < n /\ n \in (s + 1)..n
    BY <1>1, <1>3 DEF Above
  <2>2. s <= parent[n]
    BY <1>1, <1>3, <2>1 DEF Above
  <2>3. s < parent[n]
    BY <1>1, <1>3, <2>2
  <2>4. parent[n] \in Nodes
    BY <1>1, <2>3 DEF Nodes
  <2> QED
    BY <1>1, <1>3, <2>3, <2>4, AboveInner, Numbers
<1>4. ASSUME parent[n] \in Nodes, Above(s, parent[n]) PROVE Above(s, n)
  BY <1>1, <1>4, AboveTransitive, Numbers
<1> QED
  BY <1>1, <1>2, <1>3, <1>4

\* There is one innermost scope, so it is the one Around chooses.
LEMMA AroundIsScope ==
  ASSUME NEW n \in Nodes, NEW s, Encloses(s, n)
  PROVE  Around(n) = s /\ s \in Places
<1> DEFINE S == {t \in Nodes : Above(t, n) /\ kind[t] = "scope"} \cup {Root}
           P(m) == \A t \in Nodes : Above(t, n) /\ kind[t] = "scope" => t <= m
<1>1. s \in S /\ P(s) /\ S \subseteq Nat
  BY Numbers DEF Encloses
<1>2. ASSUME NEW m \in S, P(m) PROVE m = s
  <2>1. m \in Nat /\ s \in Nat /\ Root = 0
    BY <1>1, Numbers
  <2>2. m # Root => m \in Nodes /\ Above(m, n) /\ kind[m] = "scope"
    OBVIOUS
  <2>3. s # Root => s \in Nodes /\ Above(s, n) /\ kind[s] = "scope"
    BY <1>1
  <2>4. m # Root => m <= s
    BY <1>1, <2>2
  <2>5. s # Root => s <= m
    BY <1>2, <2>3
  <2> QED
    BY <2>1, <2>4, <2>5
<1>3. Around(n) = CHOOSE m \in S : P(m)
  BY DEF Around
<1> HIDE DEF S, P
<1>4. Around(n) = s
  BY <1>1, <1>2, <1>3
<1> QED
  BY <1>4, Numbers DEF Encloses
-----------------------------------------------------------------------------
(***************************************************************************)
(* The scopes.                                                             *)
(***************************************************************************)
\* The innermost scope of a node whose parent was visited is one that was
\* visited, or the file.
LEMMA ScopeOfNode ==
  ASSUME Walked, NEW n \in Nodes, parent[n] < next
  PROVE  /\ Encloses(Scope(n), n) /\ Scope(n) = Around(n) /\ Scope(n) \in Places
         /\ Scope(n) < n
         /\ Scope(n) # Root => /\ Scope(n) \in Nodes /\ Above(Scope(n), n)
                               /\ kind[Scope(n)] = "scope"
<1>1. Encloses(Scope(n), n)
  BY DEF Walked, Scoped
<1> QED
  BY <1>1, AroundIsScope, Numbers DEF Encloses, Above

\* What a step of the walk does to its node, which is one below visited ones.
LEMMA StepFrame ==
  ASSUME Walked, Distill
  PROVE  /\ next \in Nodes /\ next \in Nat /\ next' = next + 1
         /\ UNCHANGED tree /\ IsTree
         /\ parent[next] \in Places /\ parent[next] < next
         /\ \A k \in Places : k # next => owner'[k] = owner[k]
         /\ owner'[next] = IF kind[next] = "scope" THEN next ELSE Scope(next)
         /\ owner' \in [Places -> Places]
         /\ \A m \in 1..next : m \in Nodes /\ parent[m] < next /\ Scope(m)' = Scope(m)
<1>1. next \in Nodes /\ next \in Nat /\ next' = next + 1 /\ UNCHANGED tree /\ IsTree
  BY Numbers DEF Distill, Walked
<1>2. owner \in [Places -> Places]
  BY DEF Walked, Types, TypeOK, Places
<1>3. parent[next] \in Places /\ parent[next] < next
  BY <1>1, AboveParent
<1>4. Scope(next) \in Places
  BY <1>1, <1>3, ScopeOfNode
<1>5. /\ \A k \in Places : k # next => owner'[k] = owner[k]
      /\ owner'[next] = IF kind[next] = "scope" THEN next ELSE Scope(next)
      /\ owner' \in [Places -> Places]
  BY <1>1, <1>2, <1>4, Numbers DEF Distill, Opens
<1>6. ASSUME NEW m \in 1..next
      PROVE  m \in Nodes /\ parent[m] < next /\ Scope(m)' = Scope(m)
  <2>1. m \in Nodes
    BY <1>1, Numbers DEF Nodes
  <2>2. parent[m] \in Places /\ parent[m] < m /\ parent[m] \in Nat
    BY <1>1, <2>1, AboveParent, Numbers
  <2>3. parent[m] # next /\ parent[m] < next
    BY <1>1, <2>2
  <2> QED
    BY <1>1, <1>5, <2>1, <2>2, <2>3 DEF Scope, tree
<1> QED
  BY <1>1, <1>3, <1>5, <1>6

\* So the scope that is handed down is the innermost one.
LEMMA ScopedStep == Walked /\ Distill => Scoped'
<1> SUFFICES ASSUME Walked, Distill PROVE Scoped'
  OBVIOUS
<1>0. /\ next \in Nodes /\ next \in Nat /\ next' = next + 1 /\ UNCHANGED tree /\ IsTree
      /\ parent[next] \in Places /\ parent[next] < next
      /\ \A k \in Places : k # next => owner'[k] = owner[k]
      /\ owner'[next] = IF kind[next] = "scope" THEN next ELSE Scope(next)
  BY StepFrame
<1>1. owner'[Root] = Root
  BY <1>0, Numbers DEF Walked, Scoped
<1>2. ASSUME NEW n \in Nodes, n < next'
      PROVE  owner'[n] = IF kind'[n] = "scope" THEN n ELSE owner'[parent'[n]]
  <2>1. n \in 1..next /\ n \in Places
    BY <1>0, <1>2, Numbers DEF Nodes
  <2>2. Scope(n)' = Scope(n)
    BY <2>1, StepFrame
  <2>3. CASE n = next
    BY <1>0, <2>2, <2>3 DEF Scope, tree
  <2>4. CASE n # next
    <3>1. n < next
      BY <1>0, <2>1, <2>4
    <3>2. owner[n] = IF kind[n] = "scope" THEN n ELSE owner[parent[n]]
      BY <3>1 DEF Walked, Scoped
    <3> QED
      BY <1>0, <2>1, <2>2, <2>4, <3>2 DEF Scope, tree
  <2> QED
    BY <2>3, <2>4
<1>3. ASSUME NEW n \in Nodes, parent[n] < next' PROVE Encloses(Scope(n)', n)
  <2>0. /\ parent[n] \in Places /\ parent[n] \in Nat /\ parent[n] < n /\ Above(parent[n], n)
        /\ \A t \in Nodes : Above(t, n) <=>
              t = parent[n] \/ (parent[n] \in Nodes /\ Above(t, parent[n]))
    BY <1>0, AboveParent, Numbers
  <2>1. CASE parent[n] # next
    <3>1. Scope(n)' = Scope(n) /\ parent[n] < next
      BY <1>0, <1>3, <2>0, <2>1 DEF Scope, tree
    <3> QED
      BY <3>1, ScopeOfNode
  <2>2. CASE parent[n] = next
    <3>1. Scope(n)' = IF kind[next] = "scope" THEN next ELSE Scope(next)
      BY <1>0, <2>2 DEF Scope, tree
    <3>2. CASE kind[next] = "scope"
      <4>1. ASSUME NEW t \in Nodes, Above(t, n) PROVE t <= next
        BY <1>0, <2>0, <2>2, <4>1, Numbers DEF Above
      <4> QED
        BY <1>0, <2>0, <2>2, <3>1, <3>2, <4>1 DEF Encloses
    <3>3. CASE kind[next] # "scope"
      <4>1. Encloses(Scope(next), next)
        BY <1>0, ScopeOfNode
      <4>2. Scope(next) # Root => Scope(next) \in Nodes /\ Above(Scope(next), n)
        BY <1>0, <2>0, <2>2, <4>1 DEF Encloses
      <4>3. \A t \in Nodes : Above(t, n) /\ kind[t] = "scope" => t <= Scope(next)
        BY <1>0, <2>0, <2>2, <3>3, <4>1 DEF Encloses
      <4> QED
        BY <3>1, <3>3, <4>1, <4>2, <4>3 DEF Encloses
    <3> QED
      BY <3>2, <3>3
  <2> QED
    BY <2>1, <2>2
<1>4. \A n \in Nodes, m \in Nodes : Above(m, n)' <=> Above(m, n)
  BY <1>0 DEF Above, tree
<1>5. ASSUME NEW n \in Nodes, parent'[n] < next' PROVE Encloses(Scope(n), n)'
  <2>1. Encloses(Scope(n)', n)
    BY <1>0, <1>3, <1>5 DEF tree
  <2> QED
    BY <1>0, <1>4, <2>1 DEF Encloses, tree
<1> QED
  BY <1>1, <1>2, <1>5 DEF Scoped
-----------------------------------------------------------------------------
(***************************************************************************)
(* The counts and the names.                                               *)
(***************************************************************************)
\* The entities counted up to a node do not change with the next step.
LEMMA BearersStay ==
  ASSUME Walked, Distill, NEW j \in 0..next, NEW nm, NEW o
  PROVE  Bearers(j, nm, o)' = Bearers(j, nm, o)
<1>1. \A m \in 1..j : m \in 1..next
  BY StepFrame
<1> QED
  BY <1>1, StepFrame DEF Bearers, tree

\* There are finitely many of them, and the next node is one more if it is an
\* entity of the name in the scope.
LEMMA OneBearerMore ==
  ASSUME NEW n \in Nodes, NEW nm, NEW o
  PROVE  /\ IsFiniteSet(Bearers(n, nm, o)) /\ IsFiniteSet(Bearers(n - 1, nm, o))
         /\ Cardinality(Bearers(n, nm, o)) \in Nat
         /\ Cardinality(Bearers(n, nm, o)) =
              IF kind[n] # "plain" /\ name[n] = nm /\ Scope(n) = o
              THEN Cardinality(Bearers(n - 1, nm, o)) + 1
              ELSE Cardinality(Bearers(n - 1, nm, o))
<1>1. n \in Nat /\ n >= 1
  BY Numbers DEF Nodes
<1>2. IsFiniteSet(1..n) /\ IsFiniteSet(1..(n - 1))
  BY <1>1, FS_Interval
<1>3. IsFiniteSet(Bearers(n, nm, o)) /\ IsFiniteSet(Bearers(n - 1, nm, o))
  BY <1>2, FS_Subset DEF Bearers
<1>4. Bearers(n, nm, o) =
        IF kind[n] # "plain" /\ name[n] = nm /\ Scope(n) = o
        THEN Bearers(n - 1, nm, o) \cup {n} ELSE Bearers(n - 1, nm, o)
  BY <1>1 DEF Bearers
<1>5. n \notin Bearers(n - 1, nm, o)
  BY <1>1 DEF Bearers
<1> QED
  BY <1>3, <1>4, <1>5, FS_AddElement, FS_CardinalityType

\* A label has as many segments as the name.
LEMMA LabelType ==
  ASSUME NEW nm \in Seq(STRING), nm # <<>>, NEW seen \in Nat
  PROVE  /\ Label(nm, seen) \in Seq(Segments)
         /\ Len(Label(nm, seen)) = Len(nm) /\ Len(nm) \in Nat \ {0}
         /\ Label(nm, seen)[Len(nm)] = <<nm[Len(nm)], seen>>
<1>1. Len(nm) \in Nat \ {0} /\ \A i \in 1..Len(nm) : nm[i] \in STRING
  OBVIOUS
<1>2. \A i \in 1..Len(nm) : <<nm[i], IF i = Len(nm) THEN seen ELSE 1>> \in Segments
  BY <1>1 DEF Segments
<1>3. Label(nm, seen) \in [1..Len(nm) -> Segments]
  BY <1>2 DEF Label
<1>4. Label(nm, seen) \in Seq(Segments) /\ Len(Label(nm, seen)) = Len(nm)
  BY <1>1, <1>3
<1>5. Len(nm) \in 1..Len(nm)
  BY <1>1
<1>6. Label(nm, seen)[Len(nm)] = <<nm[Len(nm)], seen>>
  BY <1>5 DEF Label
<1> QED
  BY <1>1, <1>4, <1>6

\* The entity at the next node gets the number of entities of its name in its
\* scope, itself included.
LEMMA QualifyStep ==
  ASSUME Walked, Distill, kind[next] # "plain"
  PROVE  LET s == Scope(next)
             c == Cardinality(Bearers(next, name[next], s))
         IN  /\ s \in Places /\ s # next /\ c \in Nat
             /\ counts' = [counts EXCEPT ![s][name[next]] = c]
             /\ qname' = [qname EXCEPT ![next] = qname[s] \o Label(name[next], c)]
<1>1. next \in Nodes /\ parent[next] < next /\ next \in Nat
  BY StepFrame
<1>2. Scope(next) \in Places /\ Scope(next) < next /\ Scope(next) \in Nat
  BY <1>1, ScopeOfNode, Numbers
<1>3. name[next] \in Names
  BY <1>1, EntityName DEF Walked
<1>4. counts[Scope(next)][name[next]] = Cardinality(Bearers(next - 1, name[next], Scope(next)))
  BY <1>2, <1>3 DEF Walked, Counted
<1>5. /\ Cardinality(Bearers(next, name[next], Scope(next))) \in Nat
      /\ Cardinality(Bearers(next, name[next], Scope(next)))
            = counts[Scope(next)][name[next]] + 1
  BY <1>1, <1>4, OneBearerMore
<1>6. Qualify(next)
  BY DEF Distill, IsEntity
<1> QED
  BY <1>1, <1>2, <1>5, <1>6 DEF Qualify

\* A plain node is neither counted nor named.
LEMMA PlainStep ==
  ASSUME Distill, kind[next] = "plain"
  PROVE  UNCHANGED <<counts, qname>>
BY DEF Distill, IsEntity

\* The units of the walk so far are one more.
LEMMA UnitsStep ==
  ASSUME Walked, Distill
  PROVE  /\ Units \subseteq Units' /\ next \notin Units
         /\ Units' = IF kind[next] = "plain" THEN Units ELSE Units \cup {next}
         /\ \A n \in Units : n < next /\ n \in Nodes /\ n \in 1..next
<1>1. next \in Nodes /\ next \in Nat /\ next' = next + 1 /\ kind' = kind
  BY StepFrame DEF tree
<1>2. Units' = {n \in Nodes : n < next + 1 /\ kind[n] # "plain"}
  BY <1>1 DEF Units, IsEntity
<1>3. \A n \in Nodes : n \in Nat /\ n >= 1
  BY Numbers DEF Nodes
<1>4. \A n \in Nodes : n < next + 1 <=> n < next \/ n = next
  BY <1>1, <1>3
<1>5. Units = {n \in Nodes : n < next /\ kind[n] # "plain"}
  BY DEF Units, IsEntity
<1>6. Units' = IF kind[next] = "plain" THEN Units ELSE Units \cup {next}
  BY <1>1, <1>2, <1>4, <1>5
<1>7. next \notin Units /\ \A n \in Units : n < next /\ n \in Nodes /\ n \in 1..next
  BY <1>1, <1>3, <1>5
<1> QED
  BY <1>6, <1>7

\* Counts stay true,
LEMMA CountedStep == Walked /\ Distill => Counted'
<1> SUFFICES ASSUME Walked, Distill, NEW o \in Places, NEW nm \in Names
             PROVE  counts'[o][nm] = Cardinality(Bearers(next - 1, nm, o))'
  BY DEF Counted
<1>1. PICK n \in Nodes : n = next /\ n \in Nat /\ next' = n + 1
  BY StepFrame
<1>2. counts \in [Places -> [Names -> Nat]] /\ counts[o][nm] = Cardinality(Bearers(n - 1, nm, o))
  BY <1>1 DEF Walked, Types, TypeOK, Places, Counted
<1>3. next' - 1 = n /\ n \in 0..next
  BY <1>1
<1>4. Bearers(n, nm, o)' = Bearers(n, nm, o)
  BY <1>3, BearersStay
<1>5. Bearers(next - 1, nm, o)' = Bearers(n, nm, o)'
  BY <1>3 DEF Bearers
<1>6. CASE kind[n] # "plain"
  <2>1. /\ Scope(n) \in Places /\ name[n] \in Names
        /\ counts' = [counts EXCEPT ![Scope(n)][name[n]] =
                        Cardinality(Bearers(n, name[n], Scope(n)))]
    BY <1>1, <1>6, QualifyStep, EntityName DEF Walked
  <2>2. CASE name[n] = nm /\ Scope(n) = o
    BY <1>2, <1>4, <1>5, <2>1, <2>2
  <2>3. CASE ~ (name[n] = nm /\ Scope(n) = o)
    <3>1. counts'[o][nm] = counts[o][nm]
      BY <1>2, <2>1, <2>3
    <3>2. Cardinality(Bearers(n, nm, o)) = Cardinality(Bearers(n - 1, nm, o))
      BY <2>3, OneBearerMore
    <3> QED
      BY <1>2, <1>4, <1>5, <3>1, <3>2
  <2> QED
    BY <2>2, <2>3
<1>7. CASE kind[n] = "plain"
  <2>1. Cardinality(Bearers(n, nm, o)) = Cardinality(Bearers(n - 1, nm, o))
    BY <1>7, OneBearerMore
  <2> QED
    BY <1>1, <1>2, <1>4, <1>5, <1>7, <2>1, PlainStep
<1> QED
  BY <1>6, <1>7

\* types are kept,
LEMMA TypesStep == Walked /\ Distill => Types'
<1> SUFFICES ASSUME Walked, Distill PROVE Types'
  OBVIOUS
<1>0. /\ Types /\ next \in Nodes /\ next \in Nat /\ next' = next + 1
      /\ owner' \in [Places -> Places]
  BY StepFrame DEF Walked
<1>1. /\ counts \in [Places -> [Names -> Nat]] /\ qname \in [Places -> Seq(Segments)]
      /\ qname[Root] = <<>> /\ DOMAIN qname = Places
      /\ \A n \in Nodes : qname[n] # <<>> <=> n \in Units
  BY <1>0 DEF Types, TypeOK, Places
<1>2. next' \in 1..(MaxNodes + 1)
  BY <1>0, Numbers DEF Nodes
<1>3. CASE kind[next] # "plain"
  <2> DEFINE s == Scope(next)
             c == Cardinality(Bearers(next, name[next], s))
             l == Label(name[next], c)
  <2>1. /\ s \in Places /\ s # next /\ c \in Nat
        /\ counts' = [counts EXCEPT ![s][name[next]] = c]
        /\ qname' = [qname EXCEPT ![next] = qname[s] \o l]
    BY <1>3, QualifyStep
  <2>2. l \in Seq(Segments) /\ Len(l) \in Nat \ {0} /\ name[next] \in Names
    BY <1>0, <1>3, <2>1, EntityName, LabelType DEF Walked
  <2> HIDE DEF s, c, l
  <2>3. counts' \in [Places -> [Names -> Nat]]
    BY <1>1, <2>1, <2>2
  <2>4. qname[s] \o l \in Seq(Segments) /\ qname[s] \o l # <<>>
    <3>1. qname[s] \in Seq(Segments)
      BY <1>1, <2>1
    <3> QED
      BY <2>2, <3>1
  <2>5. /\ qname' \in [Places -> Seq(Segments)] /\ qname'[Root] = <<>>
        /\ \A n \in Places : qname'[n] = IF n = next THEN qname[s] \o l ELSE qname[n]
    BY <1>0, <1>1, <2>1, <2>4, Numbers
  <2>6. \A n \in Nodes : qname'[n] # <<>> <=> n \in Units'
    BY <1>1, <1>3, <2>4, <2>5, UnitsStep, Numbers
  <2> QED
    BY <1>0, <1>2, <2>3, <2>5, <2>6 DEF Types, TypeOK, Places
<1>4. CASE kind[next] = "plain"
  BY <1>0, <1>1, <1>2, <1>4, PlainStep, UnitsStep DEF Types, TypeOK, Places
<1> QED
  BY <1>3, <1>4

\* and so are the names, which do not change once they are given.
LEMMA NamesStay ==
  ASSUME Walked, Distill
  PROVE  \A n \in Places : n # next => qname'[n] = qname[n]
BY QualifyStep, PlainStep DEF Walked, Types

LEMMA NamedStep == Walked /\ Distill => Named'
<1> SUFFICES ASSUME Walked, Distill, NEW n \in Units'
             PROVE  (qname[n] = qname[Scope(n)]
                       \o Label(name[n], Cardinality(Bearers(n, name[n], Scope(n)))))'
  BY DEF Named
<1>1. /\ next \in Nodes /\ next \in Nat /\ n \in Nodes /\ n \in 1..next /\ n \in 0..next
      /\ name' = name
  <2>1. next \in Nodes /\ next \in Nat /\ next \in 1..next /\ name' = name
    BY StepFrame, Numbers DEF tree, Nodes
  <2>2. n = next \/ n \in Units
    BY UnitsStep
  <2>3. n \in Nodes /\ n \in 1..next
    BY <2>1, <2>2, UnitsStep
  <2> QED
    BY <2>1, <2>3
<1>2. parent[n] < next /\ Scope(n)' = Scope(n) /\ Scope(n) \in Places /\ Scope(n) < n
  BY <1>1, StepFrame, ScopeOfNode
<1>3. PICK o \in Places : o = Scope(n) /\ o < n
  BY <1>2
<1>4. PICK nm : nm = name[n]
  OBVIOUS
<1>5. PICK c : c = Cardinality(Bearers(n, nm, o))
  OBVIOUS
<1>6. Bearers(n, name[n], Scope(n))' = Bearers(n, nm, o)
  <2>1. Bearers(n, nm, o)' = Bearers(n, nm, o)
    BY <1>1, BearersStay
  <2>2. Bearers(n, name[n], Scope(n))' = Bearers(n, nm, o)'
    BY <1>1, <1>2, <1>3, <1>4 DEF Bearers
  <2> QED
    BY <2>1, <2>2
<1>7. o # next /\ qname'[o] = qname[o]
  BY <1>1, <1>3, NamesStay, Numbers
<1>8. qname'[n] = qname[o] \o Label(nm, c)
  <2>1. CASE n = next
    <3>1. kind[n] # "plain"
      BY <2>1, UnitsStep
    <3>2. qname' = [qname EXCEPT ![n] = qname[o] \o Label(nm, c)]
      BY <1>3, <1>4, <1>5, <2>1, <3>1, QualifyStep
    <3>3. n \in DOMAIN qname
      BY <1>1, Numbers DEF Walked, Types
    <3> QED
      BY <3>2, <3>3
  <2>2. CASE n # next
    <3>1. n \in Units
      BY <2>2, UnitsStep
    <3>2. qname[n] = qname[o] \o Label(nm, c)
      BY <1>3, <1>4, <1>5, <3>1 DEF Walked, Named
    <3>3. n \in Places
      BY <1>1, Numbers
    <3> QED
      BY <2>2, <3>2, <3>3, NamesStay
  <2> QED
    BY <2>1, <2>2
<1>9. (Label(name[n], Cardinality(Bearers(n, name[n], Scope(n)))))' = Label(nm, c)
  BY <1>1, <1>4, <1>5, <1>6 DEF Label
<1> QED
  BY <1>1, <1>2, <1>3, <1>7, <1>8, <1>9

\* A step keeps what the walk knows.
LEMMA NextWalked == Walked /\ [Next]_vars => Walked'
<1>1. ASSUME Walked, Distill PROVE Walked'
  <2>1. IsTree'
    BY <1>1, StepFrame DEF IsTree, Above, tree
  <2> QED
    BY <1>1, <2>1, ScopedStep, CountedStep, TypesStep, NamedStep DEF Walked
<1>2. ASSUME Walked, UNCHANGED vars PROVE Walked'
  <2>1. UNCHANGED <<parent, kind, name, next, owner, counts, qname>>
    BY <1>2 DEF vars, tree
  <2>2. IsTree' /\ Types'
    BY <1>2, <2>1 DEF Walked, IsTree, Types, TypeOK, Above, Units, IsEntity
  <2>3. Scoped'
    BY <1>2, <2>1 DEF Walked, Scoped, Scope, Encloses, Above
  <2>4. Counted' /\ Named'
    BY <1>2, <2>1 DEF Walked, Counted, Named, Bearers, Scope, Units, IsEntity, Label
  <2> QED
    BY <2>2, <2>3, <2>4 DEF Walked
<1> QED
  BY <1>1, <1>2 DEF Next, Return

\* At the start nothing is counted or named.
LEMMA InitWalked == Init => Walked
<1> SUFFICES ASSUME Init PROVE Walked
  OBVIOUS
<1>1. IsTree
  BY DEF Init, IsTree
<1>2. Units = {}
  BY Numbers DEF Init, Units, Nodes
<1>3. Types
  BY <1>2, Numbers DEF Init, Types, TypeOK, Places
<1>4. Scoped
  <2>1. ASSUME NEW n \in Nodes, parent[n] < next PROVE Encloses(Scope(n), n)
    <3>1. parent[n] = Root /\ n \in Nat
      BY <1>1, <2>1, Numbers DEF IsTree, Init
    <3>2. Scope(n) = Root
      BY <3>1, Numbers DEF Scope, Init
    <3>3. ASSUME NEW t \in Nodes, Above(t, n) PROVE FALSE
      BY <1>1, <3>1, <3>3, AboveParent, Numbers
    <3> QED
      BY <3>2, <3>3 DEF Encloses
  <2> QED
    BY <2>1, Numbers DEF Init, Scoped, Nodes
<1>5. Counted
  <2>1. \A nm, o : Bearers(next - 1, nm, o) = {}
    BY DEF Init, Bearers
  <2> QED
    BY <2>1, FS_EmptySet DEF Init, Counted, Places
<1> QED
  BY <1>1, <1>2, <1>3, <1>4, <1>5 DEF Walked, Named
-----------------------------------------------------------------------------
(***************************************************************************)
(* What the names given so far say of each other.  All three arguments go  *)
(* by the first unit that would break the property: the scope around it    *)
(* was visited before it.                                                  *)
(***************************************************************************)
\* A set of nodes has a first one.
LEMMA FirstNode ==
  ASSUME NEW S \in SUBSET Nodes, S # {}
  PROVE  \E n \in S : \A m \in S : n <= m
<1>1. S \subseteq Nat
  BY Numbers
<1>2. PICK n \in S : \A m \in S : <<m, n>> \notin OpToRel(<, Nat)
  BY <1>1, WFMin, NatLessThanWellFounded, Zenon
<1>3. \A m \in S : ~ (m < n)
  BY <1>1, <1>2, Zenon DEF OpToRel
<1>4. \A m \in S : n <= m
  BY <1>1, <1>3
<1> QED
  BY <1>4

\* The id of a unit is that of its scope and a label, and the scope is a unit
\* before it, or the file.
LEMMA UnitFacts ==
  ASSUME Walked, NEW n \in Units
  PROVE  LET s == Scope(n)
             c == Cardinality(Bearers(n, name[n], s))
         IN  /\ n \in Nodes /\ n < next /\ n \in Nat /\ kind[n] # "plain"
             /\ name[n] \in Seq(STRING) /\ name[n] # <<>> /\ c \in Nat
             /\ s \in Places /\ s \in Nat /\ s < n
             /\ qname[s] \in Seq(Segments) /\ qname[n] \in Seq(Segments)
             /\ qname[n] = qname[s] \o Label(name[n], c)
             /\ s = Root => qname[s] = <<>>
             /\ s # Root => s \in Units /\ Above(s, n) /\ kind[s] = "scope"
<1> DEFINE s == Scope(n)
           c == Cardinality(Bearers(n, name[n], s))
<1>1. n \in Nodes /\ n < next /\ n \in Nat /\ kind[n] # "plain" /\ next \in Nat
  BY Numbers DEF Units, IsEntity, Walked, Types, TypeOK
<1>2. parent[n] \in Places /\ parent[n] < next
  <2>1. PICK p \in Places : p = parent[n] /\ p < n
    BY <1>1, AboveParent DEF Walked
  <2>2. p \in Nat
    BY Numbers
  <2>3. p < next
    BY <1>1, <2>1, <2>2
  <2> QED
    BY <2>1, <2>3
<1>3. /\ s \in Places /\ s \in Nat /\ s < n
      /\ s # Root => s \in Nodes /\ Above(s, n) /\ kind[s] = "scope"
  BY <1>1, <1>2, ScopeOfNode, Numbers
<1>4. name[n] \in Seq(STRING) /\ name[n] # <<>>
  BY <1>1, EntityName DEF Walked
<1>5. c \in Nat
  BY <1>1, OneBearerMore
<1>6. qname \in [Places -> Seq(Segments)] /\ qname[Root] = <<>>
  BY DEF Walked, Types
<1>7. qname[n] = qname[s] \o Label(name[n], c)
  BY DEF Walked, Named
<1>8. s # Root => s \in Units
  BY <1>1, <1>3 DEF Units, IsEntity
<1>9. qname[s] \in Seq(Segments) /\ qname[n] \in Seq(Segments)
  BY <1>1, <1>3, <1>6, Numbers
<1> QED
  BY <1>1, <1>3, <1>4, <1>5, <1>6, <1>7, <1>8, <1>9

\* Without dots the label is one segment, and the scope has no dots either.
LEMMA UndottedFacts ==
  ASSUME Walked, NEW n \in Units, Undotted(n)
  PROVE  LET s == Scope(n)
             c == Cardinality(Bearers(n, name[n], s))
         IN  /\ name[n] = <<name[n][1]>> /\ <<name[n][1], c>> \in Segments
             /\ qname[n] = Append(qname[s], <<name[n][1], c>>)
             /\ s # Root => Undotted(s)
<1> DEFINE s == Scope(n)
           c == Cardinality(Bearers(n, name[n], s))
<1>1. /\ n \in Nodes /\ kind[n] # "plain" /\ name[n] \in Seq(STRING) /\ c \in Nat
      /\ s \in Places /\ qname[s] \in Seq(Segments)
      /\ qname[n] = qname[s] \o Label(name[n], c)
      /\ s # Root => s \in Units /\ Above(s, n) /\ kind[s] = "scope"
  BY UnitFacts
<1>2. Len(name[n]) = 1
  BY <1>1 DEF Undotted
<1>3. name[n] = <<name[n][1]>> /\ name[n][1] \in STRING
  BY <1>1, <1>2
<1>4. PICK a \in STRING : a = name[n][1]
  BY <1>3
<1>5. <<a, c>> \in Segments
  BY <1>1 DEF Segments
<1>6. Label(name[n], c) = << <<a, c>> >>
  BY <1>2, <1>4 DEF Label
<1>7. Append(qname[s], <<a, c>>) = qname[s] \o << <<a, c>> >>
  BY <1>1, <1>5, AppendIsConcat
<1>8. ASSUME s # Root PROVE Undotted(s)
  <2>1. s \in Nodes /\ Above(s, n)
    BY <1>1, <1>8 DEF Units
  <2>2. \A m \in Nodes : m = s \/ Above(m, s) => Above(m, n)
    BY <1>1, <2>1, AboveTransitive, Numbers DEF Walked
  <2> QED
    BY <1>1, <2>2 DEF Undotted
<1> QED
  BY <1>1, <1>3, <1>4, <1>5, <1>6, <1>7, <1>8

\* Two units of one name in one scope have two numbers.
LEMMA TwoNumbers ==
  ASSUME Walked, NEW m \in Units, NEW n \in Units, m < n,
         name[m] = name[n], Scope(m) = Scope(n)
  PROVE  Cardinality(Bearers(m, name[m], Scope(m)))
           # Cardinality(Bearers(n, name[n], Scope(n)))
<1>1. m \in Nodes /\ n \in Nodes /\ m \in Nat /\ n \in Nat /\ kind[n] # "plain"
  BY UnitFacts
<1>2. PICK o, nm : o = Scope(n) /\ nm = name[n]
  OBVIOUS
<1>3. IsFiniteSet(Bearers(n, nm, o))
  BY <1>1, OneBearerMore
<1>4. Bearers(m, nm, o) \subseteq Bearers(n, nm, o)
  BY <1>1 DEF Bearers
<1>5. n \in Bearers(n, nm, o) /\ n \notin Bearers(m, nm, o)
  BY <1>1, <1>2 DEF Bearers, Nodes
<1>6. Cardinality(Bearers(m, nm, o)) # Cardinality(Bearers(n, nm, o))
  BY <1>3, <1>4, <1>5, FS_Subset
<1> QED
  BY <1>2, <1>6

\* Two different units without dots have two ids: the last segments of equal
\* ids give them one name and one number, the rest the ids of their scopes,
\* which were visited before and are therefore one scope.
LEMMA WalkedDistinct == Walked => DistinctIds
<1> SUFFICES ASSUME Walked PROVE DistinctIds
  OBVIOUS
<1> DEFINE Twin(m, n) == /\ m < n /\ Undotted(m) /\ Undotted(n)
                         /\ qname[m] = qname[n]
           S == {n \in Units : \E m \in Units : Twin(m, n)}
<1>1. S = {}
  <2> SUFFICES ASSUME S # {} PROVE FALSE
    OBVIOUS
  <2>1. PICK n \in S : \A k \in S : n <= k
    BY FirstNode DEF Units
  <2>2. PICK m \in Units : Twin(m, n)
    BY <2>1
  <2>3. n \in Units
    BY <2>1
  <2>4. ASSUME NEW u \in Units, NEW v \in Units, v < n, Twin(u, v) PROVE FALSE
    <3>1. v \in S
      BY <2>4
    <3>2. n <= v
      BY <2>1, <3>1
    <3>3. n \in Nat /\ v \in Nat
      BY <2>3, UnitFacts
    <3> QED
      BY <2>4, <3>2, <3>3
  <2>5. /\ m \in Nat /\ n \in Nat /\ m < n /\ Undotted(m) /\ Undotted(n)
        /\ qname[m] = qname[n]
    BY <2>2, <2>3, UnitFacts
  <2> HIDE DEF S, Twin
  <2>6. ASSUME NEW k \in Units, Undotted(k)
        PROVE  \E a \in Places, c \in Nat :
                 /\ a = Scope(k) /\ c = Cardinality(Bearers(k, name[k], a))
                 /\ a \in Nat /\ a < k /\ qname[a] \in Seq(Segments)
                 /\ name[k] = <<name[k][1]>> /\ <<name[k][1], c>> \in Segments
                 /\ qname[k] = Append(qname[a], <<name[k][1], c>>)
                 /\ a = Root => qname[a] = <<>>
                 /\ a # Root => a \in Units /\ Undotted(a) /\ qname[a] # <<>>
    <3>1. Scope(k) # Root => Scope(k) \in Units /\ qname[Scope(k)] # <<>>
      BY UnitFacts DEF Walked, Types, TypeOK, Units
    <3> QED
      BY <2>6, <3>1, UnitFacts, UndottedFacts
  <2>7. PICK a \in Places, c \in Nat :
                 /\ a = Scope(m) /\ c = Cardinality(Bearers(m, name[m], a))
                 /\ a \in Nat /\ a < m /\ qname[a] \in Seq(Segments)
                 /\ name[m] = <<name[m][1]>> /\ <<name[m][1], c>> \in Segments
                 /\ qname[m] = Append(qname[a], <<name[m][1], c>>)
                 /\ a = Root => qname[a] = <<>>
                 /\ a # Root => a \in Units /\ Undotted(a) /\ qname[a] # <<>>
    BY <2>5, <2>6
  <2>8. PICK b \in Places, d \in Nat :
                 /\ b = Scope(n) /\ d = Cardinality(Bearers(n, name[n], b))
                 /\ b \in Nat /\ b < n /\ qname[b] \in Seq(Segments)
                 /\ name[n] = <<name[n][1]>> /\ <<name[n][1], d>> \in Segments
                 /\ qname[n] = Append(qname[b], <<name[n][1], d>>)
                 /\ b = Root => qname[b] = <<>>
                 /\ b # Root => b \in Units /\ Undotted(b) /\ qname[b] # <<>>
    BY <2>3, <2>5, <2>6
  <2>9. qname[a] = qname[b] /\ <<name[m][1], c>> = <<name[n][1], d>>
    <3>1. PICK e \in Segments : e = <<name[m][1], c>>
      BY <2>7
    <3>2. PICK f \in Segments : f = <<name[n][1], d>>
      BY <2>8
    <3>3. PICK t \in Seq(Segments) : t = qname[a]
      BY <2>7
    <3>4. PICK u \in Seq(Segments) : u = qname[b]
      BY <2>8
    <3>5. Append(t, e) = Append(u, f)
      BY <2>5, <2>7, <2>8, <3>1, <3>2, <3>3, <3>4
    <3>6. t = u /\ e = f
      BY <3>5, AppendInjective
    <3> QED
      BY <3>1, <3>2, <3>3, <3>4, <3>6
  <2>10. name[m] = name[n] /\ c = d
    BY <2>7, <2>8, <2>9
  <2>11. a = b
    <3> SUFFICES ASSUME a # b PROVE FALSE
      OBVIOUS
    <3>1. a # Root /\ b # Root
      BY <2>7, <2>8, <2>9
    <3>2. /\ a \in Units /\ b \in Units /\ Undotted(a) /\ Undotted(b)
          /\ a \in Nat /\ b \in Nat /\ a < n /\ b < n
      BY <2>5, <2>7, <2>8, <3>1
    <3>3. a < b \/ b < a
      BY <3>2
    <3> QED
      BY <2>4, <2>9, <3>2, <3>3 DEF Twin
  <2> QED
    BY <2>3, <2>5, <2>7, <2>8, <2>10, <2>11, TwoNumbers
<1>2. ASSUME NEW m \in Units, NEW n \in Units, m # n, Undotted(m), Undotted(n),
             qname[m] = qname[n]
      PROVE  FALSE
  <2>1. m \in Nat /\ n \in Nat
    BY UnitFacts
  <2>2. m < n \/ n < m
    BY <1>2, <2>1
  <2> QED
    BY <1>1, <1>2, <2>2
<1> QED
  BY <1>2 DEF DistinctIds

\* Every beginning of an id is the id of a scope around the unit.
Rooted ==
    \A n \in Units : Undotted(n) =>
        \A k \in 1..(Len(qname[n]) - 1) :
            \E a \in Units : /\ kind[a] = "scope" /\ Above(a, n) /\ Undotted(a)
                             /\ qname[a] = SubSeq(qname[n], 1, k)

\* The id of a unit in a scope goes on from that of the scope.
Nested ==
    \A m, n \in Units : kind[m] = "scope" /\ Above(m, n) =>
        /\ Len(qname[m]) < Len(qname[n])
        /\ SubSeq(qname[n], 1, Len(qname[m])) = qname[m]

\* The beginnings of a longer id are those of the shorter one it continues.
LEMMA Beginnings ==
  ASSUME NEW a \in Seq(Segments), NEW b \in Seq(Segments), NEW k \in 1..Len(a)
  PROVE  /\ SubSeq(a \o b, 1, k) = SubSeq(a, 1, k)
         /\ k = Len(a) => SubSeq(a \o b, 1, k) = a
<1>1. 1 \in 1..Len(a)
  OBVIOUS
<1> QED
  BY <1>1, SubSeqOfConcat1, SubSeqFull

LEMMA WalkedRooted == Walked => Rooted
<1> SUFFICES ASSUME Walked PROVE Rooted
  OBVIOUS
<1> DEFINE Root1(n, k) ==
             \E a \in Units : /\ kind[a] = "scope" /\ Above(a, n) /\ Undotted(a)
                              /\ qname[a] = SubSeq(qname[n], 1, k)
           S == {n \in Units : /\ Undotted(n)
                               /\ \E k \in 1..(Len(qname[n]) - 1) : ~ Root1(n, k)}
<1>1. S = {}
  <2> SUFFICES ASSUME S # {} PROVE FALSE
    OBVIOUS
  <2>1. PICK n \in S : \A i \in S : n <= i
    BY FirstNode DEF Units
  <2>2. n \in Units /\ Undotted(n)
    BY <2>1
  <2>3. PICK k \in 1..(Len(qname[n]) - 1) : ~ Root1(n, k)
    BY <2>1
  <2>4. ASSUME NEW i \in Units, i < n, Undotted(i), NEW j \in 1..(Len(qname[i]) - 1)
        PROVE  Root1(i, j)
    <3>1. i \in Nat /\ n \in Nat
      BY <2>2, UnitFacts
    <3>2. ~ (n <= i)
      BY <2>4, <3>1
    <3>3. i \notin S
      BY <2>1, <3>2
    <3> QED
      BY <2>4, <3>3
  <2> HIDE DEF S
  <2>5. PICK s \in Places, c \in Nat :
          /\ s = Scope(n) /\ s < n /\ qname[s] \in Seq(Segments)
          /\ <<name[n][1], c>> \in Segments
          /\ qname[n] = Append(qname[s], <<name[n][1], c>>)
          /\ s = Root => qname[s] = <<>>
          /\ s # Root => s \in Units /\ Above(s, n) /\ kind[s] = "scope" /\ Undotted(s)
    BY <2>2, UnitFacts, UndottedFacts
  <2>6. PICK x \in Segments : x = <<name[n][1], c>>
    BY <2>5
  <2>7. PICK q \in Seq(Segments) : q = qname[s]
    BY <2>5
  <2>8. qname[n] = q \o <<x>> /\ Len(qname[n]) = Len(q) + 1 /\ <<x>> \in Seq(Segments)
    <3>1. qname[n] = Append(q, x)
      BY <2>5, <2>6, <2>7
    <3>2. Append(q, x) = q \o <<x>> /\ Len(Append(q, x)) = Len(q) + 1
      BY AppendIsConcat, AppendProperties
    <3> QED
      BY <3>1, <3>2
  <2>9. k \in 1..Len(q)
    BY <2>3, <2>7, <2>8
  <2>10. /\ SubSeq(qname[n], 1, k) = SubSeq(q, 1, k)
         /\ k = Len(q) => SubSeq(qname[n], 1, k) = q
    BY <2>7, <2>8, <2>9, Beginnings
  <2>11. s # Root
    BY <2>5, <2>7, <2>9
  <2>12. CASE k = Len(q)
    BY <2>3, <2>5, <2>7, <2>10, <2>11, <2>12
  <2>13. CASE k # Len(q)
    <3>1. k \in 1..(Len(qname[s]) - 1)
      BY <2>7, <2>9, <2>13
    <3>2. PICK a \in Units : /\ kind[a] = "scope" /\ Above(a, s) /\ Undotted(a)
                             /\ qname[a] = SubSeq(qname[s], 1, k)
      BY <2>4, <2>5, <2>11, <3>1
    <3>3. Above(a, n)
      <4>1. a \in Places /\ s \in Nodes /\ n \in Nodes
        BY <2>2, <2>5, <2>11, Numbers DEF Units
      <4> QED
        BY <2>5, <2>11, <3>2, <4>1, AboveTransitive DEF Walked
    <3> QED
      BY <2>3, <2>7, <2>10, <3>2, <3>3
  <2> QED
    BY <2>12, <2>13
<1> QED
  BY <1>1 DEF Rooted

LEMMA WalkedNested == Walked => Nested
<1> SUFFICES ASSUME Walked PROVE Nested
  OBVIOUS
<1> DEFINE Continues(m, n) == /\ Len(qname[m]) < Len(qname[n])
                              /\ SubSeq(qname[n], 1, Len(qname[m])) = qname[m]
           Inside(m, n) == kind[m] = "scope" /\ Above(m, n)
           S == {n \in Units : \E m \in Units : Inside(m, n) /\ ~ Continues(m, n)}
<1>1. S = {}
  <2> SUFFICES ASSUME S # {} PROVE FALSE
    OBVIOUS
  <2>1. PICK n \in S : \A i \in S : n <= i
    BY FirstNode DEF Units
  <2>2. n \in Units
    BY <2>1
  <2>3. PICK m \in Units : Inside(m, n) /\ ~ Continues(m, n)
    BY <2>1
  <2>4. ASSUME NEW i \in Units, i < n, Inside(m, i) PROVE Continues(m, i)
    <3>1. i \in Nat /\ n \in Nat
      BY <2>2, UnitFacts
    <3>2. ~ (n <= i)
      BY <2>4, <3>1
    <3>3. i \notin S
      BY <2>1, <3>2
    <3> QED
      BY <2>4, <3>3
  <2> HIDE DEF S
  <2>5. PICK s \in Places, c \in Nat :
          /\ s = Scope(n) /\ s \in Nat /\ s < n
          /\ qname[n] = qname[s] \o Label(name[n], c)
          /\ s # Root => s \in Units /\ Above(s, n) /\ kind[s] = "scope"
    BY <2>2, UnitFacts
  <2>6. PICK l \in Seq(Segments) : l = Label(name[n], c) /\ Len(l) \in Nat \ {0}
    <3>1. name[n] \in Seq(STRING) /\ name[n] # <<>>
      BY <2>2, UnitFacts
    <3> QED
      BY <3>1, LabelType
  <2>7. /\ m \in Nodes /\ n \in Nodes /\ m \in Nat /\ n \in Nat /\ m >= 1
        /\ qname[m] \in Seq(Segments) /\ qname[m] # <<>>
    <3>1. /\ m \in Nodes /\ n \in Nodes /\ m \in Nat /\ n \in Nat
          /\ qname[m] \in Seq(Segments)
      BY <2>2, UnitFacts
    <3>2. m >= 1
      BY <3>1 DEF Nodes
    <3>3. qname[m] # <<>>
      BY <3>1 DEF Walked, Types, TypeOK
    <3> QED
      BY <3>1, <3>2, <3>3
  <2>8. m <= s
    <3>1. parent[n] < next
      <4>1. PICK p \in Places : p = parent[n] /\ p < n
        BY <2>7, AboveParent DEF Walked
      <4>2. p \in Nat /\ next \in Nat /\ n < next
        BY <2>2, Numbers DEF Units, Walked, Types, TypeOK
      <4> QED
        BY <2>7, <4>1, <4>2
    <3>2. Encloses(s, n)
      BY <2>5, <2>7, <3>1, ScopeOfNode
    <3> QED
      BY <2>3, <2>7, <3>2 DEF Encloses
  <2>9. s # Root /\ s \in Units /\ qname[s] \in Seq(Segments) /\ s \in Nodes
    <3>1. s # Root
      BY <2>5, <2>7, <2>8, Numbers
    <3>2. s \in Units
      BY <2>5, <3>1
    <3> QED
      BY <3>1, <3>2, UnitFacts
  <2>10. PICK q \in Seq(Segments) : q = qname[s]
    BY <2>9
  <2>11. Len(qname[n]) = Len(q) + Len(l) /\ Len(q) \in Nat
    BY <2>5, <2>6, <2>10
  <2>12. CASE m = s
    <3>1. PICK k \in 1..Len(q) : k = Len(q)
      BY <2>7, <2>10, <2>12
    <3>2. SubSeq(q \o l, 1, k) = q
      BY <2>6, <3>1, Beginnings
    <3>3. Len(qname[m]) = k /\ qname[n] = q \o l /\ qname[m] = q
      BY <2>5, <2>6, <2>10, <2>12, <3>1
    <3>4. k < Len(qname[n])
      BY <2>6, <2>11, <3>1
    <3> QED
      BY <2>3, <3>2, <3>3, <3>4
  <2>13. CASE m # s
    <3>1. Above(m, s)
      <4>1. m < s /\ s <= n
        BY <2>5, <2>7, <2>8, <2>13
      <4> QED
        BY <2>3, <2>7, <2>9, <4>1, AboveInner, Numbers DEF Walked
    <3>2. Continues(m, s)
      BY <2>3, <2>4, <2>5, <2>9, <3>1
    <3>3. PICK k \in 1..Len(q) : k = Len(qname[m])
      BY <2>7, <2>10, <2>11, <3>2
    <3>4. SubSeq(q \o l, 1, k) = SubSeq(q, 1, k)
      BY <2>6, Beginnings
    <3>5. Len(qname[m]) < Len(qname[n])
      <4>1. Len(qname[m]) < Len(q)
        BY <2>10, <3>2
      <4> QED
        BY <2>6, <2>11, <3>3, <4>1
    <3> QED
      BY <2>3, <2>5, <2>6, <2>10, <3>2, <3>3, <3>4, <3>5
  <2> QED
    BY <2>12, <2>13
<1> QED
  BY <1>1 DEF Nested

\* An id that another one continues is that of a scope around the unit: there
\* is one (Rooted), and no other unit has its id (DistinctIds).
LEMMA WalkedShowsNesting == Walked => IdShowsNesting
<1> SUFFICES ASSUME Walked, NEW m \in Units, NEW n \in Units,
                    kind[m] = "scope", m # n, Undotted(m), Undotted(n)
             PROVE  Above(m, n) <=> /\ Len(qname[m]) < Len(qname[n])
                                    /\ SubSeq(qname[n], 1, Len(qname[m])) = qname[m]
  BY DEF IdShowsNesting
<1>1. Rooted /\ Nested /\ DistinctIds
  BY WalkedRooted, WalkedNested, WalkedDistinct
<1>2. ASSUME Len(qname[m]) < Len(qname[n]), SubSeq(qname[n], 1, Len(qname[m])) = qname[m]
      PROVE  Above(m, n)
  <2>1. qname[m] \in Seq(Segments) /\ qname[m] # <<>> /\ qname[n] \in Seq(Segments)
    BY UnitFacts DEF Walked, Types, TypeOK, Units
  <2>2. Len(qname[m]) \in 1..(Len(qname[n]) - 1)
    BY <1>2, <2>1
  <2>3. PICK a \in Units : Above(a, n) /\ Undotted(a) /\ qname[a] = qname[m]
    BY <1>1, <1>2, <2>2 DEF Rooted
  <2>4. a = m
    BY <1>1, <2>3 DEF DistinctIds
  <2> QED
    BY <2>3, <2>4
<1>3. Above(m, n) => /\ Len(qname[m]) < Len(qname[n])
                     /\ SubSeq(qname[n], 1, Len(qname[m])) = qname[m]
  BY <1>1 DEF Nested
<1> QED
  BY <1>2, <1>3

\* What the walk handed down is what the tree says.
LEMMA WalkedLocal == Walked => IdIsLocal
<1> SUFFICES ASSUME Walked, NEW n \in Units
             PROVE  LET namesakes == {m \in 1..n : /\ kind[m] # "plain" /\ name[m] = name[n]
                                                   /\ Around(m) = Around(n)}
                    IN  qname[n] = qname[Around(n)]
                                     \o Label(name[n], Cardinality(namesakes))
  BY DEF IdIsLocal
<1>1. ASSUME NEW m \in 1..n PROVE Around(m) = Scope(m)
  <2>1. m \in Nodes /\ m \in Nat /\ n \in Nat /\ n < next /\ next \in Nat
    <3>1. n \in Nodes /\ n \in Nat /\ n < next
      BY UnitFacts
    <3>2. m \in Nodes /\ m \in Nat
      BY <3>1, NamesAssumption DEF Nodes
    <3> QED
      BY <3>1, <3>2 DEF Walked, Types, TypeOK
  <2>2. PICK p \in Places : p = parent[m] /\ p < m
    BY <2>1, AboveParent DEF Walked
  <2>3. parent[m] < next
    BY <2>1, <2>2, Numbers
  <2> QED
    BY <2>1, <2>3, ScopeOfNode
<1>2. n \in 1..n
  <2>1. n \in Nodes
    BY UnitFacts
  <2> QED
    BY <2>1 DEF Nodes
<1>3. {m \in 1..n : /\ kind[m] # "plain" /\ name[m] = name[n] /\ Around(m) = Around(n)}
        = Bearers(n, name[n], Scope(n))
  BY <1>1, <1>2 DEF Bearers
<1>4. Around(n) = Scope(n)
  BY <1>1, <1>2
<1> QED
  BY <1>3, <1>4 DEF Walked, Named
-----------------------------------------------------------------------------
(***************************************************************************)
(* The theorems.                                                           *)
(***************************************************************************)
\* What the walk hands down is true of the tree at every step.
THEOREM WalkIsSound == Spec => []Walked
BY InitWalked, NextWalked, PTL DEF Spec

\* The walk keeps its books: every entity visited has an id, and only those.
THEOREM TypesCorrect == Spec => []TypeOK
<1>1. Walked => TypeOK
  BY DEF Walked, Types
<1> QED
  BY <1>1, WalkIsSound, PTL

\* Two units of a file have two ids, unless a name with a dot of its own is
\* involved, in a file of any size and nesting.
THEOREM IdsDistinct == Spec => []DistinctIds
BY WalkIsSound, WalkedDistinct, PTL

\* The id of a class, function or method is the beginning of the ids of the
\* units in it, and of no others.
THEOREM IdsShowNesting == Spec => []IdShowsNesting
BY WalkIsSound, WalkedShowsNesting, PTL

\* An id depends on the names around the unit and on the units of its name
\* before it in the same scope.
THEOREM IdsAreLocal == Spec => []IdIsLocal
BY WalkIsSound, WalkedLocal, PTL
=============================================================================
