----------------------------- MODULE VectorStore -----------------------------
(***************************************************************************)
(* What the vector index of agent-coderag promises its users: a store of   *)
(* vectors under the name of one embedding model, and searches that either *)
(* rank vectors of the asking model or say that they may not.              *)
(*                                                                         *)
(* The promise lasts as long as the name can be trusted.  Trust is lost by *)
(* an accident only - a wipe or a re-embed that has begun, or an empty     *)
(* store whose name is replaced - and comes back only when the store is    *)
(* of one model again.  EmbeddingIndex implements this module.             *)
(***************************************************************************)
CONSTANTS
    Units,      \* ids of code units
    ModelIds,   \* names of embedding models
    NoVec,      \* no vector is stored for the unit
    NoModel     \* nobody is searching

VARIABLES
    content,    \* the model of each unit's vector
    name,       \* the model the store says it holds
    trusted,    \* the name is that of every vector
    asker,      \* the model of the search being answered, or NoModel
    warned      \* the answer comes with the warning

storeVars == <<content, name, trusted, asker, warned>>
Idle == asker' = NoModel /\ warned' = FALSE

Empty    == \A u \in Units : content[u] = NoVec
Pure(m)  == \A u \in Units : content[u] \in {m, NoVec}

Init ==
    /\ name \in ModelIds
    /\ content \in [Units -> {name, NoVec}]
    /\ trusted = TRUE
    /\ asker = NoModel /\ warned = FALSE

\* A vector of model m replaces what was stored for u.  A trusted store takes
\* vectors of its own model; any other ends the trust: a re-embed has begun.
Put(u, m) ==
    /\ content' = [content EXCEPT ![u] = m]
    /\ trusted' \in {FALSE, trusted /\ m = name}
    /\ Idle /\ UNCHANGED name

\* The vectors of units that are gone go with them.
Remove(gone) ==
    /\ content' = [u \in Units |-> IF u \in gone THEN NoVec ELSE content[u]]
    /\ Idle /\ UNCHANGED <<name, trusted>>

\* A wipe empties the store first and restores the trust last.
Wipe ==
    /\ content' = [u \in Units |-> NoVec]
    /\ trusted' \in BOOLEAN
    /\ Idle /\ UNCHANGED name

\* The store is renamed only to the model of all it holds.
Rename(m) ==
    /\ Pure(m)
    /\ name' = m
    /\ trusted' \in {trusted, TRUE}
    /\ Idle /\ UNCHANGED content

\* A store without vectors of its own name is renamed under a session that
\* may go on writing those of the former name.
Misname(m) ==
    /\ Pure(m)
    /\ name' = m
    /\ trusted' = FALSE
    /\ Idle /\ UNCHANGED content

\* A search with model m: what it ranks is of that model, or it is warned; an
\* empty store may warn needlessly.
Search(m) ==
    /\ asker' = m /\ warned' \in BOOLEAN
    /\ trusted /\ ~warned' => Pure(m)
    /\ trusted /\ warned' => Empty \/ ~Pure(m)
    /\ UNCHANGED <<content, name, trusted>>

EndSearch == Idle /\ UNCHANGED <<content, name, trusted>>

Next ==
    \/ \E u \in Units, m \in ModelIds : Put(u, m)
    \/ \E gone \in SUBSET Units : Remove(gone)
    \/ Wipe
    \/ \E m \in ModelIds : Rename(m) \/ Misname(m) \/ Search(m)
    \/ EndSearch

Spec == Init /\ [][Next]_storeVars
=============================================================================
