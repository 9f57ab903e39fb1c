-------------------------- MODULE IndexSync_proofs --------------------------
(***************************************************************************)
(* Proofs about IndexSync, for any number of workers, of paths and of      *)
(* units, any batch size, and as many changes, failures and stops as one   *)
(* likes.                                                                  *)
(***************************************************************************)
EXTENDS IndexSync, FiniteSetTheorems, WellFoundedInduction, TLAPS

(***************************************************************************)
(* The inductive invariant, first layer: what the workers have in hand.    *)
(***************************************************************************)
Away      == {"off", "take", "done"}
Storing   == {"writeVec", "deleteUnits"}
Deciding  == {"distill", "check", "upsert"}

\* A unit that _process_unit is at.
Hand == [id : Units, existing : Rows \cup {None}, summary : Summaries]

Types ==
    /\ TypeOK
    /\ todo \in [Workers -> SUBSET Units]
    /\ unit \in [Workers -> Hand \cup [id : Units \cup {None}]]

\* One closure at a time on the connection's thread.
Thread == \A v, w \in Workers : pc[v] \in Storing /\ pc[w] \in Storing => v = w

\* Each path is in the queue, in the hands of one worker, or dealt with.
Dealt ==
    /\ running = FALSE => asked = {} /\ \A w \in Workers : pc[w] = "off"
    /\ running = TRUE => \E w \in Workers : pc[w] # "off"
    /\ \A w \in Workers :
         /\ pc[w] = "done" => queue = {}
         /\ pc[w] \in Away <=> path[w] = None
         /\ path[w] # None => path[w] \in asked \ queue
    /\ \A v, w \in Workers : path[v] = path[w] /\ path[v] # None => v = w
    /\ running = TRUE => queue \subseteq asked

Copies(r, text) == text # None /\ r.code = text.code /\ r.doc = text.doc

\* What a worker holds are units its parse found in its own file, each with
\* the code and the comment that it found.
Hands(w) ==
    /\ path[w] = None => /\ snap[w] = Nothing /\ todo[w] = {}
                         /\ pending[w] = Nothing
    /\ \A u \in Units :
         /\ snap[w][u] # None => FileOf[u] = StoredPath[path[w]]
         /\ u \in todo[w] => snap[w][u] # None
         /\ pending[w][u] # None => Copies(pending[w][u], snap[w][u])
         /\ chunk[w][u] # None => Copies(chunk[w][u], snap[w][u])
    /\ pc[w] \notin {"write", "writeVec"} => chunk[w] = Nothing
    /\ pc[w] \in {"write"} \cup Storing => todo[w] = {}
    /\ pc[w] = "deleteUnits" => pending[w] = Nothing
    /\ pc[w] \in Deciding => unit[w] \in Hand /\ snap[w][unit[w].id] # None
    /\ pc[w] = "upsert" => /\ unit[w].existing # None
                           /\ unit[w].existing.code = snap[w][unit[w].id].code
                           /\ unit[w].existing.summary = unit[w].summary
    /\ pc[w] = "writeVec" => /\ unit[w].id \in Units
                             /\ chunk[w][unit[w].id] # None

Base == Types /\ Thread /\ Dealt /\ \A w \in Workers : Hands(w)
-----------------------------------------------------------------------------
\* No unit, no row and no vector are values of their own.
LEMMA NoneApart ==
    /\ None \notin Texts /\ None \notin Rows /\ None \notin Vectors
    /\ None \notin Docs /\ None \notin Units /\ None \notin Paths
    /\ "null" \notin Codes /\ "empty" \notin Codes
  BY SyncAssumption

\* A sync of some paths gets at least one worker.
LEMMA TeamIsNotEmpty ==
  ASSUME NEW paths \in SUBSET Paths, paths # {}, NEW team \in SUBSET Workers,
         Cardinality(team) = Min({Cardinality(paths), Cardinality(Workers)})
  PROVE  team # {}
<1>1. IsFiniteSet(paths) /\ IsFiniteSet(Workers) /\ Workers # {}
  BY SyncAssumption, FS_Subset
<1>2. /\ Cardinality(paths) \in Nat /\ Cardinality(paths) # 0
      /\ Cardinality(Workers) \in Nat /\ Cardinality(Workers) # 0
  BY <1>1, FS_CardinalityType, FS_EmptySet
<1>3. Min({Cardinality(paths), Cardinality(Workers)})
        \in {Cardinality(paths), Cardinality(Workers)}
  <2> DEFINE S == {Cardinality(paths), Cardinality(Workers)}
  <2>1. \E x \in S : \A y \in S : x =< y
    BY <1>2
  <2> QED
    BY <2>1 DEF Min
<1>4. Cardinality({}) = 0
  BY FS_EmptySet
<1> QED
  BY <1>2, <1>3, <1>4

\* A step of another worker leaves what a worker has in hand.
LEMMA OtherHands ==
  ASSUME NEW v \in Workers, Hands(v),
         UNCHANGED <<pc[v], path[v], snap[v], todo[v], unit[v], pending[v], chunk[v]>>
  PROVE  Hands(v)'
  BY DEF Hands

\* At the start nobody has anything in hand.
LEMMA InitBase == Init => Base
<1> SUFFICES ASSUME Init PROVE Base
  OBVIOUS
<1> USE DEF Init, NoWork, Idle, Nothing
<1>1. Types
  BY DEF Types, TypeOK
<1>2. Thread
  BY DEF Thread, Storing
<1>3. Dealt
  BY DEF Dealt, Away
<1>4. ASSUME NEW w \in Workers PROVE Hands(w)
  BY <1>4 DEF Hands, Storing, Deciding
<1> QED
  BY <1>1, <1>2, <1>3, <1>4 DEF Base

\* What the user does leaves the workers alone.
LEMMA UserBase ==
  ASSUME Base, User
  PROVE  Base'
<1>0. TypeOK /\ Types /\ Thread /\ Dealt /\ \A w \in Workers : Hands(w)
  BY DEF Base, Types
<1>1. ASSUME NEW u \in Units, NEW text \in Texts \cup {None}, EditUnit(u, text)
      PROVE  Base'
  <2>1. UNCHANGED <<llm, tables, call, queue, failures, pc, work, torn, unsummed>>
    BY <1>1 DEF EditUnit, Change
  <2>2. Types'
    BY <1>0, <1>1, <2>1, SyncAssumption DEF EditUnit, Types, TypeOK, tables, call, work
  <2>3. Thread' /\ Dealt' /\ \A w \in Workers : Hands(w)'
    BY <1>0, <2>1 DEF Thread, Dealt, Hands, call, work
  <2> QED
    BY <2>2, <2>3 DEF Base
<1>2. ASSUME NEW f \in Files, DeleteFile(f) PROVE Base'
  <2>1. UNCHANGED <<llm, tables, call, queue, failures, pc, work, torn, unsummed>>
    BY <1>2 DEF DeleteFile, Change
  <2>2. Types'
    BY <1>0, <1>2, <2>1 DEF DeleteFile, Types, TypeOK, tables, call, work
  <2>3. Thread' /\ Dealt' /\ \A w \in Workers : Hands(w)'
    BY <1>0, <2>1 DEF Thread, Dealt, Hands, call, work
  <2> QED
    BY <2>2, <2>3 DEF Base
<1>3. ASSUME NEW f \in Files, TogglePermission(f) PROVE Base'
  <2>1. UNCHANGED <<source, llm, tables, call, queue, failures, pc, work, torn, unsummed>>
    BY <1>3 DEF TogglePermission, Change
  <2>2. Types'
    BY <1>0, <1>3, <2>1 DEF TogglePermission, Types, TypeOK, tables, call, work
  <2>3. Thread' /\ Dealt' /\ \A w \in Workers : Hands(w)'
    BY <1>0, <2>1 DEF Thread, Dealt, Hands, call, work
  <2> QED
    BY <2>2, <2>3 DEF Base
<1>4. ASSUME ToggleLlm PROVE Base'
  <2>1. Types'
    BY <1>0, <1>4 DEF ToggleLlm, Types, TypeOK, tree, tables, call, work, noted
  <2>2. Thread' /\ Dealt' /\ \A w \in Workers : Hands(w)'
    BY <1>0, <1>4 DEF ToggleLlm, Thread, Dealt, Hands, call, work
  <2> QED
    BY <2>1, <2>2 DEF Base
<1>5. ASSUME NEW paths \in SUBSET Paths, NEW f \in BOOLEAN, Start(paths, f)
      PROVE  Base'
  <2>1. /\ running = FALSE /\ running' = TRUE /\ paths # {}
        /\ asked' = paths /\ queue' = paths /\ failures' = {} /\ force' = f
        /\ UNCHANGED <<tree, llm, tables, work, torn, unsummed>>
    BY <1>0, <1>5 DEF Start, TypeOK
  <2>2. PICK team \in SUBSET Workers :
          /\ Cardinality(team) = Min({Cardinality(paths), Cardinality(Workers)})
          /\ pc' = [w \in Workers |-> IF w \in team THEN "take" ELSE "off"]
    BY <1>5 DEF Start
  <2>3. team # {}
    BY <2>1, <2>2, TeamIsNotEmpty
  <2>4. \A w \in Workers : path[w] = None /\ path'[w] = None
    BY <1>0, <2>1 DEF Dealt, Away, work
  <2>5. Types'
    BY <1>0, <2>1, <2>2 DEF Types, TypeOK, tree, tables, work
  <2>6. Thread' /\ Dealt'
    BY <2>1, <2>2, <2>3, <2>4 DEF Thread, Dealt, Storing, Away
  <2>7. ASSUME NEW w \in Workers PROVE Hands(w)'
    <3>1. pc[w] = "off" /\ pc'[w] \in {"take", "off"}
      BY <1>0, <2>1, <2>2 DEF Dealt
    <3> QED
      BY <1>0, <2>1, <3>1 DEF Hands, work, Storing, Deciding
  <2> QED
    BY <2>5, <2>6, <2>7 DEF Base
<1> QED
  BY <1>1, <1>2, <1>3, <1>4, <1>5 DEF User

(***************************************************************************)
(* The steps of a worker.                                                  *)
(***************************************************************************)
Others(w) ==
    \A v \in Workers \ {w} :
        UNCHANGED <<pc[v], path[v], snap[v], todo[v], unit[v], pending[v], chunk[v]>>

\* What holds of the worker that takes a step and of all together holds of
\* each after it.
LEMMA StepBase ==
  ASSUME Base, NEW w \in Workers, Others(w), Types', Thread', Dealt', Hands(w)'
  PROVE  Base'
<1>1. ASSUME NEW v \in Workers, v # w PROVE Hands(v)'
  BY <1>1, OtherHands DEF Base, Others
<1> QED
  BY <1>1 DEF Base

\* A path that fails is out of its worker's hands.
LEMMA FailBase ==
  ASSUME Base, NEW w \in Workers, Fail(w)
  PROVE  Base'
<1>0. TypeOK /\ Types /\ Thread /\ Dealt /\ Hands(w) /\ pc[w] \notin Away
  BY DEF Base, Types, Fail, Raising, Away
<1> USE DEF Fail, Goto, Reset
<1>1. Others(w)
  BY <1>0 DEF Types, TypeOK, Others
<1>2. /\ pc'[w] = "take" /\ path'[w] = None /\ snap'[w] = Nothing
      /\ todo'[w] = {} /\ pending'[w] = Nothing /\ chunk'[w] = Nothing
  BY <1>0 DEF Types, TypeOK
<1>3. path[w] \in asked
  BY <1>0 DEF Dealt
<1>4. torn' \subseteq Units
  <2>1. pc[w] = "writeVec" => unit[w].id \in Units
    BY <1>0 DEF Hands, Hand
  <2> QED
    BY <1>0, <2>1 DEF Torn, TypeOK
<1>5. Types'
  BY <1>0, <1>3, <1>4 DEF Types, TypeOK, Nothing, tree, tables, call
<1>6. Thread'
  BY <1>0, <1>1, <1>2 DEF Thread, Others, Storing
<1>7. Dealt'
  BY <1>0, <1>1, <1>2 DEF Dealt, Others, Away, call
<1>8. Hands(w)'
  BY <1>2 DEF Hands, Nothing, Storing, Deciding
<1> QED
  BY <1>1, <1>5, <1>6, <1>7, <1>8, StepBase

\* A worker takes a path, or finds none.
LEMMA TakeBase ==
  ASSUME Base, NEW w \in Workers,
         QueueEmpty(w) \/ \E p \in Paths : Take(w, p) \/ TakeFails(w, p)
  PROVE  Base'
<1>0. TypeOK /\ Types /\ Thread /\ Dealt /\ Hands(w)
  BY DEF Base, Types
<1>1. ASSUME NEW p \in Paths, Take(w, p) PROVE Base'
  <2> USE <1>1 DEF Take, Goto
  <2> DEFINE f == StoredPath[p]
             parsed == [u \in Units |->
                          IF FileOf[u] = f /\ fileState[f] = "ok" THEN source[u] ELSE None]
  <2>1. Others(w)
    BY <1>0 DEF Types, TypeOK, Others
  <2>2. parsed \in [Units -> Texts \cup {None}]
    BY <1>0 DEF TypeOK
  <2>3. /\ pc'[w] = "next" /\ path'[w] = p /\ snap'[w] = parsed
        /\ todo'[w] = Held(parsed)
        /\ UNCHANGED <<unit, pending, chunk>>
    BY <1>0 DEF Types, TypeOK
  <2>4. path[w] = None /\ pc[w] = "take"
    BY <1>0 DEF Dealt, Away
  <2>5. Types'
    <3>1. Held(parsed) \in SUBSET Units
      BY DEF Held
    <3>2. todo' \in [Workers -> SUBSET Units]
      BY <1>0, <3>1 DEF Types
    <3>3. snap' \in [Workers -> [Units -> Texts \cup {None}]]
      BY <1>0, <2>2 DEF TypeOK
    <3> QED
      BY <1>0, <3>2, <3>3 DEF Types, TypeOK, tree, tables, call
  <2>6. Thread'
    BY <1>0, <2>1, <2>3 DEF Thread, Others, Storing
  <2>7. Dealt'
    BY <1>0, <2>1, <2>3, <2>4, NoneApart DEF Dealt, Others, Away, call
  <2>8. Hands(w)'
    <3>1. pending[w] = Nothing /\ chunk[w] = Nothing
      BY <1>0, <2>4 DEF Hands
    <3> QED
      BY <2>3, <3>1, NoneApart DEF Hands, Nothing, Held, Storing, Deciding
  <2> QED
    BY <2>1, <2>5, <2>6, <2>7, <2>8, StepBase
<1>2. ASSUME NEW p \in Paths, TakeFails(w, p) PROVE Base'
  <2> USE <1>2 DEF TakeFails
  <2>1. Types'
    <3>1. pc[w] # "off" /\ p \in asked
      BY <1>0 DEF Dealt, TypeOK
    <3> QED
      BY <1>0, <3>1 DEF Types, TypeOK, tree, tables, call, work, noted
  <2>2. Thread' /\ Dealt' /\ \A v \in Workers : Hands(v)'
    BY DEF Base, Thread, Dealt, Hands, call, work
  <2> QED
    BY <2>1, <2>2 DEF Base
<1>3. CASE QueueEmpty(w)
  <2> USE <1>3 DEF QueueEmpty, Goto
  <2>1. Others(w) /\ pc'[w] = "done"
    BY <1>0 DEF Types, TypeOK, Others, work
  <2>2. Types'
    BY <1>0 DEF Types, TypeOK, tree, tables, call, work, noted
  <2>3. Thread'
    BY <1>0, <2>1 DEF Thread, Others, Storing
  <2>4. Dealt'
    BY <1>0, <2>1 DEF Dealt, Others, Away, call, work
  <2>5. Hands(w)'
    BY <1>0, <2>1 DEF Hands, work, Storing, Deciding
  <2> QED
    BY <2>1, <2>2, <2>3, <2>4, <2>5, StepBase
<1> QED
  BY <1>1, <1>2, <1>3

\* _process_unit takes a unit up.
LEMMA GetUnitBase ==
  ASSUME Base, NEW w \in Workers, NEW u \in Units, GetUnit(w, u)
  PROVE  Base'
<1>0. TypeOK /\ Types /\ Thread /\ Dealt /\ Hands(w)
  BY DEF Base, Types
<1> USE DEF GetUnit, Goto
<1> DEFINE distill == ShouldDistill(row[u], snap[w][u])
           new == [id |-> u, existing |-> row[u],
                   summary |-> IF distill THEN "null" ELSE row[u].summary]
<1>1. Others(w)
  BY <1>0 DEF Types, TypeOK, Others
<1>2. new \in Hand
  <2>1. row[u] \in Rows \cup {None} /\ (~distill => row[u] # None)
    BY <1>0 DEF TypeOK, ShouldDistill
  <2>2. (IF distill THEN "null" ELSE row[u].summary) \in Summaries
    BY <2>1 DEF Rows, Summaries
  <2> QED
    BY <2>1, <2>2 DEF Hand
<1>3. /\ pc[w] = "next" /\ pc'[w] \in {"distill", "check"}
      /\ unit'[w] = new /\ todo'[w] = todo[w] \ {u} /\ u \in todo[w]
      /\ UNCHANGED <<path, snap, pending, chunk>>
  BY <1>0 DEF Types, TypeOK
<1>4. Types'
  <2>1. unit' \in [Workers -> Hand \cup [id : Units \cup {None}]]
    BY <1>0, <1>2 DEF Types
  <2>2. todo' \in [Workers -> SUBSET Units]
    BY <1>0 DEF Types
  <2> QED
    BY <1>0, <2>1, <2>2 DEF Types, TypeOK, tree, tables, call, noted
<1>5. Thread'
  BY <1>0, <1>1, <1>3 DEF Thread, Others, Storing
<1>6. Dealt'
  BY <1>0, <1>1, <1>3 DEF Dealt, Others, Away, call
<1>7. Hands(w)'
  BY <1>0, <1>2, <1>3 DEF Hands, Storing, Deciding
<1> QED
  BY <1>1, <1>4, <1>5, <1>6, <1>7, StepBase

\* The language model answers, or fails.
LEMMA DistillBase ==
  ASSUME Base, NEW w \in Workers, Distill(w) \/ DistillFails(w)
  PROVE  Base'
<1>0. TypeOK /\ Types /\ Thread /\ Dealt /\ Hands(w)
  BY DEF Base, Types
<1>1. Others(w) /\ pc[w] = "distill" /\ pc'[w] = "check"
      /\ UNCHANGED <<path, snap, todo, pending, chunk, tree, tables, call, queue, failures>>
  BY <1>0 DEF Distill, DistillFails, Goto, Types, TypeOK, Others
<1>2. unit[w] \in Hand /\ snap[w][unit[w].id] # None
  BY <1>0, <1>1 DEF Hands, Deciding
<1>3. \E s \in Summaries : unit' = [unit EXCEPT ![w].summary = s]
  <2>1. CASE Distill(w)
    <3>1. (IF llm THEN snap[w][unit[w].id].code ELSE "empty") \in Summaries
      <4>1. snap[w][unit[w].id] \in Texts
        BY <1>0, <1>2 DEF TypeOK, Hand
      <4> QED
        BY <4>1 DEF Texts, Summaries
    <3> QED
      BY <2>1, <3>1 DEF Distill
  <2>2. CASE DistillFails(w)
    <3>1. (IF unit[w].existing = None THEN "null" ELSE unit[w].existing.summary)
            \in Summaries
      BY <1>2 DEF Hand, Rows, Summaries
    <3> QED
      BY <2>2, <3>1 DEF DistillFails
  <2> QED
    BY <2>1, <2>2
<1>4. /\ unit' \in [Workers -> Hand \cup [id : Units \cup {None}]]
      /\ unit'[w] \in Hand /\ unit'[w].id = unit[w].id
  BY <1>0, <1>2, <1>3 DEF Types, Hand
<1>5. torn' \subseteq Units /\ unsummed' \subseteq Units
  BY <1>0, <1>2 DEF Distill, DistillFails, noted, TypeOK, Hand
<1>6. Types'
  <2>1. pc' = [pc EXCEPT ![w] = "check"] /\ UNCHANGED llm
    BY <1>0 DEF Distill, DistillFails, Goto
  <2> QED
    BY <1>0, <1>1, <1>4, <1>5, <2>1 DEF Types, TypeOK, tree, tables, call
<1>7. Thread'
  BY <1>0, <1>1 DEF Thread, Others, Storing
<1>8. Dealt'
  BY <1>0, <1>1 DEF Dealt, Others, Away, call
<1>9. Hands(w)'
  BY <1>0, <1>1, <1>2, <1>4 DEF Hands, Storing, Deciding
<1> QED
  BY <1>1, <1>6, <1>7, <1>8, <1>9, StepBase

\* A unit is found unchanged, or put with those to be embedded; the row of
\* an unchanged one is written.
LEMMA CheckBase ==
  ASSUME Base, NEW w \in Workers, Check(w) \/ Upsert(w)
  PROVE  Base'
<1>0. TypeOK /\ Types /\ Thread /\ Dealt /\ Hands(w)
  BY DEF Base, Types
<1> DEFINE u == unit[w].id
           new == [code |-> snap[w][u].code, doc |-> snap[w][u].doc,
                   summary |-> unit[w].summary]
<1>1. unit[w] \in Hand /\ u \in Units /\ snap[w][u] # None
  BY <1>0 DEF Check, Upsert, Hands, Deciding, Hand
<1>2. new \in Rows /\ Copies(new, snap[w][u])
  BY <1>0, <1>1 DEF TypeOK, Texts, Rows, Copies, Hand
<1>3. CASE Check(w)
  <2>1. Others(w) /\ pc[w] = "check" /\ pc'[w] \in {"next", "upsert"}
        /\ UNCHANGED <<path, snap, todo, unit, chunk, tree, tables, call, queue, failures>>
    BY <1>0, <1>3 DEF Check, Goto, Types, TypeOK, Others
  <2>2. \/ pending' = pending
        \/ pc'[w] = "next" /\ pending' = [pending EXCEPT ![w][u] = new]
    BY <1>0, <1>3 DEF Check, Goto, TypeOK
  <2>3. pending' \in [Workers -> [Units -> Rows \cup {None}]]
    <3>1. pending \in [Workers -> [Units -> Rows \cup {None}]]
      BY <1>0 DEF TypeOK
    <3>2. [pending[w] EXCEPT ![u] = new] \in [Units -> Rows \cup {None}]
      BY <1>1, <1>2, <3>1
    <3> HIDE DEF new, u
    <3> QED
      BY <2>2, <3>1, <3>2
  <2>4. Types'
    <3>1. UNCHANGED <<llm, noted>> /\ pc' \in [Workers -> {"off", "take", "next",
            "distill", "check", "upsert", "write", "writeVec", "deleteUnits", "done"}]
      BY <1>0, <1>3 DEF Check, Goto, TypeOK
    <3> QED
      BY <1>0, <2>1, <2>3, <3>1 DEF Types, TypeOK, tree, tables, call, noted
  <2>5. Thread'
    BY <1>0, <2>1 DEF Thread, Others, Storing
  <2>6. Dealt'
    BY <1>0, <2>1 DEF Dealt, Others, Away, call
  <2>7. Hands(w)'
    <3>1. \A x \in Units : pending'[w][x] # None => Copies(pending'[w][x], snap[w][x])
      BY <1>0, <1>1, <1>2, <2>2 DEF TypeOK, Hands
    <3>2. path[w] # None
      BY <1>0, <2>1 DEF Dealt, Away
    <3>3. pc'[w] = "upsert" => /\ unit[w].existing # None
                               /\ unit[w].existing.code = snap[w][u].code
                               /\ unit[w].existing.summary = unit[w].summary
      BY <1>0, <1>3 DEF Check, Goto, TypeOK
    <3> QED
      BY <1>0, <1>1, <2>1, <3>1, <3>2, <3>3 DEF Hands, Storing, Deciding
  <2> QED
    BY <2>1, <2>4, <2>5, <2>6, <2>7, StepBase
<1>4. CASE Upsert(w)
  <2>1. Others(w) /\ pc[w] = "upsert" /\ pc'[w] = "next" /\ UNCHANGED <<work, call, queue>>
    BY <1>0, <1>4 DEF Upsert, Goto, Types, TypeOK, Others, work
  <2>2. Types'
    BY <1>0, <1>1, <1>2, <1>4 DEF Upsert, Goto, Types, TypeOK, tree, call, noted, work
  <2>3. Thread'
    BY <1>0, <2>1 DEF Thread, Others, Storing
  <2>4. Dealt'
    BY <1>0, <2>1 DEF Dealt, Others, Away, call, work
  <2>5. Hands(w)'
    BY <1>0, <2>1 DEF Hands, work, Storing, Deciding
  <2> QED
    BY <2>1, <2>2, <2>3, <2>4, <2>5, StepBase
<1> QED
  BY <1>3, <1>4

\* A batch moves from pending to the writes.
LEMMA EmbedBase ==
  ASSUME Base, NEW w \in Workers, Embed(w)
  PROVE  Base'
<1>0. TypeOK /\ Types /\ Thread /\ Dealt /\ Hands(w)
  BY DEF Base, Types
<1> PICK batch \in SUBSET Held(pending[w]) :
      /\ chunk' = [chunk EXCEPT ![w] =
                     [u \in Units |-> IF u \in batch THEN pending[w][u] ELSE None]]
      /\ pending' = [pending EXCEPT ![w] =
                       [u \in Units |-> IF u \in batch THEN None ELSE @[u]]]
  BY DEF Embed
<1>1. Others(w) /\ pc[w] = "next" /\ pc'[w] = "write" /\ todo[w] = {}
      /\ UNCHANGED <<path, snap, todo, unit, tree, llm, tables, call, queue, failures, noted>>
  BY <1>0 DEF Embed, Goto, Types, TypeOK, Others
<1>2. /\ chunk'[w] = [u \in Units |-> IF u \in batch THEN pending[w][u] ELSE None]
      /\ pending'[w] = [u \in Units |-> IF u \in batch THEN None ELSE pending[w][u]]
      /\ chunk' \in [Workers -> [Units -> Rows \cup {None}]]
      /\ pending' \in [Workers -> [Units -> Rows \cup {None}]]
  BY <1>0 DEF TypeOK
<1>3. Types'
  BY <1>0, <1>1, <1>2 DEF Types, TypeOK, tree, tables, call, noted, Embed, Goto
<1>4. Thread'
  BY <1>0, <1>1 DEF Thread, Others, Storing
<1>5. Dealt'
  BY <1>0, <1>1 DEF Dealt, Others, Away, call
<1>6. Hands(w)'
  <2>1. \A u \in Units :
          /\ pending'[w][u] # None => Copies(pending'[w][u], snap[w][u])
          /\ chunk'[w][u] # None => Copies(chunk'[w][u], snap[w][u])
    BY <1>0, <1>2 DEF Hands
  <2>2. path[w] # None
    BY <1>0, <1>1 DEF Dealt, Away
  <2> QED
    BY <1>0, <1>1, <2>1, <2>2 DEF Hands, Storing, Deciding
<1> QED
  BY <1>1, <1>3, <1>4, <1>5, <1>6, StepBase

\* The two inserts of upsert_unit.
LEMMA WriteBase ==
  ASSUME Base, NEW w \in Workers,
         WriteVec(w) \/ \E u \in Units : WriteRow(w, u)
  PROVE  Base'
<1>0. TypeOK /\ Types /\ Thread /\ Dealt /\ Hands(w)
  BY DEF Base, Types
<1>1. ASSUME NEW u \in Units, WriteRow(w, u) PROVE Base'
  <2>1. Others(w) /\ pc[w] = "write" /\ pc'[w] = "writeVec" /\ unit'[w] = [id |-> u]
        /\ UNCHANGED <<path, snap, todo, pending, chunk, tree, llm, call, queue,
                       failures, noted>>
    BY <1>0, <1>1 DEF WriteRow, Goto, Types, TypeOK, Others
  <2>2. Types'
    <3>1. row' \in [Units -> Rows \cup {None}]
      BY <1>0, <1>1 DEF WriteRow, TypeOK
    <3>2. unit' \in [Workers -> Hand \cup [id : Units \cup {None}]]
      BY <1>0, <1>1 DEF WriteRow, Types
    <3>3. UNCHANGED <<vec, todo>> /\ pc' \in [Workers -> {"off", "take", "next",
            "distill", "check", "upsert", "write", "writeVec", "deleteUnits", "done"}]
      BY <1>0, <1>1 DEF WriteRow, Goto, TypeOK
    <3> QED
      BY <1>0, <2>1, <3>1, <3>2, <3>3 DEF Types, TypeOK, tree, call, noted
  <2>3. Thread'
    BY <1>0, <1>1, <2>1 DEF Thread, Others, Storing, WriteRow, ThreadFree
  <2>4. Dealt'
    BY <1>0, <2>1 DEF Dealt, Others, Away, call
  <2>5. Hands(w)'
    <3>1. path[w] # None /\ chunk[w][u] # None
      BY <1>0, <1>1, <2>1 DEF Dealt, Away, WriteRow
    <3> QED
      BY <1>0, <2>1, <3>1 DEF Hands, Storing, Deciding
  <2> QED
    BY <2>1, <2>2, <2>3, <2>4, <2>5, StepBase
<1>2. CASE WriteVec(w)
  <2> DEFINE u == unit[w].id
  <2>1. Others(w) /\ pc[w] = "writeVec" /\ pc'[w] \in {"next", "write"}
        /\ UNCHANGED <<path, snap, todo, unit, pending, tree, llm, row, call, queue,
                       failures, touched, unread, unsummed>>
    BY <1>0, <1>2 DEF WriteVec, Goto, Types, TypeOK, Others
  <2>2. u \in Units /\ chunk[w][u] # None /\ chunk[w][u] \in Rows
    BY <1>0, <2>1 DEF Hands, TypeOK
  <2>3. /\ chunk'[w] = [chunk[w] EXCEPT ![u] = None]
        /\ chunk' \in [Workers -> [Units -> Rows \cup {None}]]
    <3>1. chunk' = [chunk EXCEPT ![w] = [chunk[w] EXCEPT ![u] = None]]
      BY <1>2 DEF WriteVec
    <3>2. chunk[w] \in [Units -> Rows \cup {None}]
      BY <1>0 DEF TypeOK
    <3>3. [chunk[w] EXCEPT ![u] = None] \in [Units -> Rows \cup {None}]
      BY <3>2
    <3> HIDE DEF u
    <3> QED
      BY <1>0, <3>1, <3>3 DEF TypeOK
  <2>4. EmbeddingText(chunk[w][u]) \in Vectors
    BY <2>2 DEF EmbeddingText, Rows, Vectors, Truthy
  <2>5. Types'
    <3>1. vec' \in [Units -> Vectors \cup {None}] /\ torn' \subseteq Units
      BY <1>0, <1>2, <2>2, <2>4 DEF WriteVec, TypeOK
    <3>2. pc' \in [Workers -> {"off", "take", "next",
            "distill", "check", "upsert", "write", "writeVec", "deleteUnits", "done"}]
      BY <1>0, <1>2 DEF WriteVec, Goto, TypeOK
    <3> QED
      BY <1>0, <2>1, <2>3, <3>1, <3>2 DEF Types, TypeOK, tree, call
  <2>6. Thread'
    BY <1>0, <2>1 DEF Thread, Others, Storing
  <2>7. Dealt'
    BY <1>0, <2>1 DEF Dealt, Others, Away, call
  <2>8. Hands(w)'
    <3>1. path[w] # None
      BY <1>0, <2>1 DEF Dealt, Away
    <3>2. \A x \in Units : chunk'[w][x] # None => Copies(chunk'[w][x], snap[w][x])
      BY <1>0, <2>2, <2>3 DEF Hands, TypeOK
    <3>3. pc'[w] = "next" => chunk'[w] = Nothing
      <4>1. ASSUME pc'[w] = "next" PROVE \A x \in Units : chunk[w][x] # None => x = u
        <5>1. Held(chunk[w]) = {u}
          BY <1>0, <1>2, <4>1 DEF WriteVec, Goto, TypeOK
        <5> QED
          BY <1>0, <5>1 DEF Held, TypeOK
      <4>2. chunk[w] \in [Units -> Rows \cup {None}]
        BY <1>0 DEF TypeOK
      <4> QED
        BY <2>2, <2>3, <4>1, <4>2 DEF Nothing
    <3> QED
      BY <1>0, <2>1, <3>1, <3>2, <3>3 DEF Hands, Storing, Deciding
  <2> QED
    BY <2>1, <2>5, <2>6, <2>7, <2>8, StepBase
<1> QED
  BY <1>1, <1>2

\* The two deletions of delete_stale_units; the path is done.
LEMMA DeleteBase ==
  ASSUME Base, NEW w \in Workers, DeleteVecs(w) \/ DeleteUnits(w)
  PROVE  Base'
<1>0. TypeOK /\ Types /\ Thread /\ Dealt /\ Hands(w)
  BY DEF Base, Types
<1>1. CASE DeleteVecs(w)
  <2>1. Others(w) /\ pc[w] = "next" /\ pc'[w] = "deleteUnits" /\ todo[w] = {}
        /\ UNCHANGED <<work, tree, llm, row, call, queue, failures, noted>>
    BY <1>0, <1>1 DEF DeleteVecs, Goto, Types, TypeOK, Others, work
  <2>2. Types'
    <3>1. vec' \in [Units -> Vectors \cup {None}]
      BY <1>0, <1>1 DEF DeleteVecs, TypeOK
    <3> QED
      BY <1>0, <1>1, <2>1, <3>1 DEF DeleteVecs, Goto, Types, TypeOK, tree, call, noted, work
  <2>3. Thread'
    BY <1>0, <1>1, <2>1 DEF Thread, Others, Storing, DeleteVecs, ThreadFree
  <2>4. Dealt'
    BY <1>0, <2>1 DEF Dealt, Others, Away, call, work
  <2>5. Hands(w)'
    <3>1. pending[w] = Nothing
      BY <1>0, <1>1 DEF DeleteVecs, Held, Nothing, TypeOK
    <3> QED
      BY <1>0, <2>1, <3>1 DEF Hands, work, Storing, Deciding
  <2> QED
    BY <2>1, <2>2, <2>3, <2>4, <2>5, StepBase
<1>2. CASE DeleteUnits(w)
  <2> USE <1>2 DEF DeleteUnits, Goto, Reset
  <2>1. Others(w) /\ pc[w] = "deleteUnits"
    BY <1>0 DEF Types, TypeOK, Others
  <2>2. /\ pc'[w] = "take" /\ path'[w] = None /\ snap'[w] = Nothing
        /\ todo'[w] = {} /\ pending'[w] = Nothing /\ chunk'[w] = Nothing
    BY <1>0 DEF Types, TypeOK
  <2>3. Types'
    BY <1>0 DEF Types, TypeOK, Nothing, tree, call
  <2>4. Thread'
    BY <1>0, <2>1, <2>2 DEF Thread, Others, Storing
  <2>5. Dealt'
    BY <1>0, <2>1, <2>2 DEF Dealt, Others, Away, call
  <2>6. Hands(w)'
    BY <2>2 DEF Hands, Nothing, Storing, Deciding
  <2> QED
    BY <2>1, <2>3, <2>4, <2>5, <2>6, StepBase
<1> QED
  BY <1>1, <1>2

\* The call returns, or the process stops: nobody has anything in hand.
LEMMA EndBase ==
  ASSUME Base, Return \/ Crash
  PROVE  Base'
<1>0. TypeOK /\ Types /\ Thread /\ Dealt /\ \A w \in Workers : Hands(w)
  BY DEF Base, Types
<1>1. CASE Return
  <2> USE <1>1 DEF Return, Finished, Idle
  <2>1. /\ \A w \in Workers : path[w] = None /\ pc[w] \in {"done", "off"}
        /\ pc' = [w \in Workers |-> "off"] /\ running' = FALSE /\ asked' = {}
        /\ UNCHANGED <<tree, llm, tables, queue, work, noted>>
    BY <1>0 DEF Dealt, Away
  <2>2. Types'
    BY <1>0, <2>1 DEF Types, TypeOK, tree, tables, work, noted
  <2>3. Thread' /\ Dealt'
    BY <2>1 DEF Thread, Dealt, Storing, Away, work
  <2>4. ASSUME NEW w \in Workers PROVE Hands(w)'
    <3>1. chunk[w] = Nothing
      BY <1>0, <2>1 DEF Hands
    <3>2. pc'[w] = "off"
      BY <2>1
    <3> QED
      BY <1>0, <2>1, <3>1, <3>2 DEF Hands, work, Storing, Deciding
  <2> QED
    BY <2>2, <2>3, <2>4 DEF Base
<1>2. CASE Crash
  <2> USE <1>2 DEF Crash, Idle
  <2>1. \A w \in Workers : pc[w] = "writeVec" => unit[w].id \in Units
    BY <1>0 DEF Hands
  <2>2. Types'
    <3>1. torn' \subseteq Units
      BY <1>0, <2>1 DEF TypeOK
    <3>2. /\ snap' \in [Workers -> [Units -> Texts \cup {None}]]
          /\ pending' \in [Workers -> [Units -> Rows \cup {None}]]
          /\ chunk' \in [Workers -> [Units -> Rows \cup {None}]]
      BY DEF Nothing
    <3>3. /\ unit' \in [Workers -> Hand \cup [id : Units \cup {None}]]
          /\ todo' \in [Workers -> SUBSET Units]
          /\ path' \in [Workers -> Paths \cup {None}]
      OBVIOUS
    <3> QED
      BY <1>0, <3>1, <3>2, <3>3 DEF Types, TypeOK, tree, tables
  <2>3. Thread' /\ Dealt'
    BY DEF Thread, Dealt, Storing, Away
  <2>4. ASSUME NEW w \in Workers PROVE Hands(w)'
    <3>1. /\ pc'[w] = "off" /\ path'[w] = None /\ snap'[w] = Nothing
          /\ todo'[w] = {} /\ pending'[w] = Nothing /\ chunk'[w] = Nothing
      OBVIOUS
    <3> QED
      BY <3>1 DEF Hands, Nothing, Storing, Deciding
  <2> QED
    BY <2>2, <2>3, <2>4 DEF Base
<1> QED
  BY <1>1, <1>2

\* Every action keeps the first layer: one step for each.
LEMMA NextBase == Base /\ [Next]_vars => Base'
<1> SUFFICES ASSUME Base, [Next]_vars PROVE Base'
  OBVIOUS
<1>1. ASSUME User PROVE Base'
  BY <1>1, UserBase
<1>2. ASSUME NEW w \in Workers, Work(w) PROVE Base'
  <2>1. CASE QueueEmpty(w) \/ \E p \in Paths : Take(w, p) \/ TakeFails(w, p)
    BY <2>1, TakeBase
  <2>3. ASSUME NEW u \in Units, GetUnit(w, u) PROVE Base'
    BY <2>3, GetUnitBase
  <2>4. CASE Distill(w) \/ DistillFails(w)
    BY <2>4, DistillBase
  <2>5. CASE Check(w) \/ Upsert(w)
    BY <2>5, CheckBase
  <2>6. CASE Fail(w)
    BY <2>6, FailBase
  <2>7. CASE Embed(w)
    BY <2>7, EmbedBase
  <2>8. CASE WriteVec(w) \/ \E u \in Units : WriteRow(w, u)
    BY <2>8, WriteBase
  <2>9. CASE DeleteVecs(w) \/ DeleteUnits(w)
    BY <2>9, DeleteBase
  <2> QED
    BY <1>2, <2>1, <2>3, <2>4, <2>5, <2>6, <2>7, <2>8, <2>9 DEF Work
<1>3. ASSUME Return \/ Crash PROVE Base'
  BY <1>3, EndBase
<1>4. ASSUME UNCHANGED vars PROVE Base'
  BY <1>4 DEF vars, Base, Types, TypeOK, Thread, Dealt, Hands, tree, tables,
              call, work, noted, counts
<1> QED
  BY <1>1, <1>2, <1>3, <1>4 DEF Next

\* Every variable keeps its type; a path is reported as failed only if it was
\* asked for.
THEOREM SyncTypes == Spec => []TypeOK
<1>1. Base => TypeOK
  BY DEF Base, Types
<1> QED
  BY <1>1, InitBase, NextBase, PTL DEF Spec
-----------------------------------------------------------------------------
(***************************************************************************)
(* Second layer: a summary is of the code beside it, in the table and in   *)
(* the workers' hands.                                                     *)
(***************************************************************************)
Says(r, u) == u \notin unsummed /\ Truthy(r.summary) => r.summary = r.code

Summed ==
    /\ \A u \in Units : row[u] # None => Says(row[u], u)
    /\ \A w \in Workers, u \in Units :
         /\ pending[w][u] # None => Says(pending[w][u], u)
         /\ chunk[w][u] # None => Says(chunk[w][u], u)
    /\ \A w \in Workers :
         pc[w] \in {"check", "upsert"} =>
            LET u == unit[w].id IN
            u \notin unsummed /\ Truthy(unit[w].summary) =>
                unit[w].summary = snap[w][u].code

\* At the start there are no summaries.
LEMMA InitSummed == Init => Summed
  BY NoneApart DEF Init, NoWork, Idle, Nothing, Summed

\* A step that writes no row and fails no summary leaves it to the worker that
\* took it.
LEMMA SummedStays ==
  ASSUME Base, Summed, NEW w \in Workers, Others(w), UNCHANGED <<row, unsummed>>,
         \A u \in Units :
            /\ pending'[w][u] # None => Says(pending'[w][u], u)
            /\ chunk'[w][u] # None => Says(chunk'[w][u], u),
         pc'[w] \in {"check", "upsert"} =>
            (unit'[w].id \notin unsummed /\ Truthy(unit'[w].summary) =>
                unit'[w].summary = snap'[w][unit'[w].id].code)
  PROVE  Summed'
  BY DEF Summed, Says, Others

\* Every action keeps it: one step for each.
LEMMA NextSummed == Base /\ Summed /\ [Next]_vars => Summed'
<1> SUFFICES ASSUME Base, Summed, [Next]_vars PROVE Summed'
  OBVIOUS
<1>0. TypeOK /\ Types /\ Dealt /\ \A w \in Workers : Hands(w)
  BY DEF Base, Types
<1>1. ASSUME User PROVE Summed'
  <2>1. UNCHANGED <<row, unsummed, work>>
    BY <1>1 DEF User, EditUnit, DeleteFile, TogglePermission, Change, ToggleLlm,
                Start, tables, noted
  <2>2. ASSUME NEW w \in Workers PROVE pc'[w] \in Deciding => pc[w] = pc'[w]
    BY <1>0, <1>1 DEF User, EditUnit, DeleteFile, TogglePermission, Change,
                      ToggleLlm, Start, Deciding, TypeOK
  <2> QED
    BY <2>1, <2>2 DEF Summed, Says, work, Deciding
<1>2. ASSUME NEW w \in Workers, Work(w) PROVE Summed'
  <2>1. ASSUME NEW p \in Paths, Take(w, p) PROVE Summed'
    <3>1. Others(w) /\ pc'[w] = "next" /\ UNCHANGED <<row, unsummed, pending, chunk>>
      BY <1>0, <2>1 DEF Take, Goto, Types, TypeOK, Others, tables
    <3> QED
      BY <3>1, SummedStays DEF Summed
  <2>2. ASSUME NEW p \in Paths, TakeFails(w, p) PROVE Summed'
    BY <2>2 DEF TakeFails, Summed, Says, work, tables, noted
  <2>3. CASE QueueEmpty(w)
    <3>1. Others(w) /\ pc'[w] = "done" /\ UNCHANGED <<row, unsummed, pending, chunk>>
      BY <1>0, <2>3 DEF QueueEmpty, Goto, Types, TypeOK, Others, tables, noted, work
    <3> QED
      BY <3>1, SummedStays DEF Summed
  <2>4. ASSUME NEW u \in Units, GetUnit(w, u) PROVE Summed'
    <3>1. Others(w) /\ UNCHANGED <<row, unsummed, pending, chunk, snap>>
      BY <1>0, <2>4 DEF GetUnit, Goto, Types, TypeOK, Others, tables, noted
    <3>2. pc'[w] = "check" =>
            /\ ~ShouldDistill(row[u], snap[w][u])
            /\ unit'[w] = [id |-> u, existing |-> row[u], summary |-> row[u].summary]
      BY <1>0, <2>4 DEF GetUnit, Goto, Types, TypeOK
    <3>3. pc'[w] # "upsert"
      BY <1>0, <2>4 DEF GetUnit, Goto, TypeOK
    <3>4. pc'[w] = "check" =>
            (unit'[w].id \notin unsummed /\ Truthy(unit'[w].summary) =>
                unit'[w].summary = snap'[w][unit'[w].id].code)
      BY <3>1, <3>2 DEF ShouldDistill, Summed, Says
    <3> QED
      BY <3>1, <3>3, <3>4, SummedStays DEF Summed
  <2>5. CASE Distill(w)
    <3>1. Others(w) /\ pc'[w] = "check" /\ UNCHANGED <<row, unsummed, pending, chunk, snap>>
      BY <1>0, <2>5 DEF Distill, Goto, Types, TypeOK, Others, tables, noted
    <3>2. /\ unit'[w].id = unit[w].id
          /\ unit'[w].summary = IF llm THEN snap[w][unit[w].id].code ELSE "empty"
      <4>1. unit[w] \in Hand
        BY <1>0, <2>5 DEF Distill, Hands, Deciding
      <4> QED
        BY <1>0, <2>5, <4>1 DEF Distill, Types, Hand
    <3> QED
      BY <3>1, <3>2, SummedStays, NoneApart DEF Summed, Truthy
  <2>6. CASE DistillFails(w)
    <3>1. Others(w) /\ pc'[w] = "check" /\ UNCHANGED <<row, pending, chunk, snap>>
          /\ unsummed' = unsummed \cup {unit[w].id}
      BY <1>0, <2>6 DEF DistillFails, Goto, Types, TypeOK, Others, tables
    <3>2. unit'[w].id = unit[w].id
      <4>1. unit[w] \in Hand
        BY <1>0, <2>6 DEF DistillFails, Hands, Deciding
      <4> QED
        BY <1>0, <2>6, <4>1 DEF DistillFails, Types, Hand
    <3> QED
      BY <3>1, <3>2 DEF Summed, Says, Others
  <2>7. CASE Check(w)
    <3> DEFINE u == unit[w].id
               new == [code |-> snap[w][u].code, doc |-> snap[w][u].doc,
                       summary |-> unit[w].summary]
    <3>1. Others(w) /\ pc[w] = "check" /\ UNCHANGED <<row, unsummed, unit, chunk, snap>>
      BY <1>0, <2>7 DEF Check, Goto, Types, TypeOK, Others, tables, noted
    <3>2. u \in Units
      BY <1>0, <3>1 DEF Hands, Deciding, Hand
    <3>3. Says(new, u)
      BY <3>1 DEF Summed, Says
    <3>4. \A x \in Units : pending'[w][x] = pending[w][x] \/ (x = u /\ pending'[w][x] = new)
      <4>1. pending' = pending \/ pending' = [pending EXCEPT ![w] = [pending[w] EXCEPT ![u] = new]]
        BY <2>7 DEF Check
      <4>2. pending[w] \in [Units -> Rows \cup {None}] /\ pending \in [Workers -> [Units -> Rows \cup {None}]]
        BY <1>0 DEF TypeOK
      <4> HIDE DEF new, u
      <4>3. pending'[w] = pending[w] \/ pending'[w] = [pending[w] EXCEPT ![u] = new]
        BY <4>1, <4>2
      <4> QED
        BY <4>2, <4>3
    <3> QED
      BY <3>1, <3>3, <3>4, SummedStays DEF Summed
  <2>8. CASE Fail(w)
    <3>1. Others(w) /\ pc'[w] = "take" /\ UNCHANGED <<row, unsummed>>
      BY <1>0, <2>8 DEF Fail, Goto, Reset, Types, TypeOK,
                        Others, tables, noted
    <3>2. pending'[w] = Nothing /\ chunk'[w] = Nothing
      BY <1>0, <2>8 DEF Fail, Reset, TypeOK
    <3> QED
      BY <3>1, <3>2, SummedStays DEF Nothing
  <2>9. CASE Upsert(w)
    <3> DEFINE u == unit[w].id
               new == [code |-> snap[w][u].code, doc |-> snap[w][u].doc,
                       summary |-> unit[w].summary]
    <3>1. Others(w) /\ pc[w] = "upsert" /\ pc'[w] = "next" /\ UNCHANGED <<unsummed, work>>
      BY <1>0, <2>9 DEF Upsert, Goto, Types, TypeOK, Others, noted, work
    <3>2. u \in Units
      BY <1>0, <3>1 DEF Hands, Deciding, Hand
    <3>3. Says(new, u)
      BY <3>1 DEF Summed, Says
    <3>4. \A x \in Units : row'[x] = row[x] \/ (x = u /\ row'[x] = new)
      BY <1>0, <2>9, <3>2 DEF Upsert, TypeOK
    <3> QED
      BY <3>1, <3>3, <3>4 DEF Summed, Says, Others, work
  <2>10. CASE Embed(w)
    <3>1. Others(w) /\ pc'[w] = "write" /\ UNCHANGED <<row, unsummed>>
      BY <1>0, <2>10 DEF Embed, Goto, Types, TypeOK, Others, tables, noted
    <3>2. \A x \in Units : /\ pending'[w][x] \in {pending[w][x], None}
                           /\ chunk'[w][x] \in {pending[w][x], None}
      <4>1. PICK batch \in SUBSET Held(pending[w]) :
              /\ chunk' = [chunk EXCEPT ![w] =
                    [u \in Units |-> IF u \in batch THEN pending[w][u] ELSE None]]
              /\ pending' = [pending EXCEPT ![w] =
                    [u \in Units |-> IF u \in batch THEN None ELSE @[u]]]
        BY <2>10 DEF Embed
      <4>2. /\ chunk'[w] = [u \in Units |-> IF u \in batch THEN pending[w][u] ELSE None]
            /\ pending'[w] = [u \in Units |-> IF u \in batch THEN None ELSE pending[w][u]]
        BY <1>0, <4>1 DEF TypeOK
      <4> QED
        BY <4>2
    <3> QED
      BY <3>1, <3>2, SummedStays DEF Summed
  <2>11. ASSUME NEW u \in Units, WriteRow(w, u) PROVE Summed'
    <3>1. Others(w) /\ pc'[w] = "writeVec" /\ UNCHANGED <<unsummed, pending, chunk>>
      BY <1>0, <2>11 DEF WriteRow, Goto, Types, TypeOK, Others, noted
    <3>2. \A x \in Units : row'[x] = row[x] \/ (x = u /\ row'[x] = chunk[w][u])
      BY <1>0, <2>11 DEF WriteRow, TypeOK
    <3>3. Says(chunk[w][u], u)
      BY <2>11 DEF WriteRow, Summed
    <3> QED
      BY <3>1, <3>2, <3>3 DEF Summed, Says, Others
  <2>12. CASE WriteVec(w)
    <3>1. Others(w) /\ pc'[w] \in {"next", "write"} /\ UNCHANGED <<row, unsummed, pending>>
      BY <1>0, <2>12 DEF WriteVec, Goto, Types, TypeOK, Others
    <3>2. \A x \in Units : chunk'[w][x] \in {chunk[w][x], None}
      <4>1. chunk' = [chunk EXCEPT ![w] = [chunk[w] EXCEPT ![unit[w].id] = None]]
        BY <2>12 DEF WriteVec
      <4>2. chunk[w] \in [Units -> Rows \cup {None}] /\ chunk \in [Workers -> [Units -> Rows \cup {None}]]
        BY <1>0 DEF TypeOK
      <4>3. chunk'[w] = [chunk[w] EXCEPT ![unit[w].id] = None]
        BY <4>1, <4>2
      <4> QED
        BY <4>2, <4>3
    <3> QED
      BY <3>1, <3>2, SummedStays DEF Summed
  <2>13. CASE DeleteVecs(w)
    <3>1. Others(w) /\ pc'[w] = "deleteUnits" /\ UNCHANGED <<row, unsummed, pending, chunk>>
      BY <1>0, <2>13 DEF DeleteVecs, Goto, Types, TypeOK, Others, noted, work
    <3> QED
      BY <3>1, SummedStays DEF Summed
  <2>14. CASE DeleteUnits(w)
    <3>1. Others(w) /\ pc'[w] = "take" /\ UNCHANGED unsummed
      BY <1>0, <2>14 DEF DeleteUnits, Goto, Reset, Types, TypeOK, Others
    <3>2. pending'[w] = Nothing /\ chunk'[w] = Nothing
      BY <1>0, <2>14 DEF DeleteUnits, Reset, TypeOK
    <3>3. \A x \in Units : row'[x] \in {row[x], None}
      BY <2>14 DEF DeleteUnits
    <3> QED
      BY <3>1, <3>2, <3>3 DEF Summed, Says, Others, Nothing
  <2> QED
    BY <1>2, <2>1, <2>2, <2>3, <2>4, <2>5, <2>6, <2>7, <2>8, <2>9, <2>10, <2>11,
       <2>12, <2>13, <2>14 DEF Work
<1>3. CASE Return
  BY <1>3 DEF Return, Idle, Summed, Says, tables, work, noted
<1>4. CASE Crash
  BY <1>4 DEF Crash, Idle, Nothing, Summed, Says, tables
<1>5. CASE UNCHANGED vars
  BY <1>5 DEF vars, Summed, Says, tables, work, noted
<1> QED
  BY <1>1, <1>2, <1>3, <1>4, <1>5 DEF Next

\* No interleaving of workers, failed batch or stop puts a summary beside
\* other code, unless the language model once failed for the unit.
THEOREM SummariesMatch == Spec => []SummaryMatchesCode
<1>1. Summed => SummaryMatchesCode
  BY DEF Summed, Says, SummaryMatchesCode
<1> QED
  BY <1>1, InitBase, NextBase, InitSummed, NextSummed, PTL DEF Spec
-----------------------------------------------------------------------------
(***************************************************************************)
(* Third layer: a vector and its row, while the connection's thread is     *)
(* between the statements of a closure, and while a worker acts on a row   *)
(* it has read before.                                                     *)
(***************************************************************************)
\* A vector is that of a row, up to the comment.
Fits(v, r) ==
    IF Truthy(r.summary) THEN v = EmbeddingText(r)
    ELSE v.of = r.code /\ v.doc # None

BeingWritten(u) == \E w \in Workers : pc[w] = "writeVec" /\ unit[w].id = u

Paired ==
    /\ \A u \in Units : vec[u] # None => row[u] # None
    /\ \A u \in Units :
         vec[u] # None /\ u \notin torn /\ OnlyPath(u) /\ ~BeingWritten(u) =>
            Fits(vec[u], row[u])
    /\ \A w \in Workers :
         /\ pc[w] = "writeVec" => row[unit[w].id] = chunk[w][unit[w].id]
         /\ pc[w] = "deleteUnits" => \A u \in Gone(w) : vec[u] = None
         /\ pc[w] \in Deciding /\ OnlyPath(unit[w].id) =>
               row[unit[w].id] = unit[w].existing

\* A file that is reached by one path is in the hands of one worker.
LEMMA OneWorker ==
  ASSUME Base, NEW v \in Workers, NEW w \in Workers, NEW u \in Units, OnlyPath(u),
         path[v] # None, FileOf[u] = StoredPath[path[v]],
         path[w] # None, FileOf[u] = StoredPath[path[w]]
  PROVE  v = w
<1> DEFINE S == {p \in Paths : StoredPath[p] = FileOf[u]}
<1>1. IsFiniteSet(S)
  BY SyncAssumption, FS_Subset
<1>2. \E x : S = {x}
  BY <1>1, FS_Singleton DEF OnlyPath
<1>3. path[v] \in S /\ path[w] \in S
  BY DEF Base, Types, TypeOK
<1> QED
  BY <1>2, <1>3 DEF Base, Dealt

\* The file of the unit that a worker is at is that of its path.
LEMMA UnitOfPath ==
  ASSUME Base, NEW w \in Workers, pc[w] \in Deciding \cup {"writeVec"}
  PROVE  /\ unit[w].id \in Units /\ path[w] # None
         /\ snap[w][unit[w].id] # None
         /\ FileOf[unit[w].id] = StoredPath[path[w]]
<1>1. Hands(w) /\ Dealt
  BY DEF Base
<1>2. path[w] # None
  BY <1>1 DEF Dealt, Away, Deciding
<1>3. unit[w].id \in Units /\ snap[w][unit[w].id] # None
  BY <1>1 DEF Hands, Hand, Copies, Deciding
<1> QED
  BY <1>1, <1>2, <1>3 DEF Hands

\* At the start there are no vectors.
LEMMA InitPaired == Init => Paired
  BY DEF Init, NoWork, Idle, Nothing, Paired, Deciding

\* A step that writes nothing, after which its worker is neither in a closure
\* nor at another unit than before.
LEMMA PairedStays ==
  ASSUME Base, Paired, NEW w \in Workers, Others(w), UNCHANGED <<row, vec, torn>>,
         pc[w] # "writeVec", pc'[w] \notin Storing,
         pc'[w] \in Deciding => /\ pc[w] \in Deciding
                               /\ unit'[w].id = unit[w].id
                               /\ unit'[w].existing = unit[w].existing
  PROVE  Paired'
<1>1. \A u \in Units : BeingWritten(u) => BeingWritten(u)'
  BY DEF BeingWritten, Others
<1>2. ASSUME NEW v \in Workers
      PROVE  /\ pc'[v] = "writeVec" => row'[unit'[v].id] = chunk'[v][unit'[v].id]
             /\ pc'[v] = "deleteUnits" => \A u \in Gone(v)' : vec'[u] = None
  BY DEF Paired, Others, Gone, Storing
<1>3. ASSUME NEW v \in Workers, pc'[v] \in Deciding, OnlyPath(unit'[v].id)
      PROVE  row'[unit'[v].id] = unit'[v].existing
  BY <1>3 DEF Paired, Others
<1> QED
  BY <1>1, <1>2, <1>3 DEF Paired, Fits, OnlyPath

\* What raises writes nothing; between the inserts of upsert_unit it leaves a
\* unit behind that is noted as torn.
LEMMA FailPaired ==
  ASSUME Base, Paired, NEW w \in Workers, Fail(w)
  PROVE  Paired'
<1>0. TypeOK /\ Types
  BY DEF Base, Types
<1>1. Others(w) /\ pc'[w] = "take" /\ UNCHANGED <<row, vec>>
  BY <1>0 DEF Fail, Goto, Reset, Types, TypeOK, Others, tables
<1>2. torn' = IF pc[w] = "writeVec" THEN torn \cup {unit[w].id} ELSE torn
  BY DEF Fail, Torn
<1>3. \A u \in Units : BeingWritten(u) => BeingWritten(u)' \/ u \in torn'
  BY <1>1, <1>2 DEF BeingWritten, Others
<1>4. ASSUME NEW u \in Units, vec'[u] # None, u \notin torn', OnlyPath(u), ~BeingWritten(u)'
      PROVE  Fits(vec'[u], row'[u])
  <2>1. ~BeingWritten(u)
    BY <1>3, <1>4
  <2>2. u \notin torn /\ vec[u] # None /\ vec'[u] = vec[u] /\ row'[u] = row[u]
    BY <1>1, <1>2, <1>4
  <2> QED
    BY <1>4, <2>1, <2>2 DEF Paired
<1>5. ASSUME NEW v \in Workers
      PROVE  /\ pc'[v] = "writeVec" => row'[unit'[v].id] = chunk'[v][unit'[v].id]
             /\ pc'[v] = "deleteUnits" => \A u \in Gone(v)' : vec'[u] = None
             /\ pc'[v] \in Deciding /\ OnlyPath(unit'[v].id) =>
                   row'[unit'[v].id] = unit'[v].existing
  <2>1. CASE v = w
    BY <1>1, <2>1 DEF Deciding
  <2>2. CASE v # w
    BY <1>1, <2>2 DEF Others, Paired, Gone
  <2> QED
    BY <2>1, <2>2
<1>6. \A u \in Units : vec'[u] # None => row'[u] # None
  BY <1>1 DEF Paired
<1> QED
  BY <1>4, <1>5, <1>6 DEF Paired, OnlyPath

\* The row of a unit found unchanged is written again, with the code and the
\* summary it had.
LEMMA UpsertPaired ==
  ASSUME Base, Paired, NEW w \in Workers, Upsert(w)
  PROVE  Paired'
<1>0. TypeOK /\ Types /\ Dealt /\ Hands(w)
  BY DEF Base, Types
<1> DEFINE u == unit[w].id
           new == [code |-> snap[w][u].code, doc |-> snap[w][u].doc,
                   summary |-> unit[w].summary]
<1>1. Others(w) /\ pc[w] = "upsert" /\ pc'[w] = "next" /\ UNCHANGED <<vec, torn, work>>
  BY <1>0 DEF Upsert, Goto, Types, TypeOK, Others, noted, work
<1>2. u \in Units /\ path[w] # None /\ FileOf[u] = StoredPath[path[w]]
  BY <1>1, UnitOfPath DEF Deciding
<1>3. /\ row' \in [Units -> Rows \cup {None}]
      /\ row'[u] = new /\ new # None /\ new \in Rows
      /\ \A x \in Units : x # u => row'[x] = row[x]
  <2>1. snap[w][u] \in Texts /\ unit[w] \in Hand
    BY <1>0, <1>1 DEF Hands, Deciding, TypeOK, Hand
  <2>2. new \in Rows
    BY <2>1 DEF Texts, Hand, Rows
  <2> QED
    BY <1>0, <1>2, <2>2, NoneApart DEF Upsert, TypeOK
<1>4. \A v \in Workers : pc[v] \notin Storing
  BY DEF Upsert, ThreadFree, Storing
<1>5. \A v \in Workers : pc'[v] \notin Storing
  BY <1>1, <1>4 DEF Others, Storing
<1>6. ASSUME vec[u] # None, u \notin torn, OnlyPath(u)
      PROVE  Fits(vec[u], new)
  <2>1. row[u] = unit[w].existing
    BY <1>1, <1>6 DEF Paired, Deciding
  <2>2. row[u] # None /\ row[u].code = new.code /\ row[u].summary = new.summary
    BY <1>0, <1>1, <2>1 DEF Hands
  <2>3. Fits(vec[u], row[u])
    BY <1>2, <1>4, <1>6 DEF Paired, BeingWritten, Storing
  <2> QED
    BY <2>2, <2>3 DEF Fits, EmbeddingText
<1>7. ASSUME NEW v \in Workers, pc'[v] \in Deciding, OnlyPath(unit[v].id)
      PROVE  row'[unit[v].id] = unit[v].existing
  <2>1. v # w /\ pc[v] \in Deciding
    BY <1>1, <1>7 DEF Others, Deciding
  <2>2. unit[v].id # u
    BY <1>2, <1>7, <2>1, UnitOfPath, OneWorker
  <2> QED
    BY <1>3, <1>7, <2>1, <2>2, UnitOfPath DEF Paired
<1>8. \A x \in Units : vec'[x] # None => row'[x] # None
  BY <1>1, <1>3 DEF Paired
<1>9. \A x \in Units :
        vec'[x] # None /\ x \notin torn' /\ OnlyPath(x) => Fits(vec'[x], row'[x])
  <2> TAKE x \in Units
  <2>1. CASE x = u
    BY <1>1, <1>3, <1>6, <2>1
  <2>2. CASE x # u
    BY <1>1, <1>3, <1>4, <2>2 DEF Paired, BeingWritten, Storing
  <2> QED
    BY <2>1, <2>2
<1>10. unit' = unit
  BY <1>1 DEF work
<1> QED
  BY <1>5, <1>7, <1>8, <1>9, <1>10 DEF Paired, Fits, Storing, OnlyPath

\* The row of a unit is written, with the vector of another version beside it.
LEMMA WriteRowPaired ==
  ASSUME Base, Paired, NEW w \in Workers, NEW u \in Units, WriteRow(w, u)
  PROVE  Paired'
<1>0. TypeOK /\ Types /\ Dealt /\ Hands(w)
  BY DEF Base, Types
<1>1. /\ Others(w) /\ pc[w] = "write" /\ pc'[w] = "writeVec" /\ unit'[w] = [id |-> u]
      /\ UNCHANGED <<path, snap, chunk, vec, torn>>
  BY <1>0 DEF WriteRow, Goto, Types, TypeOK, Others, noted
<1>2. /\ row'[u] = chunk[w][u] /\ row'[u] # None
      /\ \A x \in Units : x # u => row'[x] = row[x]
  BY <1>0 DEF WriteRow, TypeOK
<1>3. path[w] # None /\ FileOf[u] = StoredPath[path[w]]
  BY <1>0, <1>1 DEF Dealt, Away, Hands, WriteRow, Copies
<1>4. \A v \in Workers : pc[v] \notin Storing
  BY DEF WriteRow, ThreadFree, Storing
<1>5. ASSUME NEW v \in Workers, pc'[v] \in Storing PROVE v = w
  BY <1>1, <1>4, <1>5 DEF Others
<1>6. ASSUME NEW v \in Workers, pc'[v] \in Deciding, OnlyPath(unit'[v].id)
      PROVE  row'[unit'[v].id] = unit'[v].existing
  <2>1. v # w /\ pc[v] \in Deciding /\ unit'[v] = unit[v]
    BY <1>1, <1>6 DEF Others, Deciding
  <2>2. unit[v].id # u
    BY <1>3, <1>6, <2>1, UnitOfPath, OneWorker
  <2> QED
    BY <1>2, <1>6, <2>1, <2>2, UnitOfPath DEF Paired
<1>7. \A x \in Units : vec'[x] # None => row'[x] # None
  BY <1>1, <1>2 DEF Paired
<1>8. ASSUME NEW x \in Units, vec'[x] # None, x \notin torn', OnlyPath(x),
             ~BeingWritten(x)'
      PROVE  Fits(vec'[x], row'[x])
  <2>1. x # u
    BY <1>1, <1>8 DEF BeingWritten
  <2> QED
    BY <1>1, <1>2, <1>4, <1>8, <2>1 DEF Paired, BeingWritten, Storing
<1> QED
  BY <1>1, <1>2, <1>5, <1>6, <1>7, <1>8 DEF Paired, Fits, Storing, OnlyPath

\* Its vector follows.
LEMMA WriteVecPaired ==
  ASSUME Base, Paired, NEW w \in Workers, WriteVec(w)
  PROVE  Paired'
<1>0. TypeOK /\ Types /\ Dealt /\ Hands(w) /\ Thread
  BY DEF Base, Types
<1> DEFINE u == unit[w].id
<1>1. /\ Others(w) /\ pc[w] = "writeVec" /\ pc'[w] \in {"next", "write"}
      /\ UNCHANGED <<path, snap, unit, row>>
  BY <1>0 DEF WriteVec, Goto, Types, TypeOK, Others
<1>2. u \in Units /\ row[u] = chunk[w][u] /\ row[u] \in Rows
  BY <1>0, <1>1 DEF Hands, Paired, TypeOK
<1>3. /\ vec'[u] = EmbeddingText(row[u]) /\ torn' = torn \ {u}
      /\ \A x \in Units : x # u => vec'[x] = vec[x]
  BY <1>0, <1>2 DEF WriteVec, TypeOK
<1>4. \A v \in Workers : v # w => pc[v] \notin Storing
  BY <1>0, <1>1 DEF Thread, Storing
<1>5. \A v \in Workers : pc'[v] \notin Storing
  BY <1>1, <1>4 DEF Others, Storing
<1>6. Fits(vec'[u], row[u])
  BY <1>2, <1>3, NoneApart DEF Fits, EmbeddingText, Rows
<1>7. \A x \in Units : vec'[x] # None => row'[x] # None
  BY <1>1, <1>2, <1>3, NoneApart DEF Paired
<1>8. ASSUME NEW x \in Units, vec'[x] # None, x \notin torn', OnlyPath(x)
      PROVE  Fits(vec'[x], row'[x])
  <2>1. CASE x = u
    BY <1>1, <1>6, <2>1
  <2>2. CASE x # u
    BY <1>1, <1>3, <1>4, <1>8, <2>2 DEF Paired, BeingWritten, Storing
  <2> QED
    BY <2>1, <2>2
<1>9. ASSUME NEW v \in Workers, pc'[v] \in Deciding
      PROVE  pc[v] = pc'[v] /\ unit'[v] = unit[v]
  BY <1>1, <1>9 DEF Others, Deciding
<1>10. ASSUME NEW v \in Workers, pc'[v] \in Deciding, OnlyPath(unit'[v].id)
       PROVE  row'[unit'[v].id] = unit'[v].existing
  <2>1. pc[v] \in Deciding /\ unit'[v] = unit[v]
    BY <1>9, <1>10
  <2>2. row[unit[v].id] = unit[v].existing
    BY <1>10, <2>1 DEF Paired
  <2> QED
    BY <1>1, <2>1, <2>2
<1>11. \A v \in Workers : pc'[v] # "writeVec" /\ pc'[v] # "deleteUnits"
  BY <1>5 DEF Storing
<1> QED
  BY <1>7, <1>8, <1>10, <1>11 DEF Paired, Fits, OnlyPath

\* The vectors and then the rows of units that are gone are deleted.
LEMMA DeletePaired ==
  ASSUME Base, Paired, NEW w \in Workers, DeleteVecs(w) \/ DeleteUnits(w)
  PROVE  Paired'
<1>0. TypeOK /\ Types /\ Dealt /\ Hands(w) /\ Thread
  BY DEF Base, Types
<1>1. CASE DeleteVecs(w)
  <2>1. /\ Others(w) /\ pc[w] = "next" /\ pc'[w] = "deleteUnits"
        /\ UNCHANGED <<work, row, torn>>
    BY <1>0, <1>1 DEF DeleteVecs, Goto, Types, TypeOK, Others, work, noted
  <2>2. \A v \in Workers : pc[v] \notin Storing
    BY <1>1 DEF DeleteVecs, ThreadFree, Storing
  <2>3. \A u \in Units : vec'[u] = IF u \in Gone(w) /\ row[u] # None THEN None ELSE vec[u]
    BY <1>1 DEF DeleteVecs
  <2>4. \A u \in Gone(w) : vec'[u] = None
    BY <2>3 DEF Gone, Paired
  <2>5. Gone(w)' = Gone(w)
    BY <2>1 DEF Gone, work
  <2>6. \A v \in Workers : /\ pc'[v] \in Storing => v = w
                           /\ pc'[v] \in Deciding => pc[v] \in Deciding
    BY <2>1, <2>2 DEF Others, Deciding
  <2>7. \A u \in Units : ~BeingWritten(u)
    BY <2>2 DEF BeingWritten, Storing
  <2> QED
    BY <2>1, <2>3, <2>4, <2>5, <2>6, <2>7 DEF Paired, Fits, work, Storing, OnlyPath
<1>2. CASE DeleteUnits(w)
  <2>1. /\ Others(w) /\ pc[w] = "deleteUnits" /\ pc'[w] = "take"
        /\ vec' = vec /\ torn' = torn \ Gone(w)
    BY <1>0, <1>2 DEF DeleteUnits, Goto, Reset, Types, TypeOK, Others
  <2>2. \A v \in Workers : v # w => pc[v] \notin Storing
    BY <1>0, <2>1 DEF Thread, Storing
  <2>3. \A u \in Units : row'[u] = IF u \in Gone(w) THEN None ELSE row[u]
    BY <1>2 DEF DeleteUnits
  <2>4. \A u \in Gone(w) : vec[u] = None
    BY <2>1 DEF Paired
  <2>5. \A v \in Workers : pc'[v] \notin Storing
    BY <2>1, <2>2 DEF Others, Storing
  <2>6. ASSUME NEW v \in Workers, pc'[v] \in Deciding, OnlyPath(unit'[v].id)
        PROVE  row'[unit'[v].id] = unit'[v].existing
    <3>1. v # w /\ pc[v] \in Deciding /\ unit'[v] = unit[v]
      BY <2>1, <2>6 DEF Others, Deciding
    <3>2. path[w] # None
      BY <1>0, <2>1 DEF Dealt, Away
    <3>3. unit[v].id \notin Gone(w)
      BY <2>6, <3>1, <3>2, UnitOfPath, OneWorker DEF Gone
    <3> QED
      BY <2>3, <2>6, <3>1, <3>3, UnitOfPath DEF Paired
  <2>7. \A u \in Units : ~BeingWritten(u)
    BY <2>1, <2>2 DEF BeingWritten, Storing
  <2> QED
    BY <2>1, <2>3, <2>4, <2>5, <2>6, <2>7 DEF Paired, Fits, Storing, OnlyPath
<1> QED
  BY <1>1, <1>2

\* Every action keeps it: one step for each.
LEMMA NextPaired == Base /\ Paired /\ [Next]_vars => Paired'
<1> SUFFICES ASSUME Base, Paired, [Next]_vars PROVE Paired'
  OBVIOUS
<1>0. TypeOK /\ Types /\ Dealt /\ \A w \in Workers : Hands(w)
  BY DEF Base, Types
<1>1. ASSUME User PROVE Paired'
  <2>1. UNCHANGED <<row, vec, torn, work>>
    BY <1>1 DEF User, EditUnit, DeleteFile, TogglePermission, Change, ToggleLlm,
                Start, tables, noted
  <2>2. \A w \in Workers :
          pc'[w] \in Deciding \cup Storing \/ pc[w] = "writeVec" => pc[w] = pc'[w]
    BY <1>0, <1>1 DEF User, EditUnit, DeleteFile, TogglePermission, Change,
                      ToggleLlm, Start, Deciding, Storing, TypeOK, Dealt
  <2>3. \A u \in Units : BeingWritten(u) => BeingWritten(u)'
    BY <2>1, <2>2 DEF BeingWritten, work
  <2> QED
    BY <2>1, <2>2, <2>3 DEF Paired, Fits, Gone, Storing, work, OnlyPath
<1>2. ASSUME NEW w \in Workers, Work(w) PROVE Paired'
  <2>1. ASSUME NEW p \in Paths, Take(w, p) PROVE Paired'
    <3>1. /\ Others(w) /\ pc[w] = "take" /\ pc'[w] = "next" /\ UNCHANGED <<row, vec, torn>>
      BY <1>0, <2>1 DEF Take, Goto, Types, TypeOK, Others, tables
    <3> QED
      BY <3>1, PairedStays DEF Storing, Deciding
  <2>2. ASSUME NEW p \in Paths, TakeFails(w, p) PROVE Paired'
    BY <2>2 DEF TakeFails, Paired, Fits, Gone, BeingWritten, work, tables, noted
  <2>3. CASE QueueEmpty(w)
    <3>1. /\ Others(w) /\ pc[w] = "take" /\ pc'[w] = "done" /\ UNCHANGED <<row, vec, torn>>
      BY <1>0, <2>3 DEF QueueEmpty, Goto, Types, TypeOK, Others, tables, noted, work
    <3> QED
      BY <3>1, PairedStays DEF Storing, Deciding
  <2>4. ASSUME NEW u \in Units, GetUnit(w, u) PROVE Paired'
    <3>1. /\ Others(w) /\ pc[w] = "next" /\ pc'[w] \in {"distill", "check"}
          /\ UNCHANGED <<row, vec, torn, snap, path>>
      BY <1>0, <2>4 DEF GetUnit, Goto, Types, TypeOK, Others, tables, noted
    <3>2. unit'[w].id = u /\ unit'[w].existing = row[u]
      BY <1>0, <2>4 DEF GetUnit, Types
    <3>3. \A x \in Units : BeingWritten(x) => BeingWritten(x)'
      BY <3>1 DEF BeingWritten, Others
    <3>4. ASSUME NEW v \in Workers, pc'[v] \in Deciding, OnlyPath(unit'[v].id)
          PROVE  row'[unit'[v].id] = unit'[v].existing
      BY <3>1, <3>2, <3>4 DEF Paired, Others
    <3>5. ASSUME NEW v \in Workers, v # w
          PROVE  /\ pc'[v] = pc[v] /\ unit'[v] = unit[v] /\ chunk'[v] = chunk[v]
                 /\ Gone(v)' = Gone(v)
      BY <3>1, <3>5 DEF Others, Gone
    <3>6. pc'[w] \notin Storing
      BY <3>1 DEF Storing
    <3> QED
      BY <3>1, <3>3, <3>4, <3>5, <3>6 DEF Paired, Fits, Storing, OnlyPath
  <2>5. CASE Distill(w) \/ DistillFails(w)
    <3>1. /\ Others(w) /\ pc[w] = "distill" /\ pc'[w] = "check" /\ UNCHANGED <<row, vec, torn>>
      BY <1>0, <2>5 DEF Distill, DistillFails, Goto, Types, TypeOK, Others, tables, noted
    <3>2. unit[w] \in Hand
      BY <1>0, <3>1 DEF Hands, Deciding
    <3>3. unit'[w].id = unit[w].id /\ unit'[w].existing = unit[w].existing
      BY <1>0, <2>5, <3>2 DEF Distill, DistillFails, Types, Hand
    <3> QED
      BY <3>1, <3>3, PairedStays DEF Storing, Deciding
  <2>6. CASE Check(w)
    <3>1. /\ Others(w) /\ pc[w] = "check" /\ pc'[w] \in {"next", "upsert"}
          /\ UNCHANGED <<row, vec, torn, unit>>
      BY <1>0, <2>6 DEF Check, Goto, Types, TypeOK, Others, tables, noted
    <3> QED
      BY <3>1, PairedStays DEF Storing, Deciding
  <2>7. CASE Fail(w)
    BY <2>7, FailPaired
  <2>8. CASE Upsert(w)
    BY <2>8, UpsertPaired
  <2>9. CASE Embed(w)
    <3>1. /\ Others(w) /\ pc[w] = "next" /\ pc'[w] = "write" /\ UNCHANGED <<row, vec, torn>>
      BY <1>0, <2>9 DEF Embed, Goto, Types, TypeOK, Others, tables, noted
    <3> QED
      BY <3>1, PairedStays DEF Storing, Deciding
  <2>10. ASSUME NEW u \in Units, WriteRow(w, u) PROVE Paired'
    BY <2>10, WriteRowPaired
  <2>11. CASE WriteVec(w)
    BY <2>11, WriteVecPaired
  <2>12. CASE DeleteVecs(w) \/ DeleteUnits(w)
    BY <2>12, DeletePaired
  <2> QED
    BY <1>2, <2>1, <2>2, <2>3, <2>4, <2>5, <2>6, <2>7, <2>8, <2>9, <2>10, <2>11,
       <2>12 DEF Work
<1>3. CASE Return
  <2>1. /\ \A u \in Units : ~BeingWritten(u)
        /\ \A w \in Workers : pc'[w] = "off"
        /\ UNCHANGED <<row, vec, torn>>
    BY <1>3 DEF Return, Finished, Idle, BeingWritten, tables, noted
  <2> QED
    BY <2>1 DEF Paired, Fits, Deciding, OnlyPath
<1>4. CASE Crash
  <2>1. /\ \A u \in Units : BeingWritten(u) => u \in torn'
        /\ torn \subseteq torn' /\ UNCHANGED <<row, vec>>
        /\ \A w \in Workers : pc'[w] = "off"
    BY <1>4 DEF Crash, Idle, BeingWritten, tables
  <2> QED
    BY <2>1 DEF Paired, Fits, Deciding, OnlyPath
<1>5. CASE UNCHANGED vars
  BY <1>5 DEF vars, Paired, Fits, Gone, BeingWritten, tables, work, noted
<1> QED
  BY <1>1, <1>2, <1>3, <1>4, <1>5 DEF Next

\* No interleaving of workers, failed batch, restart or edit pairs a row with
\* the vector of another version, or leaves the vector of a row that is gone,
\* but for the two exceptions that the property names.
THEOREM VectorsMatch == Spec => []VectorMatchesRow
<1>1. Paired => VectorMatchesRow
  BY DEF Paired, BeingWritten, Fits, VectorMatchesRow
<1> QED
  BY <1>1, InitBase, NextBase, InitPaired, NextPaired, PTL DEF Spec
-----------------------------------------------------------------------------
(***************************************************************************)
(* Fourth layer: what a worker has parsed is what is in its file, as long  *)
(* as the file was readable and nobody has changed it since the sync began.*)
(***************************************************************************)
Clean(f) == f \notin touched \cup unread

Fresh ==
    /\ \A u \in Units : fileState[FileOf[u]] = "gone" => source[u] = None
    /\ \A w \in Workers, u \in Units :
         path[w] # None /\ FileOf[u] = StoredPath[path[w]] /\ Clean(FileOf[u]) =>
            snap[w][u] = source[u]

\* No file is gone and nothing is parsed at the start.
LEMMA InitFresh == Init => Fresh
  BY SyncAssumption DEF Init, NoWork, Fresh

\* What the user changes is touched, while a sync is running.
LEMMA UserTouches ==
  ASSUME Base, User, running = TRUE
  PROVE  /\ \A f \in Files : Clean(f)' => Clean(f)
         /\ \A u \in Units : Clean(FileOf[u])' => source'[u] = source[u]
         /\ UNCHANGED <<tables, call, queue, failures, pc, work>>
<1>0. /\ source \in [Units -> Texts \cup {None}]
      /\ \A u \in Units : FileOf[u] \in Files
  BY SyncAssumption DEF Base, Types, TypeOK
<1>1. ASSUME NEW u \in Units, NEW text \in Texts \cup {None}, EditUnit(u, text)
      PROVE  /\ touched' = touched \cup {FileOf[u]} /\ unread' = unread
             /\ \A x \in Units : x # u => source'[x] = source[x]
             /\ UNCHANGED <<tables, call, queue, failures, pc, work>>
  BY <1>0, <1>1 DEF EditUnit, Change
<1>2. ASSUME NEW f \in Files, DeleteFile(f)
      PROVE  /\ touched' = touched \cup {f} /\ unread' = unread
             /\ \A x \in Units : FileOf[x] # f => source'[x] = source[x]
             /\ UNCHANGED <<tables, call, queue, failures, pc, work>>
  BY <1>0, <1>2 DEF DeleteFile, Change
<1>3. ASSUME NEW f \in Files, TogglePermission(f)
      PROVE  /\ touched' = touched \cup {f} /\ unread' = unread /\ source' = source
             /\ UNCHANGED <<tables, call, queue, failures, pc, work>>
  BY <1>0, <1>3 DEF TogglePermission, Change
<1>4. ~ToggleLlm /\ \A paths \in SUBSET Paths, f \in BOOLEAN : ~Start(paths, f)
  BY DEF ToggleLlm, Start
<1> QED
  BY <1>0, <1>1, <1>2, <1>3, <1>4 DEF User, Clean

\* Without a sync nobody has a path, before and after a step of the user.
LEMMA UserOutside ==
  ASSUME Base, User, running = FALSE
  PROVE  /\ asked = {} /\ (asked' = queue' \/ asked' = {})
         /\ UNCHANGED work
         /\ \A w \in Workers : /\ path[w] = None /\ path'[w] = None
                              /\ snap'[w] = Nothing /\ pc'[w] \in {"off", "take"}
<1>1. asked = {} /\ \A w \in Workers : pc[w] = "off" /\ path[w] = None /\ snap[w] = Nothing
  BY DEF Base, Dealt, Hands, Away
<1>2. UNCHANGED work /\ (asked' = queue' \/ asked' = asked)
  BY DEF User, EditUnit, DeleteFile, TogglePermission, Change, ToggleLlm, Start, call
<1>3. pc' = pc \/ \A w \in Workers : pc'[w] \in {"off", "take"}
  BY DEF User, EditUnit, DeleteFile, TogglePermission, Change, ToggleLlm, Start
<1> QED
  BY <1>1, <1>2, <1>3 DEF work

\* A worker changes no file, and keeps its path and what it parsed unless it
\* takes a path or lets go of one.
Steady(w) ==
    /\ UNCHANGED <<tree, llm, call, touched>> /\ unread \subseteq unread'
    /\ Others(w)

Keeps(w) == path'[w] = path[w] /\ snap'[w] = snap[w]

LetsGo(w) == path'[w] = None /\ snap'[w] = Nothing

\* Every action of a worker is of one of these kinds.
LEMMA WorkFrame ==
  ASSUME Base, NEW w \in Workers, Work(w)
  PROVE  Steady(w) /\ (Keeps(w) \/ LetsGo(w) \/ \E p \in Paths : Take(w, p))
<1>0. TypeOK /\ Types
  BY DEF Base, Types
<1>1. ASSUME NEW p \in Paths, Take(w, p) PROVE Steady(w)
  BY <1>0, <1>1 DEF Take, Goto, Types, TypeOK, Steady, Others
<1>2. ASSUME NEW p \in Paths, TakeFails(w, p) PROVE Steady(w) /\ Keeps(w)
  BY <1>2 DEF TakeFails, noted, work, Steady, Others, Keeps
<1>3. ASSUME QueueEmpty(w) PROVE Steady(w) /\ Keeps(w)
  BY <1>0, <1>3 DEF QueueEmpty, Goto, TypeOK, noted, work, Steady, Others, Keeps
<1>4. ASSUME NEW u \in Units, GetUnit(w, u) PROVE Steady(w) /\ Keeps(w)
  BY <1>0, <1>4 DEF GetUnit, Goto, Types, TypeOK, noted, Steady, Others, Keeps
<1>5. ASSUME Distill(w) \/ DistillFails(w) PROVE Steady(w) /\ Keeps(w)
  BY <1>0, <1>5 DEF Distill, DistillFails, Goto, Types, TypeOK, noted, Steady, Others, Keeps
<1>6. ASSUME Check(w) \/ Upsert(w) PROVE Steady(w) /\ Keeps(w)
  BY <1>0, <1>6 DEF Check, Upsert, Goto, Types, TypeOK, noted, work, Steady, Others, Keeps
<1>7. ASSUME Fail(w) PROVE Steady(w) /\ LetsGo(w)
  BY <1>0, <1>7 DEF Fail, Goto, Reset, Types, TypeOK, noted,
                    Steady, Others, LetsGo
<1>8. ASSUME Embed(w) PROVE Steady(w) /\ Keeps(w)
  BY <1>0, <1>8 DEF Embed, Goto, Types, TypeOK, noted, Steady, Others, Keeps
<1>9. ASSUME NEW u \in Units, WriteRow(w, u) PROVE Steady(w) /\ Keeps(w)
  BY <1>0, <1>9 DEF WriteRow, Goto, Types, TypeOK, noted, Steady, Others, Keeps
<1>10. ASSUME WriteVec(w) PROVE Steady(w) /\ Keeps(w)
  BY <1>0, <1>10 DEF WriteVec, Goto, Types, TypeOK, Steady, Others, Keeps
<1>11. ASSUME DeleteVecs(w) PROVE Steady(w) /\ Keeps(w)
  BY <1>0, <1>11 DEF DeleteVecs, Goto, Types, TypeOK, noted, work, Steady, Others, Keeps
<1>12. ASSUME DeleteUnits(w) PROVE Steady(w) /\ LetsGo(w)
  BY <1>0, <1>12 DEF DeleteUnits, Goto, Reset, Types, TypeOK, Steady, Others, LetsGo
<1> QED
  BY <1>1, <1>2, <1>3, <1>4, <1>5, <1>6, <1>7, <1>8, <1>9, <1>10, <1>11, <1>12
  DEF Work

\* A path is read as it is on disk, or its file is counted as unread.
LEMMA TakeFresh ==
  ASSUME Base, Fresh, NEW w \in Workers, NEW p \in Paths, Take(w, p),
         NEW u \in Units, FileOf[u] = StoredPath[p], Clean(FileOf[u])'
  PROVE  path'[w] = p /\ snap'[w][u] = source[u]
<1>0. TypeOK
  BY DEF Base, Types
<1>1. path'[w] = p /\ snap'[w][u] = IF fileState[FileOf[u]] = "ok" THEN source[u] ELSE None
  BY <1>0 DEF Take, TypeOK
<1>2. fileState[FileOf[u]] # "unreadable"
  BY DEF Take, Clean
<1>3. fileState[FileOf[u]] \in {"ok", "unreadable", "gone"}
  BY <1>0, SyncAssumption DEF TypeOK
<1> QED
  BY <1>1, <1>2, <1>3 DEF Fresh

\* Every step keeps it.
LEMMA NextFresh == Base /\ Fresh /\ [Next]_vars => Fresh'
<1> SUFFICES ASSUME Base, Fresh, [Next]_vars PROVE Fresh'
  OBVIOUS
<1>0. /\ TypeOK /\ \A u \in Units : FileOf[u] \in Files
  BY SyncAssumption DEF Base, Types
<1>1. ASSUME User PROVE Fresh'
  <2>1. \A u \in Units : fileState'[FileOf[u]] = "gone" => source'[u] = None
    <3>1. ASSUME NEW x \in Units, NEW text \in Texts \cup {None}, EditUnit(x, text),
                 NEW u \in Units, fileState'[FileOf[u]] = "gone"
          PROVE  source'[u] = None
      <4>1. u # x /\ fileState[FileOf[u]] = "gone"
        BY <1>0, <3>1 DEF EditUnit, TypeOK
      <4> QED
        BY <1>0, <3>1, <4>1 DEF EditUnit, TypeOK, Fresh
    <3>2. ASSUME NEW f \in Files, DeleteFile(f),
                 NEW u \in Units, fileState'[FileOf[u]] = "gone"
          PROVE  source'[u] = None
      BY <1>0, <3>2 DEF DeleteFile, TypeOK, Fresh
    <3>3. ASSUME NEW f \in Files, TogglePermission(f),
                 NEW u \in Units, fileState'[FileOf[u]] = "gone"
          PROVE  source'[u] = None
      BY <1>0, <3>3 DEF TogglePermission, TypeOK, Fresh
    <3>4. ASSUME ToggleLlm \/ \E paths \in SUBSET Paths, f \in BOOLEAN : Start(paths, f)
          PROVE  UNCHANGED tree
      BY <3>4 DEF ToggleLlm, Start
    <3> QED
      BY <1>1, <3>1, <3>2, <3>3, <3>4 DEF User, tree, Fresh
  <2>2. CASE running = TRUE
    <3>1. UNCHANGED <<path, snap>> /\ \A u \in Units :
            Clean(FileOf[u])' => Clean(FileOf[u]) /\ source'[u] = source[u]
      BY <1>0, <1>1, <2>2, UserTouches DEF work
    <3> QED
      BY <2>1, <3>1 DEF Fresh
  <2>3. CASE running = FALSE
    BY <1>1, <2>1, <2>3, UserOutside DEF Fresh
  <2> QED
    BY <1>0, <2>2, <2>3 DEF TypeOK
<1>2. ASSUME NEW w \in Workers, Work(w) PROVE Fresh'
  <2>1. Steady(w) /\ (Keeps(w) \/ LetsGo(w) \/ \E p \in Paths : Take(w, p))
    BY <1>2, WorkFrame
  <2>2. \A u \in Units : Clean(FileOf[u])' => Clean(FileOf[u])
    BY <2>1 DEF Steady, Clean
  <2>3. ASSUME NEW u \in Units, path'[w] # None, FileOf[u] = StoredPath[path'[w]],
               Clean(FileOf[u])'
        PROVE  snap'[w][u] = source[u]
    <3>1. CASE Keeps(w)
      BY <2>2, <2>3, <3>1 DEF Keeps, Fresh
    <3>2. CASE LetsGo(w)
      BY <2>3, <3>2 DEF LetsGo
    <3>3. ASSUME NEW p \in Paths, Take(w, p) PROVE snap'[w][u] = source[u]
      <4>1. path'[w] = p
        BY <1>0, <3>3 DEF Take, TypeOK
      <4> QED
        BY <2>3, <3>3, <4>1, TakeFresh
    <3> QED
      BY <2>1, <3>1, <3>2, <3>3
  <2> QED
    BY <2>1, <2>2, <2>3 DEF Fresh, Steady, Others, tree
<1>3. CASE Return
  BY <1>3 DEF Return, Fresh, Clean, tree, work, noted
<1>4. CASE Crash
  BY <1>4 DEF Crash, Fresh, tree
<1>5. CASE UNCHANGED vars
  BY <1>5 DEF vars, Fresh, Clean, tree, work, noted
<1> QED
  BY <1>1, <1>2, <1>3, <1>4, <1>5 DEF Next

\* A step that takes a unit out of the index is the deletion of what the parse
\* of a changed or unread file did not find.
LEMMA StepKeepsUnits ==
  ASSUME Base, Fresh, [Next]_vars, NEW u \in Units,
         row[u] # None, source[u] # None, fileState[FileOf[u]] = "ok", row'[u] = None
  PROVE  running /\ FileOf[u] \in touched \cup unread
<1>0. TypeOK /\ Types /\ Dealt /\ \A w \in Workers : Hands(w)
  BY DEF Base, Types
<1>1. ASSUME row' = row PROVE FALSE
  BY <1>1
<1>2. PICK w \in Workers : Work(w)
  <2>1. User \/ Return \/ Crash \/ UNCHANGED vars => row' = row
    BY DEF User, EditUnit, DeleteFile, TogglePermission, Change, ToggleLlm, Start,
           Return, Crash, vars, tables
  <2> QED
    BY <1>1, <2>1 DEF Next
<1>3. DeleteUnits(w)
  <2>1. ASSUME Upsert(w) PROVE FALSE
    <3>1. /\ unit[w] \in Hand /\ unit[w].id \in Units
          /\ snap[w][unit[w].id] \in Texts
      BY <1>0, <2>1 DEF Upsert, Hands, Deciding, Hand, TypeOK
    <3>2. [code |-> snap[w][unit[w].id].code, doc |-> snap[w][unit[w].id].doc,
           summary |-> unit[w].summary] \in Rows
      BY <3>1 DEF Texts, Hand, Rows
    <3> QED
      BY <1>0, <2>1, <3>2, NoneApart DEF Upsert, TypeOK
  <2>2. ASSUME NEW x \in Units, WriteRow(w, x) PROVE FALSE
    BY <1>0, <2>2 DEF WriteRow, TypeOK
  <2>3. ASSUME NEW p \in Paths, Take(w, p) \/ TakeFails(w, p) PROVE FALSE
    BY <1>1, <2>3 DEF Take, TakeFails, tables
  <2>4. ASSUME NEW x \in Units, GetUnit(w, x) PROVE FALSE
    BY <1>1, <2>4 DEF GetUnit, tables
  <2> QED
    BY <1>1, <1>2, <2>1, <2>2, <2>3, <2>4
    DEF Work, QueueEmpty, Distill, DistillFails, Check, Embed, Fail,
        WriteVec, DeleteVecs, tables
<1>4. u \in Gone(w) /\ path[w] # None /\ running = TRUE
  BY <1>0, <1>3 DEF DeleteUnits, Dealt, Away, TypeOK
<1>5. ~Clean(FileOf[u])
  BY <1>4 DEF Gone, Fresh
<1> QED
  BY <1>4, <1>5 DEF Clean

\* A sync never takes a unit of an unedited, readable file out of the index,
\* not even between two statements: search keeps finding it.
NeverBlinks ==
    [][\A u \in Units :
         (row[u] # None /\ source[u] # None /\ fileState[FileOf[u]] = "ok"
            /\ row'[u] = None) =>
           running /\ FileOf[u] \in touched \cup unread]_vars

\* Only the deletion of what a parse did not find takes rows out.
THEOREM UnitsStay == Spec => NeverBlinks
<1>1. Base /\ Fresh /\ [Next]_vars =>
        [\A u \in Units :
           (row[u] # None /\ source[u] # None /\ fileState[FileOf[u]] = "ok"
              /\ row'[u] = None) =>
             running /\ FileOf[u] \in touched \cup unread]_vars
  BY StepKeepsUnits
<1> QED
  BY <1>1, InitBase, NextBase, InitFresh, NextFresh, PTL DEF Spec, NeverBlinks
-----------------------------------------------------------------------------
(***************************************************************************)
(* Fifth layer: how far a sync has come with the units of a clean file.    *)
(***************************************************************************)
\* The index has a unit as it is on disk.
Current(u) ==
    IF source[u] = None THEN row[u] = None /\ vec[u] = None
    ELSE /\ row[u] # None /\ vec[u] # None
         /\ row[u].code = source[u].code /\ row[u].doc = source[u].doc

\* A path that a worker has finished with success.
Finish(p) ==
    p \in asked \ (queue \cup failures) /\ \A w \in Workers : path[w] # p

\* A worker has a unit still before it.
Remains(w, u) ==
    \/ u \in todo[w]
    \/ pc[w] \in Deciding /\ unit[w].id = u
    \/ pending[w][u] # None
    \/ chunk[w][u] # None

Progressed ==
    \A u \in Units : Clean(FileOf[u]) =>
        /\ \A p \in Paths : Finish(p) /\ StoredPath[p] = FileOf[u] => Current(u)
        /\ \A w \in Workers :
             /\ snap[w][u] # None => Remains(w, u) \/ Current(u)
             /\ pc[w] = "upsert" /\ unit[w].id = u => vec[u] # None

Whole == Base /\ Paired /\ Fresh /\ Progressed

\* What a worker holds of a clean file is what is on disk.
LEMMA SnapIsSource ==
  ASSUME Whole, NEW w \in Workers, NEW u \in Units, snap[w][u] # None, Clean(FileOf[u])
  PROVE  source[u] = snap[w][u] /\ source[u] # None
<1>1. path[w] # None /\ FileOf[u] = StoredPath[path[w]]
  BY DEF Whole, Base, Hands, Nothing
<1> QED
  BY <1>1 DEF Whole, Fresh

\* What a worker finds gone from a clean file is not on disk.
LEMMA GoneIsGone ==
  ASSUME Whole, NEW w \in Workers, path[w] # None, NEW u \in Gone(w), Clean(FileOf[u])
  PROVE  u \in Units /\ source[u] = None
  BY DEF Whole, Fresh, Gone

\* A unit that is as on disk stays so, whatever worker acts on it.
LEMMA CurrentStays ==
  ASSUME Whole, NEW w \in Workers, Work(w), NEW u \in Units, Clean(FileOf[u]),
         Current(u)
  PROVE  Current(u)'
<1>0. TypeOK /\ Types /\ Dealt /\ Hands(w)
  BY DEF Whole, Base, Types
<1>1. source' = source
  BY WorkFrame DEF Whole, Steady, tree
<1>2. ASSUME Upsert(w) PROVE Current(u)'
  <2> DEFINE x == unit[w].id
             new == [code |-> snap[w][x].code, doc |-> snap[w][x].doc,
                     summary |-> unit[w].summary]
  <2>1. unit[w] \in Hand /\ x \in Units /\ snap[w][x] # None /\ snap[w][x] \in Texts
    BY <1>0, <1>2 DEF Upsert, Hands, Deciding, Hand, TypeOK
  <2>2. new \in Rows
    BY <2>1 DEF Texts, Hand, Rows
  <2>3. vec' = vec /\ row'[u] = IF u = x THEN new ELSE row[u]
    BY <1>0, <1>2 DEF Upsert, TypeOK
  <2>4. CASE u = x
    BY <1>1, <2>1, <2>2, <2>3, <2>4, SnapIsSource, NoneApart DEF Current
  <2>5. CASE u # x
    BY <1>1, <2>3, <2>5 DEF Current
  <2> QED
    BY <2>4, <2>5
<1>3. ASSUME NEW x \in Units, WriteRow(w, x) PROVE Current(u)'
  <2>1. vec' = vec /\ row'[u] = IF u = x THEN chunk[w][x] ELSE row[u]
    BY <1>0, <1>3 DEF WriteRow, TypeOK
  <2>2. chunk[w][x] # None /\ Copies(chunk[w][x], snap[w][x])
    BY <1>0, <1>3 DEF WriteRow, Hands
  <2>3. CASE u = x
    BY <1>1, <2>1, <2>2, <2>3, SnapIsSource DEF Current, Copies
  <2>4. CASE u # x
    BY <1>1, <2>1, <2>4 DEF Current
  <2> QED
    BY <2>3, <2>4
<1>4. ASSUME WriteVec(w) PROVE Current(u)'
  <2> DEFINE x == unit[w].id
  <2>1. x \in Units /\ chunk[w][x] # None /\ snap[w][x] # None
    BY <1>0, <1>4 DEF WriteVec, Hands, Copies
  <2>2. EmbeddingText(chunk[w][x]) \in Vectors
    BY <1>0, <2>1 DEF TypeOK, EmbeddingText, Rows, Vectors, Truthy
  <2>3. row' = row /\ vec'[u] = IF u = x THEN EmbeddingText(chunk[w][x]) ELSE vec[u]
    BY <1>0, <1>4 DEF WriteVec, TypeOK
  <2>4. CASE u = x
    BY <1>1, <2>1, <2>2, <2>3, <2>4, SnapIsSource, NoneApart DEF Current
  <2>5. CASE u # x
    BY <1>1, <2>3, <2>5 DEF Current
  <2> QED
    BY <2>4, <2>5
<1>5. ASSUME DeleteVecs(w) \/ DeleteUnits(w) PROVE Current(u)'
  <2>1. path[w] # None
    BY <1>0, <1>5 DEF DeleteVecs, DeleteUnits, Dealt, Away
  <2>2. u \in Gone(w) => source[u] = None
    BY <2>1, GoneIsGone
  <2>3. /\ row'[u] = row[u] \/ (u \in Gone(w) /\ row'[u] = None)
        /\ vec'[u] = vec[u] \/ (u \in Gone(w) /\ vec'[u] = None)
    BY <1>5 DEF DeleteVecs, DeleteUnits
  <2> QED
    BY <1>1, <2>2, <2>3 DEF Current
<1>6. ASSUME UNCHANGED <<row, vec>> PROVE Current(u)'
  BY <1>1, <1>6 DEF Current
<1> QED
  BY <1>2, <1>3, <1>4, <1>5, <1>6
  DEF Work, Take, TakeFails, QueueEmpty, GetUnit, Distill, DistillFails, Check,
      Embed, Fail, tables

\* The vector of a unit that is about to be written without one is not deleted
\* by a worker on the same file.
LEMMA VectorStays ==
  ASSUME Whole, NEW w \in Workers, Work(w), NEW v \in Workers, NEW u \in Units,
         Clean(FileOf[u]), snap[v][u] # None, vec[u] # None
  PROVE  vec'[u] # None
<1>0. TypeOK /\ Types /\ Dealt /\ Hands(w)
  BY DEF Whole, Base, Types
<1>1. ASSUME DeleteVecs(w) PROVE vec'[u] # None
  <2>1. path[w] # None
    BY <1>0, <1>1 DEF DeleteVecs, Dealt, Away
  <2>2. u \notin Gone(w)
    BY <2>1, GoneIsGone, SnapIsSource
  <2> QED
    BY <1>1, <2>2 DEF DeleteVecs
<1>2. ASSUME WriteVec(w) PROVE vec'[u] # None
  <2>1. unit[w].id \in Units /\ chunk[w][unit[w].id] # None
    BY <1>0, <1>2 DEF WriteVec, Hands
  <2>2. EmbeddingText(chunk[w][unit[w].id]) \in Vectors
    BY <1>0, <2>1 DEF TypeOK, EmbeddingText, Rows, Vectors, Truthy
  <2> QED
    BY <1>0, <1>2, <2>2, NoneApart DEF WriteVec, TypeOK
<1>3. ASSUME vec' = vec PROVE vec'[u] # None
  BY <1>3
<1> QED
  BY <1>1, <1>2, <1>3
  DEF Work, Take, TakeFails, QueueEmpty, GetUnit, Distill, DistillFails, Check,
      Embed, Fail, Upsert, WriteRow, DeleteUnits, tables

\* Of a step of a worker there is to show what becomes of its own units, and
\* of a path that it lets go of without a failure.
LEMMA ProgressStays ==
  ASSUME Whole, NEW w \in Workers, Work(w),
         \A u \in Units : Clean(FileOf[u])' =>
            /\ snap'[w][u] # None => Remains(w, u)' \/ Current(u)'
            /\ pc'[w] = "upsert" /\ unit'[w].id = u => vec'[u] # None,
         \A p \in Paths, u \in Units :
            Clean(FileOf[u]) /\ Finish(p)' /\ ~Finish(p) /\ StoredPath[p] = FileOf[u]
              => Current(u)'
  PROVE  Progressed'
<1>1. Steady(w)
  BY WorkFrame DEF Whole
<1>2. \A u \in Units : Clean(FileOf[u])' => Clean(FileOf[u])
  BY <1>1 DEF Steady, Clean
<1> SUFFICES ASSUME NEW u \in Units, Clean(FileOf[u])'
             PROVE  /\ \A p \in Paths :
                         Finish(p)' /\ StoredPath[p] = FileOf[u] => Current(u)'
                    /\ \A v \in Workers :
                         /\ snap'[v][u] # None => Remains(v, u)' \/ Current(u)'
                         /\ pc'[v] = "upsert" /\ unit'[v].id = u => vec'[u] # None
  BY DEF Progressed
<1>3. Clean(FileOf[u]) /\ (Current(u) => Current(u)')
  BY <1>2, CurrentStays
<1>4. ASSUME NEW p \in Paths, Finish(p)', StoredPath[p] = FileOf[u] PROVE Current(u)'
  BY <1>3, <1>4 DEF Whole, Progressed
<1>5. ASSUME NEW v \in Workers
      PROVE  /\ snap'[v][u] # None => Remains(v, u)' \/ Current(u)'
             /\ pc'[v] = "upsert" /\ unit'[v].id = u => vec'[u] # None
  <2>1. CASE v = w
    BY <2>1
  <2>2. CASE v # w
    <3>1. UNCHANGED <<pc[v], snap[v], todo[v], unit[v], pending[v], chunk[v]>>
      BY <1>1, <2>2 DEF Steady, Others
    <3>2. snap'[v][u] # None => Remains(v, u)' \/ Current(u)'
      BY <1>3, <3>1 DEF Whole, Progressed, Remains
    <3>3. ASSUME pc'[v] = "upsert", unit'[v].id = u PROVE vec'[u] # None
      <4>1. pc[v] = "upsert" /\ unit[v].id = u
        BY <3>1, <3>3
      <4>2. snap[v][u] # None
        BY <4>1, UnitOfPath DEF Whole, Deciding
      <4> QED
        BY <1>3, <4>1, <4>2, VectorStays DEF Whole, Progressed
    <3> QED
      BY <3>2, <3>3
  <2> QED
    BY <2>1, <2>2
<1> QED
  BY <1>4, <1>5

\* A step that keeps its path finishes none.
LEMMA FinishStays ==
  ASSUME NEW w \in Workers, Steady(w), path'[w] = path[w], UNCHANGED <<queue, failures>>
  PROVE  \A p \in Paths : Finish(p)' => Finish(p)
  BY DEF Finish, Steady, Others, call

\* A worker that keeps its path has a unit still before it, or the unit is as
\* on disk.
LEMMA UnitsStayBefore ==
  ASSUME Whole, NEW w \in Workers, Work(w), Keeps(w), UNCHANGED <<queue, failures>>,
         pc'[w] # "upsert",
         \A u \in Units : Remains(w, u) =>
            Remains(w, u)' \/ (Clean(FileOf[u]) => Current(u)')
  PROVE  Progressed'
<1>1. Steady(w)
  BY WorkFrame DEF Whole
<1>2. \A p \in Paths : Finish(p)' => Finish(p)
  BY <1>1, FinishStays DEF Keeps
<1>3. ASSUME NEW u \in Units, Clean(FileOf[u])', snap'[w][u] # None
      PROVE  Remains(w, u)' \/ Current(u)'
  <2>1. Clean(FileOf[u])
    BY <1>1, <1>3 DEF Steady, Clean
  <2>2. Remains(w, u) \/ Current(u)
    BY <1>3, <2>1 DEF Keeps, Whole, Progressed
  <2> QED
    BY <2>1, <2>2, CurrentStays
<1> QED
  BY <1>2, <1>3, ProgressStays

\* Before a sync nothing was asked for.
LEMMA InitProgressed == Init => Progressed
  BY DEF Init, NoWork, Idle, Nothing, Progressed, Finish

\* What a step of a worker does to its own units and path: one step for each
\* action.
LEMMA WorkProgressed ==
  ASSUME Whole, NEW w \in Workers, Work(w)
  PROVE  Progressed'
<1>0. TypeOK /\ Types /\ Dealt /\ Hands(w) /\ Base /\ Progressed
  BY DEF Whole, Base, Types
<1>1. Steady(w)
  BY WorkFrame DEF Whole
<1>2. \A u \in Units : Clean(FileOf[u])' => Clean(FileOf[u])
  BY <1>1 DEF Steady, Clean
<1>3. \A u \in Units : Clean(FileOf[u]) /\ Current(u) => Current(u)'
  BY CurrentStays
<1> USE DEF Progressed
<1>4. ASSUME NEW p \in Paths, Take(w, p) PROVE Progressed'
  <2>1. /\ path'[w] = p /\ todo'[w] = Held(snap'[w]) /\ pc'[w] = "next"
        /\ snap'[w] \in [Units -> Texts \cup {None}]
        /\ queue' = queue \ {p} /\ failures' = failures /\ path[w] = None
    BY <1>0, <1>4 DEF Take, Goto, Types, TypeOK, Dealt, Away
  <2>2. \A u \in Units : snap'[w][u] # None => Remains(w, u)'
    BY <2>1 DEF Remains, Held
  <2>3. \A q \in Paths : Finish(q)' => Finish(q)
    BY <1>1, <2>1, NoneApart DEF Finish, Steady, Others, call
  <2> QED
    BY <2>1, <2>2, <2>3, ProgressStays
<1>5. ASSUME NEW p \in Paths, TakeFails(w, p) PROVE Progressed'
  <2>1. UNCHANGED <<pc, work, row, vec>> /\ queue' = queue \ {p}
        /\ failures' = failures \cup {p} /\ pc[w] = "take"
    BY <1>5 DEF TakeFails, tables
  <2>2. \A q \in Paths : Finish(q)' => Finish(q)
    BY <1>1, <2>1 DEF Finish, Steady, call, work
  <2>3. snap'[w] = Nothing
    BY <1>0, <2>1 DEF Hands, Dealt, Away, work
  <2> QED
    BY <2>1, <2>2, <2>3, ProgressStays DEF Nothing
<1>6. ASSUME QueueEmpty(w) PROVE Progressed'
  <2>1. UNCHANGED <<work, queue, failures>> /\ pc[w] = "take" /\ pc'[w] = "done"
    BY <1>0, <1>6 DEF QueueEmpty, Goto, TypeOK
  <2>2. snap'[w] = Nothing
    BY <1>0, <2>1 DEF Hands, Dealt, Away, work
  <2>3. path'[w] = path[w]
    BY <2>1 DEF work
  <2> QED
    BY <1>1, <2>1, <2>2, <2>3, ProgressStays, FinishStays DEF Nothing
<1>7. ASSUME NEW x \in Units, GetUnit(w, x) PROVE Progressed'
  <2>1. /\ pc[w] = "next" /\ pc'[w] \in {"distill", "check"} /\ unit'[w].id = x
        /\ todo'[w] = todo[w] \ {x}
        /\ UNCHANGED <<path, snap, pending, chunk, queue, failures>>
    BY <1>0, <1>7 DEF GetUnit, Goto, Types, TypeOK
  <2>2. \A u \in Units : Remains(w, u) => Remains(w, u)'
    BY <2>1 DEF Remains, Deciding
  <2> QED
    BY <2>1, <2>2, UnitsStayBefore DEF Keeps
<1>8. ASSUME Distill(w) \/ DistillFails(w) PROVE Progressed'
  <2>1. /\ pc[w] = "distill" /\ pc'[w] = "check"
        /\ UNCHANGED <<path, snap, todo, pending, chunk, queue, failures>>
    BY <1>0, <1>8 DEF Distill, DistillFails, Goto, TypeOK
  <2>2. unit[w] \in Hand
    BY <1>0, <2>1 DEF Hands, Deciding
  <2>3. unit'[w].id = unit[w].id
    BY <1>0, <1>8, <2>2 DEF Distill, DistillFails, Types, Hand
  <2>4. \A u \in Units : Remains(w, u) => Remains(w, u)'
    BY <2>1, <2>3 DEF Remains, Deciding
  <2> QED
    BY <2>1, <2>4, UnitsStayBefore DEF Keeps
<1>9. ASSUME Check(w) PROVE Progressed'
  <2> DEFINE x == unit[w].id
             new == [code |-> snap[w][x].code, doc |-> snap[w][x].doc,
                     summary |-> unit[w].summary]
  <2>1. /\ pc[w] = "check" /\ pc'[w] \in {"next", "upsert"}
        /\ UNCHANGED <<path, snap, todo, unit, chunk, queue, failures, vec>>
    BY <1>0, <1>9 DEF Check, Goto, TypeOK, tables
  <2>2. unit[w] \in Hand /\ x \in Units /\ snap[w][x] \in Texts
    BY <1>0, <2>1 DEF Hands, Deciding, Hand, TypeOK
  <2>3. new \in Rows /\ new # None
    BY <2>2, NoneApart DEF Texts, Hand, Rows
  <2>4. \/ pc'[w] = "upsert" /\ pending' = pending /\ vec[x] # None
        \/ /\ pc'[w] = "next"
           /\ pending' = [pending EXCEPT ![w] = [pending[w] EXCEPT ![x] = new]]
    BY <1>0, <1>9 DEF Check, Goto, TypeOK
  <2>5. ASSUME NEW u \in Units, Remains(w, u) PROVE Remains(w, u)'
    <3>1. CASE pc'[w] = "upsert"
      BY <2>1, <2>4, <2>5, <3>1 DEF Remains, Deciding
    <3>2. CASE pc'[w] = "next"
      <4>1. pending[w] \in [Units -> Rows \cup {None}]
            /\ pending \in [Workers -> [Units -> Rows \cup {None}]]
        BY <1>0 DEF TypeOK
      <4> HIDE DEF new, x
      <4>2. pending'[w] = [pending[w] EXCEPT ![x] = new]
        BY <2>4, <3>2, <4>1
      <4>3. pending'[w][x] # None /\ (u # x => pending'[w][u] = pending[w][u])
        BY <2>2, <2>3, <4>1, <4>2
      <4> QED
        BY <2>1, <2>5, <4>3 DEF Remains, x
    <3> QED
      BY <2>1, <3>1, <3>2
  <2>6. \A u \in Units : pc'[w] = "upsert" /\ unit'[w].id = u => vec'[u] # None
    BY <2>1, <2>4
  <2>7. \A u \in Units : Clean(FileOf[u])' =>
          (snap'[w][u] # None => Remains(w, u)' \/ Current(u)')
    BY <1>0, <1>2, <1>3, <2>1, <2>5
  <2> QED
    BY <1>1, <2>1, <2>6, <2>7, ProgressStays, FinishStays
<1>10. ASSUME Fail(w) PROVE Progressed'
  <2>1. /\ path'[w] = None /\ snap'[w] = Nothing /\ pc'[w] = "take"
        /\ failures' = failures \cup {path[w]} /\ queue' = queue
    BY <1>0, <1>10 DEF Fail, Goto, Reset, TypeOK
  <2>2. \A p \in Paths : Finish(p)' => Finish(p)
    BY <1>1, <2>1 DEF Finish, Steady, Others, call
  <2> QED
    BY <2>1, <2>2, ProgressStays DEF Nothing
<1>11. ASSUME Upsert(w) PROVE Progressed'
  <2> DEFINE x == unit[w].id
             new == [code |-> snap[w][x].code, doc |-> snap[w][x].doc,
                     summary |-> unit[w].summary]
  <2>1. /\ pc[w] = "upsert" /\ pc'[w] = "next" /\ UNCHANGED <<work, queue, failures, vec>>
    BY <1>0, <1>11 DEF Upsert, Goto, TypeOK
  <2>2. unit[w] \in Hand /\ x \in Units /\ snap[w][x] \in Texts
    BY <1>0, <2>1 DEF Hands, Deciding, Hand, TypeOK
  <2>3. new \in Rows /\ new # None
    BY <2>2, NoneApart DEF Texts, Hand, Rows
  <2>4. row'[x] = new
    BY <1>0, <1>11, <2>2 DEF Upsert, TypeOK
  <2>5. Clean(FileOf[x]) => Current(x)'
    <3>1. ASSUME Clean(FileOf[x]) PROVE source[x] = snap[w][x] /\ vec[x] # None
      BY <1>0, <2>1, <2>2, <3>1, SnapIsSource, NoneApart
    <3> QED
      BY <1>1, <2>1, <2>2, <2>3, <2>4, <3>1, NoneApart DEF Current, Steady, tree, work
  <2>6. \A u \in Units : Remains(w, u) => Remains(w, u)' \/ u = x
    BY <2>1 DEF Remains, Deciding, work
  <2> QED
    BY <2>1, <2>5, <2>6, UnitsStayBefore DEF Keeps, work
<1>12. ASSUME Embed(w) PROVE Progressed'
  <2>1. /\ pc[w] = "next" /\ pc'[w] = "write"
        /\ UNCHANGED <<path, snap, todo, unit, queue, failures>>
    BY <1>0, <1>12 DEF Embed, Goto, TypeOK
  <2>2. PICK batch \in SUBSET Held(pending[w]) :
          /\ chunk' = [chunk EXCEPT ![w] =
                [u \in Units |-> IF u \in batch THEN pending[w][u] ELSE None]]
          /\ pending' = [pending EXCEPT ![w] =
                [u \in Units |-> IF u \in batch THEN None ELSE @[u]]]
    BY <1>12 DEF Embed
  <2>3. /\ chunk'[w] = [u \in Units |-> IF u \in batch THEN pending[w][u] ELSE None]
        /\ pending'[w] = [u \in Units |-> IF u \in batch THEN None ELSE pending[w][u]]
    BY <1>0, <2>2 DEF TypeOK
  <2>4. chunk[w] = Nothing
    BY <1>0, <2>1 DEF Hands
  <2>5. \A u \in Units : Remains(w, u) => Remains(w, u)'
    BY <2>1, <2>3, <2>4 DEF Remains, Deciding, Nothing
  <2> QED
    BY <2>1, <2>5, UnitsStayBefore DEF Keeps
<1>13. ASSUME NEW x \in Units, WriteRow(w, x) PROVE Progressed'
  <2>1. /\ pc[w] = "write" /\ pc'[w] = "writeVec"
        /\ UNCHANGED <<path, snap, todo, pending, chunk, queue, failures>>
    BY <1>0, <1>13 DEF WriteRow, Goto, TypeOK
  <2>2. \A u \in Units : Remains(w, u) => Remains(w, u)'
    BY <2>1 DEF Remains, Deciding
  <2> QED
    BY <2>1, <2>2, UnitsStayBefore DEF Keeps
<1>14. ASSUME WriteVec(w) PROVE Progressed'
  <2> DEFINE x == unit[w].id
  <2>1. /\ pc[w] = "writeVec" /\ pc'[w] \in {"next", "write"}
        /\ UNCHANGED <<path, snap, todo, unit, pending, row, queue, failures>>
    BY <1>0, <1>14 DEF WriteVec, Goto, TypeOK
  <2>2. x \in Units /\ chunk[w][x] # None /\ Copies(chunk[w][x], snap[w][x])
        /\ row[x] = chunk[w][x]
    BY <1>0, <2>1 DEF Hands, Whole, Paired
  <2>3. vec'[x] = EmbeddingText(chunk[w][x]) /\ vec'[x] # None
    <3>1. EmbeddingText(chunk[w][x]) \in Vectors
      BY <1>0, <2>2 DEF TypeOK, EmbeddingText, Rows, Vectors, Truthy
    <3> QED
      BY <1>0, <1>14, <2>2, <3>1, NoneApart DEF WriteVec, TypeOK
  <2>4. Clean(FileOf[x]) => Current(x)'
    BY <1>1, <2>1, <2>2, <2>3, SnapIsSource DEF Current, Copies, Steady, tree
  <2>5. \A u \in Units : u # x => chunk'[w][u] = chunk[w][u]
    <3>1. chunk' = [chunk EXCEPT ![w] = [chunk[w] EXCEPT ![x] = None]]
      BY <1>14 DEF WriteVec
    <3>2. chunk[w] \in [Units -> Rows \cup {None}]
          /\ chunk \in [Workers -> [Units -> Rows \cup {None}]]
      BY <1>0 DEF TypeOK
    <3> HIDE DEF x
    <3>3. chunk'[w] = [chunk[w] EXCEPT ![x] = None]
      BY <3>1, <3>2
    <3> QED
      BY <3>2, <3>3
  <2>6. \A u \in Units : Remains(w, u) => Remains(w, u)' \/ u = x
    BY <2>1, <2>5 DEF Remains, Deciding
  <2> QED
    BY <2>1, <2>4, <2>6, UnitsStayBefore DEF Keeps
<1>15. ASSUME DeleteVecs(w) PROVE Progressed'
  <2>1. /\ pc[w] = "next" /\ pc'[w] = "deleteUnits" /\ UNCHANGED <<work, queue, failures>>
    BY <1>0, <1>15 DEF DeleteVecs, Goto, TypeOK
  <2>2. \A u \in Units : Remains(w, u) => Remains(w, u)'
    BY <2>1 DEF Remains, Deciding, work
  <2>3. path'[w] = path[w] /\ snap'[w] = snap[w]
    BY <2>1 DEF work
  <2> QED
    BY <2>1, <2>2, <2>3, UnitsStayBefore DEF Keeps, work
<1>16. ASSUME DeleteUnits(w) PROVE Progressed'
  <2>1. /\ pc[w] = "deleteUnits" /\ pc'[w] = "take" /\ path'[w] = None
        /\ snap'[w] = Nothing /\ UNCHANGED <<vec, queue, failures>>
    BY <1>0, <1>16 DEF DeleteUnits, Goto, Reset, TypeOK
  <2>2. \A u \in Units : ~Remains(w, u)
    BY <1>0, <2>1 DEF Remains, Hands, Nothing, Deciding, Storing
  <2>3. path[w] # None
    BY <1>0, <2>1 DEF Dealt, Away
  <2>4. ASSUME NEW p \in Paths, NEW u \in Units, Clean(FileOf[u]), Finish(p)', ~Finish(p),
               StoredPath[p] = FileOf[u]
        PROVE  Current(u)'
    <3>1. p = path[w]
      BY <1>1, <2>1, <2>4 DEF Finish, Steady, Others, call
    <3>2. CASE snap[w][u] # None
      BY <1>0, <1>3, <2>2, <2>4, <3>2
    <3>3. CASE snap[w][u] = None
      <4>1. u \in Gone(w)
        BY <2>4, <3>1, <3>3 DEF Gone
      <4>2. source[u] = None /\ vec[u] = None
        BY <2>1, <2>3, <2>4, <4>1, GoneIsGone DEF Whole, Paired
      <4>3. row'[u] = None
        BY <1>16, <4>1 DEF DeleteUnits
      <4> QED
        BY <1>1, <2>1, <4>2, <4>3 DEF Current, Steady, tree
    <3> QED
      BY <3>2, <3>3
  <2> QED
    BY <2>1, <2>4, ProgressStays DEF Nothing
<1> QED
  BY <1>4, <1>5, <1>6, <1>7, <1>8, <1>9, <1>10, <1>11, <1>12, <1>13, <1>14, <1>15,
     <1>16 DEF Work

\* Every step keeps it: a change touches its file, and without a sync nothing
\* is asked for.
LEMMA NextProgressed == Whole /\ [Next]_vars => Progressed'
<1> SUFFICES ASSUME Whole, [Next]_vars PROVE Progressed'
  OBVIOUS
<1>0. TypeOK /\ Base /\ Progressed /\ Dealt /\ \A u \in Units : FileOf[u] \in Files
  BY SyncAssumption DEF Whole, Base, Types
<1>1. ASSUME User PROVE Progressed'
  <2>1. CASE running = TRUE
    <3>1. /\ \A u \in Units : Clean(FileOf[u])' => Clean(FileOf[u]) /\ source'[u] = source[u]
          /\ UNCHANGED <<tables, call, queue, failures, pc, work>>
      BY <1>0, <1>1, <2>1, UserTouches
    <3> QED
      BY <1>0, <3>1 DEF Progressed, Finish, Current, Remains, tables, call, work
  <2>2. CASE running = FALSE
    <3>1. /\ asked' = queue' \/ asked' = {}
          /\ \A w \in Workers : /\ path'[w] = None /\ snap'[w] = Nothing
                               /\ pc'[w] \in {"off", "take"}
      BY <1>0, <1>1, <2>2, UserOutside
    <3>2. \A p \in Paths : ~ Finish(p)'
      BY <3>1 DEF Finish
    <3>3. \A w \in Workers, u \in Units : snap'[w][u] = None
      BY <3>1 DEF Nothing
    <3> QED
      BY <3>1, <3>2, <3>3 DEF Progressed
  <2> QED
    BY <1>0, <2>1, <2>2 DEF TypeOK
<1>2. ASSUME NEW w \in Workers, Work(w) PROVE Progressed'
  BY <1>2, WorkProgressed
<1>3. CASE Return
  <2>1. /\ asked' = {} /\ \A w \in Workers : pc'[w] = "off" /\ snap'[w] = Nothing
    BY <1>0, <1>3 DEF Return, Finished, Idle, Base, Dealt, Hands, Away, work
  <2> QED
    BY <2>1 DEF Progressed, Finish, Nothing
<1>4. CASE Crash
  <2>1. /\ asked' = {} /\ \A w \in Workers : pc'[w] = "off" /\ snap'[w] = Nothing
    BY <1>4 DEF Crash, Idle
  <2> QED
    BY <2>1 DEF Progressed, Finish, Nothing
<1>5. CASE UNCHANGED vars
  BY <1>0, <1>5 DEF vars, Progressed, Finish, Current, Remains, Clean, tree, tables,
                    call, work, noted
<1> QED
  BY <1>1, <1>2, <1>3, <1>4, <1>5 DEF Next

\* When a sync returns, each file that it does not report as failed, that was
\* readable and that nobody changed meanwhile, is in the index as it is on disk.
THEOREM SyncedFilesCurrent == Spec => []SyncedIsCurrent
<1>1. Whole => SyncedIsCurrent
  <2> SUFFICES ASSUME Whole, Finished, NEW u \in Units, FileOf[u] \in Synced
               PROVE  Current(u)
    BY DEF SyncedIsCurrent, Current
  <2>0. TypeOK /\ Dealt
    BY DEF Whole, Base, Types
  <2>1. PICK p \in asked \ failures : StoredPath[p] = FileOf[u]
    BY DEF Synced
  <2>2. Clean(FileOf[u]) /\ p \in Paths
    BY <2>0 DEF Synced, Clean, TypeOK
  <2>3. queue = {} /\ \A w \in Workers : path[w] = None
    BY <2>0 DEF Finished, Dealt, Away
  <2>4. Finish(p)
    BY <2>1, <2>2, <2>3, NoneApart DEF Finish
  <2> QED
    BY <2>1, <2>2, <2>4 DEF Whole, Progressed
<1>2. Init => Whole
  BY InitBase, InitPaired, InitFresh, InitProgressed DEF Whole
<1>3. Whole /\ [Next]_vars => Whole'
  BY NextBase, NextPaired, NextFresh, NextProgressed DEF Whole
<1> QED
  BY <1>1, <1>2, <1>3, PTL DEF Spec
-----------------------------------------------------------------------------
(***************************************************************************)
(* Sixth layer: a sync comes to an end.  Every step of a worker takes      *)
(* something out of a finite set, in the order of what is still before the *)
(* call, and as long as not all have stopped somebody can take a step.     *)
(***************************************************************************)
Smaller(S, T) == S \subseteq T /\ S # T

\* Workers with a path in hand, and workers that found the queue empty.
Busy    == {w \in Workers : path[w] # None}
Stopped == {w \in Workers : pc[w] = "done"}

\* How far _process_unit is from the end of its unit, and a write from the end
\* of its two statements.
Stage(step) ==
    CASE step = "distill" -> 3 [] step = "check" -> 2 [] step = "upsert" -> 1
      [] OTHER -> 0
Opening(step) == IF step \in {"next", "write"} THEN 1 ELSE 0

\* A worker comes closer to the end of its file: fewer units to look at, or one
\* is further on, or fewer wait for their vectors, or fewer for their writes.
Nearer(w) ==
    \/ Smaller(todo'[w], todo[w])
    \/ /\ todo'[w] = todo[w]
       /\ \/ Stage(pc'[w]) < Stage(pc[w])
          \/ /\ Stage(pc'[w]) = Stage(pc[w])
             /\ \/ Smaller(Held(pending'[w]), Held(pending[w]))
                \/ /\ Held(pending'[w]) = Held(pending[w])
                   /\ \/ Smaller(Held(chunk'[w]), Held(chunk[w]))
                      \/ /\ Held(chunk'[w]) = Held(chunk[w])
                         /\ Opening(pc'[w]) < Opening(pc[w])

\* The call comes closer to its end: fewer paths in the queue, or fewer in
\* hand, or one more worker has stopped, or one is nearer the end of its file.
Advances ==
    \/ Smaller(queue', queue)
    \/ /\ queue' = queue
       /\ \/ Smaller(Busy', Busy)
          \/ /\ Busy' = Busy
             /\ \/ Smaller(Stopped, Stopped')
                \/ Stopped' = Stopped /\ \E w \in Workers : Others(w) /\ Nearer(w)

\* A finite set has subsets of every smaller size.
LEMMA SubsetOfSize ==
  ASSUME NEW S, IsFiniteSet(S), NEW n \in Nat, n <= Cardinality(S)
  PROVE  \E T \in SUBSET S : Cardinality(T) = n
<1> DEFINE Sizes == {k \in Nat : n <= k /\ \E T \in SUBSET S : Cardinality(T) = k}
<1>1. Cardinality(S) \in Nat
  BY FS_CardinalityType
<1>2. Cardinality(S) \in Sizes /\ Sizes \subseteq Nat
  BY <1>1
<1>3. PICK k \in Sizes : \A j \in Sizes : <<j, k>> \notin OpToRel(<, Nat)
  <2> HIDE DEF Sizes
  <2> QED
    BY <1>2, WFMin, NatLessThanWellFounded, Zenon
<1>4. \A j \in Sizes : ~ (j < k)
  <2> HIDE DEF Sizes
  <2> QED
    BY <1>2, <1>3, Zenon DEF OpToRel
<1>5. PICK T \in SUBSET S : Cardinality(T) = k
  BY <1>3
<1>6. CASE k = n
  BY <1>5, <1>6
<1>7. CASE k # n
  <2>1. k \in Nat /\ n < k
    <3>1. k \in Nat /\ n <= k
      BY <1>3
    <3> QED
      BY <1>7, <3>1
  <2>2. IsFiniteSet(T) /\ T # {}
    BY <1>5, <2>1, FS_Subset, FS_EmptySet
  <2>3. PICK x \in T : TRUE
    BY <2>2
  <2>4. Cardinality(T \ {x}) = k - 1
    BY <1>5, <2>2, <2>3, FS_RemoveElement
  <2>5. k - 1 \in Sizes
    BY <1>5, <2>1, <2>4
  <2> QED
    BY <1>4, <2>1, <2>5
<1> QED
  BY <1>6, <1>7

\* The size of a batch: at least one unit, and no more than there are.
LEMMA SizeOfBatch ==
  ASSUME NEW S \in SUBSET Units, S # {}
  PROVE  /\ IsFiniteSet(S)
         /\ Min({BatchSize, Cardinality(S)}) \in 1 .. Cardinality(S)
<1>1. IsFiniteSet(S) /\ BatchSize \in Nat \ {0}
  BY SyncAssumption, FS_Subset
<1>2. Cardinality(S) \in Nat /\ Cardinality(S) # 0
  BY <1>1, FS_CardinalityType, FS_EmptySet
<1> DEFINE m == {BatchSize, Cardinality(S)}
<1>3. \E x \in m : \A y \in m : x =< y
  BY <1>1, <1>2
<1>4. Min(m) \in m /\ \A y \in m : Min(m) =< y
  BY <1>3 DEF Min
<1> QED
  BY <1>1, <1>2, <1>4

\* Whoever can go on: the guards of the steps of a worker, but for the failures.
CanGo(w) ==
    \/ pc[w] \in {"take", "distill", "writeVec", "deleteUnits"}
    \/ pc[w] \in {"check", "upsert"} /\ ThreadFree
    \/ pc[w] = "write" /\ ThreadFree /\ \E u \in Units : chunk[w][u] # None
    \/ /\ pc[w] = "next" /\ todo[w] = {}
       /\ \E batch \in SUBSET Held(pending[w]) :
            /\ Held(pending[w]) # {}
            /\ Cardinality(batch) = Min({BatchSize, Cardinality(Held(pending[w]))})
    \/ pc[w] = "next" /\ ThreadFree /\ todo[w] = {} /\ Held(pending[w]) = {}
    \/ pc[w] = "next" /\ ThreadFree /\ \E u \in Units : u \in todo[w]

NobodyStuck == running => Finished \/ \E w \in Workers : CanGo(w)

\* A worker that is to write has something to write.
Filled == \A w \in Workers : pc[w] = "write" => \E u \in Units : chunk[w][u] # None

\* A batch that was embedded is not empty.
LEMMA EmbedFills ==
  ASSUME Base, NEW w \in Workers, Embed(w)
  PROVE  /\ \E u \in Units : chunk'[w][u] # None
         /\ Smaller(Held(pending'[w]), Held(pending[w]))
<1>0. TypeOK
  BY DEF Base, Types
<1> PICK batch \in SUBSET Held(pending[w]) :
      /\ Cardinality(batch) = Min({BatchSize, Cardinality(Held(pending[w]))})
      /\ chunk' = [chunk EXCEPT ![w] =
                     [u \in Units |-> IF u \in batch THEN pending[w][u] ELSE None]]
      /\ pending' = [pending EXCEPT ![w] =
                       [u \in Units |-> IF u \in batch THEN None ELSE @[u]]]
  BY DEF Embed
<1>1. Held(pending[w]) \in SUBSET Units /\ Held(pending[w]) # {}
  BY <1>0 DEF Embed, Held, TypeOK
<1>2. Cardinality(batch) # 0 /\ Cardinality({}) = 0
  BY <1>1, SizeOfBatch, FS_EmptySet
<1>3. PICK x \in batch : TRUE
  BY <1>2
<1>4. x \in Units /\ pending[w][x] # None
  BY <1>0, <1>3 DEF Held, TypeOK
<1>5. chunk'[w][x] # None
  BY <1>0, <1>3, <1>4 DEF TypeOK
<1>6. Held(pending'[w]) \subseteq Held(pending[w]) /\ x \notin Held(pending'[w])
  BY <1>0, <1>3 DEF Held, TypeOK
<1> QED
  BY <1>3, <1>4, <1>5, <1>6 DEF Smaller

\* At the start nobody writes.
LEMMA InitFilled == Init => Filled
  BY DEF Init, Idle, Filled

\* Every step keeps it.
LEMMA NextFilled == Base /\ Filled /\ [Next]_vars => Filled'
<1> SUFFICES ASSUME Base, Filled, [Next]_vars PROVE Filled'
  OBVIOUS
<1>0. TypeOK /\ Types
  BY DEF Base, Types
<1>1. CASE User
  <2>1. UNCHANGED chunk /\ (pc' = pc \/ \A w \in Workers : pc'[w] \in {"off", "take"})
    BY <1>1 DEF User, EditUnit, DeleteFile, TogglePermission, Change, ToggleLlm, Start,
                work
  <2> QED
    BY <2>1 DEF Filled
<1>2. ASSUME NEW w \in Workers, Work(w) PROVE Filled'
  <2>1. Others(w)
    BY <1>2, WorkFrame DEF Steady
  <2>2. ASSUME pc'[w] = "write" PROVE \E u \in Units : chunk'[w][u] # None
    <3>1. CASE Embed(w)
      BY <3>1, EmbedFills
    <3>2. CASE WriteVec(w)
      <4> DEFINE u == unit[w].id
      <4>1. /\ Held(chunk[w]) # {u} /\ u \in Units /\ chunk[w][u] # None
            /\ pc[w] = "writeVec"
        BY <1>0, <2>2, <3>2 DEF WriteVec, Goto, TypeOK, Base, Hands
      <4>2. chunk[w] \in [Units -> Rows \cup {None}]
        BY <1>0 DEF TypeOK
      <4>3. u \in Held(chunk[w])
        BY <4>1, <4>2 DEF Held
      <4>4. PICK x \in Held(chunk[w]) : x # u
        BY <4>1, <4>3
      <4>5. x \in Units /\ chunk[w][x] # None
        BY <4>2, <4>4 DEF Held
      <4>6. chunk' = [chunk EXCEPT ![w] = [chunk[w] EXCEPT ![u] = None]]
        BY <3>2 DEF WriteVec
      <4>7. chunk'[w][x] = chunk[w][x]
        BY <1>0, <4>2, <4>4, <4>5, <4>6 DEF TypeOK
      <4> QED
        BY <4>5, <4>7
    <3>3. ASSUME NEW p \in Paths, TakeFails(w, p) PROVE FALSE
      BY <2>2, <3>3 DEF TakeFails
    <3>4. ASSUME NEW p \in Paths, Take(w, p) PROVE FALSE
      BY <1>0, <2>2, <3>4 DEF Take, Goto, TypeOK
    <3>5. ASSUME NEW u \in Units, GetUnit(w, u) \/ WriteRow(w, u) PROVE FALSE
      BY <1>0, <2>2, <3>5 DEF GetUnit, WriteRow, Goto, TypeOK
    <3> QED
      BY <1>0, <1>2, <2>2, <3>1, <3>2, <3>3, <3>4, <3>5
      DEF Work, QueueEmpty, Distill, DistillFails, Check, Upsert, Fail,
          DeleteVecs, DeleteUnits, Goto, TypeOK
  <2> QED
    BY <2>1, <2>2 DEF Filled, Others
<1>3. CASE Return \/ Crash
  BY <1>3 DEF Return, Crash, Idle, Filled
<1>4. CASE UNCHANGED vars
  BY <1>4 DEF vars, work, Filled
<1> QED
  BY <1>1, <1>2, <1>3, <1>4 DEF Next

\* While a sync runs and not all its workers have stopped, one of them can take
\* its next step: if the thread is taken, the one that has it.
THEOREM SomebodyCanGo == Spec => []NobodyStuck
<1>1. Base /\ Filled => NobodyStuck
  <2> SUFFICES ASSUME Base, Filled, running, ~Finished
               PROVE  \E w \in Workers : CanGo(w)
    BY DEF NobodyStuck
  <2>0. TypeOK /\ Types
    BY DEF Base, Types
  <2>1. PICK w \in Workers : pc[w] \notin {"done", "off"}
    BY DEF Finished
  <2>2. CASE ThreadFree
    <3>1. ASSUME pc[w] = "next", Held(pending[w]) # {}
          PROVE  \E batch \in SUBSET Held(pending[w]) :
                   Cardinality(batch) = Min({BatchSize, Cardinality(Held(pending[w]))})
      <4>1. Held(pending[w]) \in SUBSET Units
        BY <2>0 DEF Held, TypeOK
      <4> DEFINE n == Min({BatchSize, Cardinality(Held(pending[w]))})
      <4>2. /\ IsFiniteSet(Held(pending[w]))
            /\ n \in 1 .. Cardinality(Held(pending[w]))
        BY <3>1, <4>1, SizeOfBatch
      <4>3. n \in Nat /\ n <= Cardinality(Held(pending[w]))
        BY <4>2, FS_CardinalityType
      <4> HIDE DEF n
      <4>4. \E batch \in SUBSET Held(pending[w]) : Cardinality(batch) = n
        BY <4>2, <4>3, SubsetOfSize
      <4> QED
        BY <4>4 DEF n
    <3>2. /\ todo[w] \subseteq Units /\ queue \subseteq Paths
          /\ pc[w] \in {"off", "take", "next", "distill", "check", "upsert", "write",
                        "writeVec", "deleteUnits", "done"}
      BY <2>0 DEF Types, TypeOK
    <3>3. CanGo(w)
      BY <2>1, <2>2, <3>1, <3>2, Zenon DEF Filled, CanGo
    <3> QED
      BY <3>3
  <2>3. CASE ~ThreadFree
    BY <2>3 DEF ThreadFree, CanGo
  <2> QED
    BY <2>2, <2>3
<1> QED
  BY <1>1, InitBase, NextBase, InitFilled, NextFilled, PTL DEF Spec

\* A step of one worker that leaves the queue, and its path if it has one: what
\* is left to show is that it is nearer the end of its file.
LEMMA NearerAdvances ==
  ASSUME Base, NEW w \in Workers, queue' = queue, path'[w] = path[w],
         pc[w] # "done", pc'[w] # "done", Others(w), Nearer(w)
  PROVE  Advances
<1>1. Busy' = Busy /\ Stopped' = Stopped
  BY DEF Busy, Stopped, Others
<1> QED
  BY <1>1 DEF Advances

\* A step that lets go of a path.
LEMMA LetGoAdvances ==
  ASSUME Base, NEW w \in Workers, queue' = queue, path[w] # None, path'[w] = None,
         Others(w)
  PROVE  Advances
<1>1. Smaller(Busy', Busy)
  BY DEF Busy, Others, Smaller
<1> QED
  BY <1>1 DEF Advances

\* Taking a path, or finding none.
LEMMA TakeAdvances ==
  ASSUME Base, NEW w \in Workers,
         QueueEmpty(w) \/ \E p \in Paths : Take(w, p) \/ TakeFails(w, p)
  PROVE  Advances
<1>0. TypeOK
  BY DEF Base, Types
<1>1. ASSUME NEW p \in Paths, Take(w, p) \/ TakeFails(w, p) PROVE Advances
  BY <1>1 DEF Take, TakeFails, Smaller, Advances
<1>2. CASE QueueEmpty(w)
  <2>1. queue' = queue /\ path' = path
    BY <1>2 DEF QueueEmpty, work
  <2>2. pc[w] = "take" /\ pc' = [pc EXCEPT ![w] = "done"]
    BY <1>2 DEF QueueEmpty, Goto
  <2>3. Stopped' = Stopped \cup {w} /\ w \notin Stopped /\ Busy' = Busy
    BY <1>0, <2>1, <2>2 DEF Stopped, Busy, TypeOK
  <2> QED
    BY <2>1, <2>3 DEF Smaller, Advances
<1> QED
  BY <1>1, <1>2

\* _process_unit: a unit is taken up, and each of its steps is the next stage.
LEMMA UnitAdvances ==
  ASSUME Base, NEW w \in Workers,
         \/ \E u \in Units : GetUnit(w, u)
         \/ Distill(w) \/ DistillFails(w) \/ Check(w) \/ Upsert(w)
  PROVE  Advances
<1>0. TypeOK /\ Types
  BY DEF Base, Types
<1>1. Others(w)
  BY WorkFrame DEF Work, Steady
<1>2. ASSUME NEW u \in Units, GetUnit(w, u) PROVE Advances
  <2>1. /\ pc[w] = "next" /\ pc'[w] \in {"distill", "check"}
        /\ todo'[w] = todo[w] \ {u} /\ u \in todo[w]
        /\ queue' = queue /\ path' = path
    BY <1>0, <1>2 DEF GetUnit, Goto, Types, TypeOK
  <2>2. Nearer(w)
    BY <2>1 DEF Nearer, Smaller
  <2> QED
    BY <1>1, <2>1, <2>2, NearerAdvances
<1>3. CASE Distill(w) \/ DistillFails(w) \/ Check(w) \/ Upsert(w)
  <2>1. queue' = queue /\ path' = path /\ todo' = todo
    BY <1>3 DEF Distill, DistillFails, Check, Upsert, work
  <2>2. \/ pc[w] = "distill" /\ pc'[w] = "check"
        \/ pc[w] = "check" /\ pc'[w] \in {"upsert", "next"}
        \/ pc[w] = "upsert" /\ pc'[w] = "next"
    BY <1>0, <1>3 DEF Distill, DistillFails, Check, Upsert, Goto, TypeOK
  <2>3. Stage(pc'[w]) < Stage(pc[w])
    BY <2>2 DEF Stage
  <2>4. Nearer(w)
    BY <2>1, <2>3 DEF Nearer
  <2> QED
    BY <1>1, <2>1, <2>2, <2>4, NearerAdvances
<1> QED
  BY <1>2, <1>3

\* The batches, their writes and the deletion of what is gone.
LEMMA StoreAdvances ==
  ASSUME Base, NEW w \in Workers,
         \/ Embed(w) \/ WriteVec(w) \/ DeleteVecs(w)
         \/ \E u \in Units : WriteRow(w, u)
  PROVE  Advances
<1>0. TypeOK /\ Types /\ Hands(w)
  BY DEF Base, Types
<1>1. Others(w)
  BY WorkFrame DEF Work, Steady
<1>2. queue' = queue /\ path' = path /\ todo' = todo
  BY DEF Embed, WriteVec, DeleteVecs, WriteRow, work
<1>3. CASE Embed(w)
  <2>1. pc[w] = "next" /\ pc'[w] = "write"
    BY <1>0, <1>3 DEF Embed, Goto, TypeOK
  <2>2. Smaller(Held(pending'[w]), Held(pending[w]))
    BY <1>3, EmbedFills
  <2>3. Stage(pc'[w]) = Stage(pc[w])
    BY <2>1 DEF Stage
  <2>4. Nearer(w)
    BY <1>2, <2>2, <2>3 DEF Nearer
  <2> QED
    BY <1>1, <1>2, <2>1, <2>4, NearerAdvances
<1>4. CASE WriteVec(w)
  <2> DEFINE u == unit[w].id
  <2>1. /\ pc[w] = "writeVec" /\ pc'[w] \in {"next", "write"} /\ pending' = pending
        /\ u \in Units /\ chunk[w][u] # None
        /\ chunk' = [chunk EXCEPT ![w] = [chunk[w] EXCEPT ![u] = None]]
    BY <1>0, <1>4 DEF WriteVec, Goto, TypeOK, Hands
  <2>2. chunk[w] \in [Units -> Rows \cup {None}] /\ chunk'[w] = [chunk[w] EXCEPT ![u] = None]
    BY <1>0, <2>1 DEF TypeOK
  <2>3. Held(chunk'[w]) \subseteq Held(chunk[w])
        /\ u \in Held(chunk[w]) /\ u \notin Held(chunk'[w])
    <3> HIDE DEF u
    <3> QED
      BY <2>1, <2>2 DEF Held
  <2>4. Smaller(Held(chunk'[w]), Held(chunk[w]))
    BY <2>3 DEF Smaller
  <2>5. Stage(pc'[w]) = Stage(pc[w])
    BY <2>1 DEF Stage
  <2>6. Nearer(w)
    BY <1>2, <2>1, <2>4, <2>5 DEF Nearer
  <2> QED
    BY <1>1, <1>2, <2>1, <2>6, NearerAdvances
<1>5. CASE DeleteVecs(w) \/ \E u \in Units : WriteRow(w, u)
  <2>1. /\ pc[w] \in {"next", "write"} /\ pc'[w] \in {"deleteUnits", "writeVec"}
        /\ pending' = pending /\ chunk' = chunk
    BY <1>0, <1>5 DEF DeleteVecs, WriteRow, Goto, TypeOK, work
  <2>2. Stage(pc'[w]) = Stage(pc[w]) /\ Opening(pc'[w]) < Opening(pc[w])
    BY <2>1 DEF Stage, Opening
  <2>3. Nearer(w)
    BY <1>2, <2>1, <2>2 DEF Nearer
  <2> QED
    BY <1>1, <1>2, <2>1, <2>3, NearerAdvances
<1> QED
  BY <1>3, <1>4, <1>5

\* The path is done, or has failed.
LEMMA LeaveAdvances ==
  ASSUME Base, NEW w \in Workers, Fail(w) \/ DeleteUnits(w)
  PROVE  Advances
<1>0. TypeOK /\ Dealt
  BY DEF Base, Types
<1>1. Others(w)
  BY WorkFrame DEF Work, Steady
<1>2. queue' = queue /\ path'[w] = None /\ pc[w] \in Raising
  BY <1>0 DEF Fail, DeleteUnits, Raising, Reset, TypeOK
<1>3. path[w] # None
  BY <1>0, <1>2 DEF Dealt, Away, Raising
<1> QED
  BY <1>1, <1>2, <1>3, LetGoAdvances

\* While a sync runs, every step that is its own brings it nearer its end,
\* failures included: with SomebodyCanGo, it comes to one.
THEOREM SyncAdvances ==
  Spec => [][running /\ running' => UNCHANGED <<queue, pc, work>> \/ Advances]_vars
<1>1. ASSUME Base, Next, running, running'
      PROVE  UNCHANGED <<queue, pc, work>> \/ Advances
  <2>1. CASE User
    BY <1>1, <2>1 DEF User, EditUnit, DeleteFile, TogglePermission, Change, ToggleLlm, Start
  <2>2. ASSUME NEW w \in Workers, Work(w) PROVE Advances
    BY <1>1, <2>2, TakeAdvances, UnitAdvances, StoreAdvances, LeaveAdvances DEF Work
  <2>3. CASE Return \/ Crash
    BY <1>1, <2>3 DEF Return, Crash
  <2> QED
    BY <1>1, <2>1, <2>2, <2>3 DEF Next
<1>2. Base /\ [Next]_vars =>
        [running /\ running' => UNCHANGED <<queue, pc, work>> \/ Advances]_vars
  BY <1>1
<1> QED
  BY <1>2, InitBase, NextBase, PTL DEF Spec
-----------------------------------------------------------------------------
(***************************************************************************)
(* Seventh layer: a sync implements Mirror.                                *)
(***************************************************************************)
\* A path that has failed is out of the queue and out of all hands.
Unfailed == failures \cap queue = {} /\ \A w \in Workers : path[w] \notin failures

\* Nothing has failed at the start.
LEMMA InitUnfailed == Init => Unfailed
  BY DEF Init, Unfailed

\* Every step keeps it.
LEMMA NextUnfailed == Base /\ Unfailed /\ [Next]_vars => Unfailed'
<1> SUFFICES ASSUME Base, Unfailed, [Next]_vars PROVE Unfailed'
  OBVIOUS
<1>0. TypeOK /\ Dealt /\ None \notin failures
  BY NoneApart DEF Base, Types, TypeOK
<1>1. CASE User \/ Return \/ Crash
  BY <1>1 DEF User, EditUnit, DeleteFile, TogglePermission, Change, ToggleLlm, Start,
              Return, Crash, Unfailed, work
<1>2. ASSUME NEW w \in Workers, Work(w) PROVE Unfailed'
  <2>1. Others(w)
    BY <1>2, WorkFrame DEF Steady
  <2>2. CASE queue' = queue /\ failures' = failures /\ path'[w] \in {path[w], None}
    BY <1>0, <2>1, <2>2 DEF Unfailed, Others
  <2>3. ASSUME NEW p \in Paths, Take(w, p) PROVE Unfailed'
    <3>1. path'[w] = p /\ p \in queue /\ queue' = queue \ {p} /\ failures' = failures
      BY <1>0, <2>3 DEF Take, TypeOK
    <3> QED
      BY <2>1, <3>1 DEF Unfailed, Others
  <2>4. ASSUME NEW p \in Paths, TakeFails(w, p) PROVE Unfailed'
    <3>1. /\ path' = path /\ p \in queue /\ queue' = queue \ {p}
          /\ failures' = failures \cup {p}
      BY <2>4 DEF TakeFails, work
    <3>2. \A v \in Workers : path[v] # p
      BY <1>0, <3>1, NoneApart DEF Dealt
    <3> QED
      BY <3>1, <3>2 DEF Unfailed
  <2>5. ASSUME Fail(w) PROVE Unfailed'
    <3>1. /\ path' = [path EXCEPT ![w] = None] /\ queue' = queue
          /\ failures' = failures \cup {path[w]} /\ pc[w] \in Raising
      BY <2>5 DEF Fail, Reset
    <3>2. path[w] # None /\ path[w] \notin queue
      BY <1>0, <3>1 DEF Dealt, Away, Raising
    <3>3. \A v \in Workers : path'[v] # path[w]
      BY <1>0, <3>1, <3>2 DEF Dealt, TypeOK
    <3>4. \A v \in Workers : path'[v] \notin failures
      BY <1>0, <3>1 DEF Unfailed, TypeOK
    <3> QED
      BY <3>1, <3>2, <3>3, <3>4 DEF Unfailed
  <2>6. CASE \/ QueueEmpty(w) \/ (\E u \in Units : GetUnit(w, u) \/ WriteRow(w, u))
             \/ Distill(w) \/ DistillFails(w) \/ Check(w) \/ Upsert(w) \/ Embed(w)
             \/ WriteVec(w) \/ DeleteVecs(w)
    BY <2>2, <2>6 DEF QueueEmpty, GetUnit, WriteRow, Distill, DistillFails, Check,
                      Upsert, Embed, WriteVec, DeleteVecs, work
  <2>7. CASE DeleteUnits(w)
    BY <1>0, <2>2, <2>7 DEF DeleteUnits, Reset, TypeOK
  <2> QED
    BY <1>2, <2>3, <2>4, <2>5, <2>6, <2>7 DEF Work
<1>3. CASE UNCHANGED vars
  BY <1>3 DEF vars, Unfailed, work
<1> QED
  BY <1>1, <1>2, <1>3 DEF Next

\* What is excused are files.
LEMMA ExcusedFiles ==
  ASSUME Excused \subseteq Files, [Next]_vars
  PROVE  Excused' \subseteq Files
<1>0. /\ touched \subseteq Files /\ unread \subseteq Files
      /\ \A u \in Units : FileOf[u] \in Files
      /\ \A p \in Paths : StoredPath[p] \in Files
  BY SyncAssumption DEF Excused
<1>1. touched' \subseteq Files
  <2>1. CASE User
    <3>1. ASSUME NEW f \in Files, Change({f}) PROVE touched' \subseteq Files
      BY <1>0, <3>1 DEF Change
    <3>2. ASSUME NEW u \in Units, NEW text \in Texts \cup {None}, EditUnit(u, text)
          PROVE  touched' \subseteq Files
      BY <1>0, <3>1, <3>2 DEF EditUnit
    <3>3. ASSUME NEW f \in Files, DeleteFile(f) \/ TogglePermission(f)
          PROVE  touched' \subseteq Files
      BY <3>1, <3>3 DEF DeleteFile, TogglePermission
    <3>4. CASE ToggleLlm
      BY <1>0, <3>4 DEF ToggleLlm, noted
    <3>5. ASSUME NEW paths \in SUBSET Paths, NEW f \in BOOLEAN, Start(paths, f)
          PROVE  touched' \subseteq Files
      BY <3>5 DEF Start
    <3> QED
      BY <2>1, <3>2, <3>3, <3>4, <3>5 DEF User
  <2>2. ASSUME NEW w \in Workers, Work(w) PROVE touched' = touched
    BY <2>2 DEF Work, Take, TakeFails, QueueEmpty, GetUnit, Distill, DistillFails, Check,
       Fail, Upsert, Embed, WriteRow, WriteVec, DeleteVecs,
       DeleteUnits, noted
  <2> QED
    BY <1>0, <2>1, <2>2 DEF Next, Return, Crash, vars, noted
<1>2. unread' \subseteq Files
  <2>1. CASE User
    BY <1>0, <2>1 DEF User, EditUnit, DeleteFile, TogglePermission, Change, ToggleLlm,
                      Start, noted
  <2>2. ASSUME NEW w \in Workers, NEW p \in Paths, Take(w, p) PROVE unread' \subseteq Files
    BY <1>0, <2>2 DEF Take
  <2>3. ASSUME NEW w \in Workers, Work(w), \A p \in Paths : ~Take(w, p)
        PROVE  unread' = unread
    BY <2>3 DEF Work, TakeFails, QueueEmpty, GetUnit, Distill, DistillFails, Check,
       Fail, Upsert, Embed, WriteRow, WriteVec, DeleteVecs,
       DeleteUnits, noted
  <2> QED
    BY <1>0, <2>1, <2>2, <2>3 DEF Next, Return, Crash, vars, noted
<1> QED
  BY <1>1, <1>2 DEF Excused

\* Before the first sync.
LEMMA InitMirror == Init => Disk!Init
<1> SUFFICES ASSUME Init PROVE Disk!Init
  OBVIOUS
<1>1. Indexed = [u \in Units |-> None] /\ Held(vec) = {}
  BY DEF Init, Indexed, Stored, Held, Nothing
<1>2. Phase = "off" /\ Due = {} /\ Excused = {}
  BY DEF Init, Phase, Due, Excused
<1> QED
  BY <1>1, <1>2 DEF Init, Disk!Init

\* What the user does to the files, and the beginning of a sync.
LEMMA UserMirror ==
  ASSUME Whole, User
  PROVE  Disk!Next \/ UNCHANGED Disk!mirrorVars
<1>0. TypeOK /\ Base /\ Dealt /\ \A u \in Units : FileOf[u] \in Files
  BY SyncAssumption DEF Whole, Base, Types
<1>1. ASSUME UNCHANGED <<tables, call, queue, failures, pc>>
      PROVE  UNCHANGED <<Indexed, Held(vec), Phase, Due>>
  BY <1>1 DEF tables, call, Indexed, Phase, Due, Finished
<1>2. ASSUME NEW f \in Files, UNCHANGED <<tables, call, queue, failures, pc, unread>>,
             source' \in [Units -> Texts \cup {None}],
             \A u \in Units : FileOf[u] # f => source'[u] = source[u],
             touched' = IF running THEN touched \cup {f} ELSE touched
      PROVE  Disk!Next
  <2>1. Excused' = IF Phase = "off" THEN Excused ELSE Excused \cup {f}
    BY <1>0, <1>2 DEF Excused, Phase, TypeOK
  <2>2. UNCHANGED <<Indexed, Held(vec), Phase, Due>>
    BY <1>1, <1>2
  <2>3. Disk!Change({f})
    BY <1>2, <2>1, <2>2 DEF Disk!Change
  <2> QED
    BY <1>2, <2>3 DEF Disk!Next
<1>3. ASSUME NEW u \in Units, NEW text \in Texts \cup {None}, EditUnit(u, text)
      PROVE  Disk!Next
  <2>1. /\ UNCHANGED <<tables, call, queue, failures, pc, unread>>
        /\ source' = [source EXCEPT ![u] = text]
        /\ touched' = IF running THEN touched \cup {FileOf[u]} ELSE touched
    BY <1>3 DEF EditUnit, Change
  <2>2. /\ source' \in [Units -> Texts \cup {None}]
        /\ \A x \in Units : FileOf[x] # FileOf[u] => source'[x] = source[x]
    BY <1>0, <2>1 DEF TypeOK
  <2> QED
    BY <1>0, <1>2, <2>1, <2>2
<1>4. ASSUME NEW f \in Files, DeleteFile(f) PROVE Disk!Next
  <2>1. /\ UNCHANGED <<tables, call, queue, failures, pc, unread>>
        /\ source' = [u \in Units |-> IF FileOf[u] = f THEN None ELSE source[u]]
        /\ touched' = IF running THEN touched \cup {f} ELSE touched
    BY <1>4 DEF DeleteFile, Change
  <2>2. /\ source' \in [Units -> Texts \cup {None}]
        /\ \A x \in Units : FileOf[x] # f => source'[x] = source[x]
    BY <1>0, <2>1 DEF TypeOK
  <2> QED
    BY <1>2, <2>1, <2>2
<1>5. ASSUME NEW f \in Files, TogglePermission(f) PROVE Disk!Next
  <2>1. /\ UNCHANGED <<source, tables, call, queue, failures, pc, unread>>
        /\ touched' = IF running THEN touched \cup {f} ELSE touched
    BY <1>5 DEF TogglePermission, Change
  <2> QED
    BY <1>0, <1>2, <2>1 DEF TypeOK
<1>6. CASE ToggleLlm
  BY <1>1, <1>6 DEF ToggleLlm, tree, noted, Disk!mirrorVars, Excused
<1>7. ASSUME NEW paths \in SUBSET Paths, NEW f \in BOOLEAN, Start(paths, f)
      PROVE  Disk!Next
  <2>1. /\ running = FALSE /\ running' = TRUE /\ asked' = paths /\ failures' = {}
        /\ touched' = {} /\ unread' = {} /\ UNCHANGED <<tree, tables>>
        /\ \E w \in Workers : pc'[w] = "take"
    <3>1. PICK team \in SUBSET Workers :
            /\ Cardinality(team) = Min({Cardinality(paths), Cardinality(Workers)})
            /\ pc' = [w \in Workers |-> IF w \in team THEN "take" ELSE "off"]
      BY <1>7 DEF Start
    <3>2. team # {}
      BY <1>7, <3>1, TeamIsNotEmpty DEF Start
    <3>3. running = FALSE
      BY <1>0, <1>7 DEF Start, TypeOK
    <3> QED
      BY <1>7, <3>1, <3>2, <3>3 DEF Start
  <2> DEFINE files == {StoredPath[p] : p \in paths}
  <2>2. files \in SUBSET Files
    BY SyncAssumption
  <2>3. Phase = "off" /\ Phase' = "on" /\ Due' = files /\ Excused' = {}
    BY <2>1 DEF Phase, Finished, Due, Excused
  <2>4. UNCHANGED <<source, Indexed, Held(vec)>>
    BY <2>1 DEF tree, tables, Indexed
  <2>5. Disk!Begin(files)
    BY <2>3, <2>4 DEF Disk!Begin
  <2> QED
    BY <2>2, <2>5 DEF Disk!Next
<1> QED
  BY <1>3, <1>4, <1>5, <1>6, <1>7 DEF User

\* A unit that a worker has parsed, or does not find, is of a file that is due.
LEMMA HandIsDue ==
  ASSUME Whole, Unfailed, NEW w \in Workers, path[w] # None
  PROVE  StoredPath[path[w]] \in Due
<1>1. path[w] \in asked \ failures
  BY DEF Whole, Base, Dealt, Unfailed
<1> QED
  BY <1>1 DEF Due

\* What a step of a worker does to one unit, in the terms of Mirror.
Moves(u) ==
    /\ Stored(row'[u]) # Stored(row[u]) =>
         /\ FileOf[u] \in Due
         /\ Clean(FileOf[u]) => Stored(row'[u]) = source[u]
    /\ vec[u] # None /\ vec'[u] = None =>
         FileOf[u] \in Due /\ (Clean(FileOf[u]) => source[u] = None)
    /\ vec[u] = None /\ vec'[u] # None =>
         FileOf[u] \in Due /\ (Clean(FileOf[u]) => Stored(row'[u]) = source[u])

\* The text that a worker stores is what it has parsed.
LEMMA StoredText ==
  ASSUME NEW r \in Rows, NEW text \in Texts, Copies(r, text)
  PROVE  Stored(r) = text
  BY NoneApart DEF Stored, Copies, Texts

\* Every step of a worker moves every unit so.
LEMMA WorkMoves ==
  ASSUME Whole, Unfailed, NEW w \in Workers, Work(w), NEW u \in Units
  PROVE  Moves(u)
<1>0. TypeOK /\ Types /\ Base /\ Dealt /\ Hands(w) /\ Paired
  BY DEF Whole, Base, Types
<1>1. ASSUME UNCHANGED tables PROVE Moves(u)
  BY <1>1 DEF Moves, tables
<1>2. ASSUME NEW x \in Units, snap[w][x] # None
      PROVE  /\ FileOf[x] \in Due /\ snap[w][x] \in Texts
             /\ Clean(FileOf[x]) => snap[w][x] = source[x]
  <2>1. path[w] # None /\ FileOf[x] = StoredPath[path[w]]
    BY <1>0, <1>2 DEF Hands, Nothing
  <2>2. FileOf[x] \in Due
    BY <2>1, HandIsDue
  <2>3. snap[w][x] \in Texts
    BY <1>0, <1>2 DEF TypeOK
  <2> QED
    BY <1>2, <2>2, <2>3, SnapIsSource
<1>3. CASE Upsert(w)
  <2> DEFINE x == unit[w].id
             new == [code |-> snap[w][x].code, doc |-> snap[w][x].doc,
                     summary |-> unit[w].summary]
  <2>1. x \in Units /\ snap[w][x] # None /\ unit[w] \in Hand
    BY <1>0, <1>3 DEF Upsert, Hands, Deciding, Hand
  <2>2. new \in Rows /\ Copies(new, snap[w][x])
    BY <1>2, <2>1 DEF Texts, Rows, Hand, Copies
  <2>3. Stored(new) = snap[w][x]
    BY <1>2, <2>1, <2>2, StoredText
  <2>4. vec' = vec /\ row' = [row EXCEPT ![x] = new]
    BY <1>3 DEF Upsert
  <2> HIDE DEF new, x
  <2>5. row'[u] = IF u = x THEN new ELSE row[u]
    BY <1>0, <2>1, <2>4 DEF TypeOK
  <2> QED
    BY <1>2, <2>1, <2>3, <2>4, <2>5 DEF Moves
<1>4. ASSUME NEW x \in Units, WriteRow(w, x) PROVE Moves(u)
  <2>1. chunk[w][x] # None /\ chunk[w][x] \in Rows /\ Copies(chunk[w][x], snap[w][x])
    BY <1>0, <1>4 DEF WriteRow, TypeOK, Hands
  <2>2. snap[w][x] # None
    BY <2>1 DEF Copies
  <2>3. Stored(chunk[w][x]) = snap[w][x]
    BY <1>2, <2>1, <2>2, StoredText
  <2>4. vec' = vec /\ row'[u] = IF u = x THEN chunk[w][x] ELSE row[u]
    BY <1>0, <1>4 DEF WriteRow, TypeOK
  <2> QED
    BY <1>2, <2>2, <2>3, <2>4 DEF Moves
<1>5. CASE WriteVec(w)
  <2> DEFINE x == unit[w].id
  <2>1. /\ x \in Units /\ chunk[w][x] # None /\ chunk[w][x] \in Rows
        /\ Copies(chunk[w][x], snap[w][x]) /\ row[x] = chunk[w][x]
    BY <1>0, <1>5 DEF WriteVec, TypeOK, Hands, Paired
  <2>2. snap[w][x] # None
    BY <2>1 DEF Copies
  <2>3. Stored(row[x]) = snap[w][x]
    BY <1>2, <2>1, <2>2, StoredText
  <2>4. EmbeddingText(chunk[w][x]) \in Vectors
    BY <2>1 DEF EmbeddingText, Rows, Vectors, Truthy
  <2>5. row' = row /\ vec' = [vec EXCEPT ![x] = EmbeddingText(chunk[w][x])]
    BY <1>5 DEF WriteVec
  <2> HIDE DEF x
  <2>6. vec'[u] = IF u = x THEN EmbeddingText(chunk[w][x]) ELSE vec[u]
    BY <1>0, <2>1, <2>5 DEF TypeOK
  <2> QED
    BY <1>2, <2>1, <2>2, <2>3, <2>4, <2>5, <2>6, NoneApart DEF Moves
<1>6. ASSUME DeleteVecs(w) \/ DeleteUnits(w), u \in Gone(w)
      PROVE  FileOf[u] \in Due /\ (Clean(FileOf[u]) => source[u] = None)
  <2>1. path[w] # None
    BY <1>0, <1>6 DEF DeleteVecs, DeleteUnits, Dealt, Away
  <2> QED
    BY <1>6, <2>1, HandIsDue, GoneIsGone DEF Gone
<1>7. CASE DeleteVecs(w)
  <2>1. row' = row
    BY <1>7 DEF DeleteVecs
  <2>2. vec'[u] = vec[u] \/ (u \in Gone(w) /\ vec'[u] = None)
    BY <1>0, <1>7 DEF DeleteVecs, TypeOK
  <2> QED
    BY <1>6, <1>7, <2>1, <2>2 DEF Moves
<1>8. CASE DeleteUnits(w)
  <2>1. vec' = vec
    BY <1>8 DEF DeleteUnits
  <2>2. row'[u] = row[u] \/ (u \in Gone(w) /\ row'[u] = None)
    BY <1>0, <1>8 DEF DeleteUnits, TypeOK
  <2>3. Stored(None) = None
    BY DEF Stored
  <2> QED
    BY <1>6, <1>8, <2>1, <2>2, <2>3 DEF Moves
<1>9. ASSUME NEW p \in Paths, Take(w, p) \/ TakeFails(w, p) PROVE UNCHANGED tables
  BY <1>9 DEF Take, TakeFails
<1>10. ASSUME NEW x \in Units, GetUnit(w, x) PROVE UNCHANGED tables
  BY <1>10 DEF GetUnit
<1>11. CASE \/ QueueEmpty(w) \/ Distill(w) \/ DistillFails(w) \/ Check(w)
            \/ Embed(w) \/ Fail(w)
  BY <1>1, <1>11 DEF QueueEmpty, Distill, DistillFails, Check, Embed, Fail
<1> QED
  BY <1>1, <1>3, <1>4, <1>5, <1>7, <1>8, <1>9, <1>10, <1>11 DEF Work

\* What a sync whose workers have all stopped owes.
Promise ==
    Finished => \A u \in Units : FileOf[u] \in Due \ Excused => Disk!Current(u)

\* It has kept that promise.
LEMMA DoneIsCurrent == Whole => Promise
<1> SUFFICES ASSUME Whole, Finished, NEW u \in Units, FileOf[u] \in Due \ Excused
             PROVE  Disk!Current(u)
  BY DEF Promise
<1>0. TypeOK /\ Dealt
  BY DEF Whole, Base, Types
<1>1. PICK p \in asked \ failures : StoredPath[p] = FileOf[u]
  BY DEF Due
<1>2. Clean(FileOf[u]) /\ p \in Paths
  BY <1>0 DEF Excused, Clean, TypeOK
<1>3. queue = {} /\ \A w \in Workers : path[w] = None
  BY <1>0 DEF Finished, Dealt, Away
<1>4. Finish(p)
  BY <1>1, <1>2, <1>3, NoneApart DEF Finish
<1>5. Current(u)
  BY <1>1, <1>2, <1>4 DEF Whole, Progressed
<1>6. source[u] \in Texts \cup {None} /\ row[u] \in Rows \cup {None}
  BY <1>0 DEF TypeOK
<1>7. Stored(row[u]) = source[u]
  <2>1. CASE source[u] = None
    BY <1>5, <2>1 DEF Current, Stored
  <2>2. CASE source[u] # None
    <3>1. row[u] \in Rows /\ source[u] \in Texts /\ Copies(row[u], source[u])
      BY <1>5, <1>6, <2>2 DEF Current, Copies
    <3> QED
      BY <3>1, StoredText
  <2> QED
    BY <2>1, <2>2
<1>8. u \in Held(vec) <=> source[u] # None
  BY <1>0, <1>5 DEF Current, Held, TypeOK
<1> QED
  BY <1>7, <1>8 DEF Disk!Current, Indexed

\* What a step of a worker does to the call: nobody is asked for more, and
\* what failed has failed.
LEMMA WorkCall ==
  ASSUME Whole, Excused \subseteq Files, NEW w \in Workers, Work(w)
  PROVE  /\ UNCHANGED <<source, running, asked>> /\ running = TRUE
         /\ failures \subseteq failures' /\ failures' \subseteq asked
         /\ Excused \subseteq Excused' /\ Excused' \in SUBSET Files
         /\ ~Finished
<1>0. TypeOK /\ Base /\ Dealt
  BY DEF Whole, Base, Types
<1>1. UNCHANGED <<source, running, asked, touched>> /\ unread \subseteq unread'
  BY <1>0, WorkFrame DEF Steady, tree, call
<1>2. pc[w] \notin {"off", "done"}
  BY DEF Work, Take, TakeFails, QueueEmpty, GetUnit, Distill, DistillFails, Check,
         Fail, Raising, Upsert, Embed, WriteRow, WriteVec, DeleteVecs, DeleteUnits
<1>3. running = TRUE /\ ~Finished
  BY <1>0, <1>2 DEF Dealt, Finished, TypeOK
<1>4. failures \subseteq failures'
  BY DEF Work, Take, TakeFails, QueueEmpty, GetUnit, Distill, DistillFails, Check, Fail,
         Fail, Upsert, Embed, WriteRow, WriteVec, DeleteVecs, DeleteUnits
<1>5. failures' \subseteq asked
  <2>1. Base'
    BY <1>0, NextBase DEF Next
  <2> QED
    BY <1>1, <2>1 DEF Base, Types, TypeOK
<1>6. Excused' \subseteq Files
  BY ExcusedFiles DEF Next
<1> QED
  BY <1>1, <1>3, <1>4, <1>5, <1>6 DEF Excused

\* A worker's step is a step of Mirror's work, or the one that completes it.
LEMMA WorkMirror ==
  ASSUME Whole, Whole', Promise', Unfailed, Excused \subseteq Files,
         NEW w \in Workers, Work(w)
  PROVE  Disk!Next
<1>0. TypeOK /\ TypeOK'
  BY DEF Whole, Base, Types
<1>1. /\ UNCHANGED <<source, running, asked>> /\ running = TRUE /\ ~Finished
      /\ failures \subseteq failures' /\ failures' \subseteq asked
      /\ Excused \subseteq Excused' /\ Excused' \in SUBSET Files
  BY WorkCall
<1>2. Phase = "on" /\ Phase' = IF Finished' THEN "over" ELSE "on"
  BY <1>1 DEF Phase
<1>3. Due' \subseteq Due
  BY <1>1 DEF Due
<1>4. CASE ~Finished'
  <2>1. ASSUME NEW u \in Units
        PROVE  /\ FileOf[u] \notin Due => /\ Indexed'[u] = Indexed[u]
                                          /\ u \in Held(vec) <=> u \in Held(vec')
               /\ FileOf[u] \notin Excused' => Disk!Refresh(u)
    <3>1. Moves(u)
      BY WorkMoves
    <3>2. /\ Indexed[u] = Stored(row[u]) /\ Indexed'[u] = Stored(row'[u])
          /\ u \in Held(vec) <=> vec[u] # None
          /\ u \in Held(vec') <=> vec'[u] # None
      BY <1>0 DEF Indexed, Held, TypeOK
    <3>3. FileOf[u] \notin Excused' => Clean(FileOf[u])
      BY <1>1 DEF Excused, Clean
    <3> QED
      BY <3>1, <3>2, <3>3 DEF Moves, Disk!Refresh
  <2>2. Disk!Work
    BY <1>1, <1>2, <1>3, <1>4, <2>1 DEF Disk!Work
  <2> QED
    BY <2>2 DEF Disk!Next
<1>5. CASE Finished'
  <2>1. QueueEmpty(w)
    <3>1. pc'[w] \in {"done", "off"}
      BY <1>5 DEF Finished
    <3>2. ASSUME NEW p \in Paths, Take(w, p) \/ TakeFails(w, p) PROVE FALSE
      BY <1>0, <3>1, <3>2 DEF Take, TakeFails, Goto, TypeOK
    <3>3. ASSUME NEW u \in Units, GetUnit(w, u) \/ WriteRow(w, u) PROVE FALSE
      BY <1>0, <3>1, <3>3 DEF GetUnit, WriteRow, Goto, TypeOK
    <3> QED
      BY <1>0, <3>1, <3>2, <3>3
      DEF Work, Distill, DistillFails, Check, Upsert, Embed, Fail,
          WriteVec, DeleteVecs, DeleteUnits, Goto, TypeOK
  <2>2. UNCHANGED <<tables, call, failures, noted, source>>
    BY <2>1 DEF QueueEmpty, tree
  <2>3. UNCHANGED <<source, Indexed, Held(vec), Due, Excused>>
    BY <2>2 DEF tables, call, noted, Indexed, Due, Excused
  <2>4. ASSUME NEW u \in Units, FileOf[u] \in Due \ Excused PROVE Disk!Current(u)
    <3>1. FileOf[u] \in Due' \ Excused'
      BY <2>3, <2>4
    <3>2. Disk!Current(u)'
      BY <1>5, <3>1 DEF Promise
    <3> QED
      BY <2>3, <3>2 DEF Disk!Current
  <2>5. Disk!Complete
    BY <1>2, <1>5, <2>3, <2>4 DEF Disk!Complete
  <2> QED
    BY <2>5 DEF Disk!Next
<1> QED
  BY <1>4, <1>5

\* The call returns, or the process stops.
LEMMA EndMirror ==
  ASSUME Whole, Return \/ Crash
  PROVE  Disk!Next
<1>1. /\ running /\ running' = FALSE /\ asked' = {} /\ UNCHANGED <<source, tables, touched, unread>>
  BY DEF Return, Crash, Finished, tree, noted
<1>2. Phase # "off" /\ Phase' = "off" /\ Due' = {}
  BY <1>1 DEF Phase, Due
<1>3. UNCHANGED <<source, Indexed, Held(vec), Excused>>
  BY <1>1 DEF tables, Indexed, Excused
<1>4. Disk!End
  BY <1>2, <1>3 DEF Disk!End
<1> QED
  BY <1>4 DEF Disk!Next

\* Step by step.
LEMMA NextMirror ==
  Whole /\ Whole' /\ Promise' /\ Unfailed /\ Excused \subseteq Files /\ [Next]_vars
    => [Disk!Next]_(Disk!mirrorVars)
<1> SUFFICES ASSUME Whole, Whole', Promise', Unfailed, Excused \subseteq Files, [Next]_vars
             PROVE  Disk!Next \/ UNCHANGED Disk!mirrorVars
  OBVIOUS
<1>1. CASE User
  BY <1>1, UserMirror
<1>2. ASSUME NEW w \in Workers, Work(w) PROVE Disk!Next
  BY <1>2, WorkMirror
<1>3. CASE Return \/ Crash
  BY <1>3, EndMirror
<1>4. CASE UNCHANGED vars
  <2>1. UNCHANGED <<Indexed, Held(vec), Phase, Due, Excused, source>>
    BY <1>4 DEF vars, tables, tree, call, noted, Indexed, Phase, Finished, Due, Excused
  <2> QED
    BY <2>1 DEF Disk!mirrorVars
<1> QED
  BY <1>1, <1>2, <1>3, <1>4 DEF Next

\* A sync, with any number of workers, edits, failures and stops, implements
\* Mirror: it changes only files it was asked for and has not given up, those
\* nobody edits only towards what is on disk, and is over only when they are.
THEOREM SyncMirrors == Spec => MirrorsDisk
<1>1. Init => Whole /\ Unfailed /\ Excused \subseteq Files /\ Disk!Init
  <2>1. Init => Excused \subseteq Files
    BY DEF Init, Excused
  <2> QED
    BY <2>1, InitBase, InitPaired, InitFresh, InitProgressed, InitUnfailed, InitMirror
    DEF Whole
<1>2. Whole /\ [Next]_vars => Whole'
  BY NextBase, NextPaired, NextFresh, NextProgressed DEF Whole
<1>3. Whole /\ Unfailed /\ [Next]_vars => Unfailed'
  BY NextUnfailed DEF Whole
<1>4. Excused \subseteq Files /\ [Next]_vars => (Excused \subseteq Files)'
  BY ExcusedFiles
<1> QED
  BY <1>1, <1>2, <1>3, <1>4, DoneIsCurrent, NextMirror, PTL DEF Spec, MirrorsDisk, Disk!Spec
=============================================================================
