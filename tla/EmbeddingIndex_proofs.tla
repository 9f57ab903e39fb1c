------------------------ MODULE EmbeddingIndex_proofs ------------------------
(***************************************************************************)
(* Proofs about EmbeddingIndex, for every set of units and embedders and   *)
(* every naming and width of them.                                         *)
(***************************************************************************)
EXTENDS EmbeddingIndex, TLAPS

(***************************************************************************)
(* The inductive invariant: the properties, and what each step of a        *)
(* session knows about the file and about the steps before it.             *)
(***************************************************************************)
Open      == pc \notin {"idle", "dropTable", "deleteMeta", "refreshDirty"}
BindSteps == {"bind", "inferDim", "inferModel", "bindTarget", "probe",
              "create", "setDim", "setModel"}
Unbound   == BindSteps \cup {"idle", "dropTable", "deleteMeta", "refreshDirty",
                             "ready"}
Writing   == {"embed", "write", "writeVec"}

\* Which step runs in which kind of session, for which purpose.
SessionShape ==
    /\ pc = "idle" => mode = "ro" /\ ~wipe
    /\ (wipe /\ pc \in {"refreshDirty", "ready"}) => width = 0
    /\ (wipe /\ pc # "dropTable") => \A u \in Units : ~Stored(u)
    /\ pc = "deleteMeta" => width = 0
    /\ pc \in Unbound => ~isBound
    /\ isBound => ~wipe
    /\ pc \in BindSteps => (mode = "ro" <=> goal = "search") /\ goal # "none"
    /\ pc \in Writing => isBound /\ goal \in {"reembed", "file"}
    /\ pc = "markSynced" => goal = "reembed"
    /\ pc \in {"deleteVecs", "deleteUnits"} => goal = "file"
    /\ pc \in {"idle", "dropTable", "deleteMeta", "refreshDirty", "ready",
               "files"} => goal = "none"
    /\ pc = "files" => ~dirty /\ mode = "rw"
    /\ pc = "query" => goal = "search"
    /\ goal \in {"reembed", "file"} => mode = "rw"
    /\ goal = "reembed" => dirty
    /\ goal = "file" => ~dirty

\* What the steps of ensure_embeddings_bound have established so far.
BindShape ==
    /\ pc \in {"inferDim", "inferModel", "bindTarget"} => width # 0
    /\ pc \in {"inferDim", "inferModel"} => mode = "rw"
    /\ pc = "inferModel" => metaDim # 0
    /\ (pc \in {"probe", "bindTarget", "create"} /\ mode = "ro") => width # 0
    /\ (pc \in {"probe", "bindTarget", "create"} /\ mode = "rw"
          /\ metaModel = NoModel) => width = 0 \/ wipe
    /\ pc = "create" => bound # 0
    /\ pc \in {"setDim", "setModel"} => width = bound /\ width # 0 /\ mode = "rw"
    /\ pc = "setModel" => metaModel = NoModel /\ metaDim # 0
    /\ (pc \in {"setDim", "setModel"} /\ metaModel = NoModel) =>
         \A u \in Units : ~Stored(u)
    /\ (isBound /\ mode = "rw") => metaDim # 0 /\ metaModel # NoModel
    /\ pc \in {"write", "writeVec"} => bound = Dim[emb]

\* What index_meta says while it is incomplete or its table is missing.
MetaShape ==
    /\ (width = 0 /\ metaDim # 0) => dimDoubt
    /\ (width = 0 /\ metaModel # NoModel) => doubt # {}
    /\ (metaDim = 0 \/ metaModel = NoModel \/ pc \in {"inferDim", "inferModel"}) =>
         \A u \in Units : Stored(u) => IsLocal(vec[u])

\* What embedding_model_dirty says about the name in index_meta.
DirtyShape ==
    /\ (Open /\ dirty) => width # 0
    /\ (Open /\ ~dirty /\ doubt = {}) =>
         IF width = 0 THEN metaModel = NoModel
         ELSE \/ metaModel = ModelId[emb]
              \/ metaModel = NoModel /\ (IsLocal(emb) \/ \A u \in Units : ~Stored(u))

\* Which units of the current batch are written, and which are still to do.
WorkShape ==
    /\ pc = "writeVec" => \E u \in rows : cur = {u}
    /\ pc # "writeVec" => cur = {}
    /\ pc \notin {"write", "writeVec"} => chunk = {}
    /\ pc = "markSynced" => todo = {}
    /\ pc = "deleteUnits" => \A u \in stale : ~Stored(u)
    /\ goal = "reembed" =>
         \A u \in rows : u \in todo \cup chunk \cup cur \/ vec[u] = emb

IInv ==
    /\ TypeOK
    /\ NoOrphanVector
    /\ WidthAgreement
    /\ DimensionAgrees
    /\ LabelNamesVectors
    /\ DirtyTellsVectors
    /\ SessionShape
    /\ BindShape
    /\ MetaShape
    /\ DirtyShape
    /\ WorkShape
-----------------------------------------------------------------------------
(***************************************************************************)
(* Type correctness.                                                       *)
(***************************************************************************)
\* An empty and a legacy index file, with no session open, are well typed.
LEMMA InitType == Init => TypeOK
<1> SUFFICES ASSUME Init PROVE TypeOK
  OBVIOUS
<1>1. vec \in [Units -> Embedders \cup {NoVec}] /\ rows \in SUBSET Units
  BY DEF Init, EmptyFile, LegacyFile
<1>2. width \in Nat
  BY ConstantsAssumption DEF Init, EmptyFile, LegacyFile
<1>3. emb \in Embedders /\ bound \in Nat
  BY ConstantsAssumption DEF Init, FreshBound
<1>4. /\ metaDim \in Nat /\ metaModel \in ModelIds \cup {NoModel}
      /\ doubt \in SUBSET {"wipe", "reembed", "infer"} /\ dimDoubt \in BOOLEAN
  BY DEF Init
<1>5. /\ pc \in Steps /\ mode \in {"ro", "rw"} /\ all \in BOOLEAN
      /\ wipe \in BOOLEAN /\ dirty \in BOOLEAN /\ isBound \in BOOLEAN
      /\ goal \in {"none", "search", "reembed", "file"}
      /\ todo \in SUBSET Units /\ chunk \in SUBSET Units
      /\ cur \in SUBSET Units /\ stale \in SUBSET Units
  BY DEF Init, NoSession, NoWork, Steps
<1> QED
  BY <1>1, <1>2, <1>3, <1>4, <1>5 DEF TypeOK

\* Every statement and every failure of a session keeps the types.
LEMMA TypeStep == TypeOK /\ [Next]_vars => TypeOK'
<1> SUFFICES ASSUME TypeOK, [Next]_vars PROVE TypeOK'
  OBVIOUS
<1> USE ConstantsAssumption DEF TypeOK, Steps, index, history, embVars, work, opened
<1>1. ASSUME NEW e \in Embedders, Configure(e)
      PROVE  TypeOK'
  BY <1>1 DEF Configure, FreshBound
<1>2. ASSUME Crash PROVE TypeOK'
  BY <1>2 DEF Crash, EndSession, FreshBound
<1>3. ASSUME NEW a \in BOOLEAN, NEW w \in BOOLEAN, OpenReadWrite(a, w)
      PROVE  TypeOK'
  BY <1>3 DEF OpenReadWrite
<1>4. ASSUME OpenReadOnly PROVE TypeOK'
  BY <1>4 DEF OpenReadOnly
<1>5. ASSUME DropTable PROVE TypeOK'
  BY <1>5 DEF DropTable
<1>6. ASSUME DeleteMeta PROVE TypeOK'
  BY <1>6 DEF DeleteMeta
<1>7. ASSUME RefreshDirty PROVE TypeOK'
  BY <1>7 DEF RefreshDirty, DirtyFromMeta
<1>8. ASSUME Close PROVE TypeOK'
  BY <1>8 DEF Close, EndSession
<1>9. ASSUME StartSearch PROVE TypeOK'
  BY <1>9 DEF StartSearch
<1>10. ASSUME StartReembed PROVE TypeOK'
  BY <1>10 DEF StartReembed
<1>11. ASSUME StartFiles PROVE TypeOK'
  BY <1>11 DEF StartFiles
<1>12. ASSUME NEW new \in SUBSET Units, NEW gone \in SUBSET Units, StartFile(new, gone)
      PROVE  TypeOK'
  BY <1>12 DEF StartFile
<1>13. ASSUME BindMissing PROVE TypeOK'
  BY <1>13 DEF BindMissing, Fail, EndSession
<1>14. ASSUME BindCorrupt PROVE TypeOK'
  BY <1>14 DEF BindCorrupt, Fail, EndSession
<1>15. ASSUME BindDecide PROVE TypeOK'
  BY <1>15 DEF BindDecide
<1>16. ASSUME InferDim PROVE TypeOK'
  BY <1>16 DEF InferDim
<1>17. ASSUME InferModel PROVE TypeOK'
  BY <1>17 DEF InferModel, ModelIds
<1>18. ASSUME BindTarget PROVE TypeOK'
  <2>1. CASE bound \in {0, width}
    BY <1>18, <2>1 DEF BindTarget
  <2>2. CASE bound \notin {0, width}
    <3>1. CASE goal = "file"
      BY <1>18, <2>2, <3>1 DEF BindTarget, Fail
    <3>2. CASE goal # "file"
      BY <1>18, <2>2, <3>2 DEF BindTarget, Fail, EndSession
    <3> QED
      BY <3>1, <3>2
  <2> QED
    BY <2>1, <2>2
<1>19. ASSUME Probe PROVE TypeOK'
  BY <1>19 DEF Probe
<1>20. ASSUME ProbeFails PROVE TypeOK'
  BY <1>20 DEF ProbeFails, Fail, EndSession
<1>21. ASSUME CreateMismatch PROVE TypeOK'
  BY <1>21 DEF CreateMismatch, Fail, EndSession
<1>22. ASSUME Create PROVE TypeOK'
  BY <1>22 DEF Create, Bound
<1>23. ASSUME SetDim PROVE TypeOK'
  BY <1>23 DEF SetDim, Bound
<1>24. ASSUME SetModel PROVE TypeOK'
  BY <1>24 DEF SetModel, Bound, ModelIds
<1>25. ASSUME Embed PROVE TypeOK'
  BY <1>25 DEF Embed
<1>26. ASSUME EmbedFails PROVE TypeOK'
  BY <1>26 DEF EmbedFails, Fail, EndSession
<1>27. ASSUME NEW u \in Units, WriteRow(u)
      PROVE  TypeOK'
  BY <1>27 DEF WriteRow
<1>28. ASSUME WriteVec PROVE TypeOK'
  BY <1>28 DEF WriteVec
<1>29. ASSUME Embedded PROVE TypeOK'
  BY <1>29 DEF Embedded
<1>30. ASSUME MarkSynced PROVE TypeOK'
  BY <1>30 DEF MarkSynced, ModelIds
<1>31. ASSUME DeleteVecs PROVE TypeOK'
  BY <1>31 DEF DeleteVecs
<1>32. ASSUME DeleteUnits PROVE TypeOK'
  BY <1>32 DEF DeleteUnits
<1>33. ASSUME StatementFails PROVE TypeOK'
  <2>1. CASE goal = "file"
    BY <1>33, <2>1 DEF StatementFails, Fail
  <2>2. CASE goal # "file"
    BY <1>33, <2>2 DEF StatementFails, Fail, EndSession
  <2> QED
    BY <2>1, <2>2
<1>34. ASSUME UNCHANGED vars PROVE TypeOK'
  BY <1>34 DEF vars
<1> QED
  BY <1>1, <1>2, <1>3, <1>4, <1>5, <1>6, <1>7, <1>8, <1>9, <1>10, <1>11,
     <1>12, <1>13, <1>14, <1>15, <1>16, <1>17, <1>18, <1>19, <1>20,
     <1>21, <1>22, <1>23, <1>24, <1>25, <1>26, <1>27, <1>28, <1>29,
     <1>30, <1>31, <1>32, <1>33, <1>34 DEF Next

\* Every reachable state is well typed: all variables of the file, of the
\* embedder and of the session, for any number of units and embedders.
THEOREM TypeCorrect == Spec => []TypeOK
<1> QED
  BY InitType, TypeStep, PTL DEF Spec
-----------------------------------------------------------------------------
(***************************************************************************)
(* The inductive invariant.                                                *)
(***************************************************************************)
\* A session may end, or the process stop, at any point: the index keeps
\* the invariant although no step of the session is completed.
LEMMA EndKeepsInv ==
  ASSUME IInv, TypeOK', EndSession, UNCHANGED <<index, history>>
  PROVE  IInv'
<1> USE DEF EndSession, index, history, Stored, IsLocal
<1>1. NoOrphanVector' /\ WidthAgreement' /\ DimensionAgrees' /\ LabelNamesVectors'
  BY DEF IInv, NoOrphanVector, WidthAgreement, DimensionAgrees, LabelNamesVectors
<1>2. DirtyTellsVectors' /\ DirtyShape'
  BY DEF DirtyTellsVectors, DirtyShape, Open
<1>3. SessionShape' /\ BindShape'
  BY DEF IInv, SessionShape, BindShape, BindSteps, Unbound, Writing
<1>4. MetaShape' /\ WorkShape'
  BY DEF IInv, MetaShape, WorkShape
<1> QED
  BY <1>1, <1>2, <1>3, <1>4 DEF IInv

\* So does an exception at any step, which ends the session or, inside
\* sync_file, the file only: the session goes on with what the step before the
\* failed one left in the index.
LEMMA FailKeepsInv ==
  ASSUME IInv, TypeOK', Fail, UNCHANGED <<index, history, embVars>>
  PROVE  IInv'
<1>1. CASE goal # "file"
  BY <1>1, EndKeepsInv DEF Fail
<1>2. CASE goal = "file"
  <2>1. pc \in BindSteps \cup Writing \cup {"deleteVecs", "deleteUnits"}
    BY <1>2 DEF IInv, TypeOK, Steps, SessionShape, BindSteps, Writing
  <2>2. /\ pc' = "files" /\ goal' = "none"
        /\ todo' = {} /\ chunk' = {} /\ cur' = {} /\ stale' = {}
        /\ UNCHANGED <<mode, all, wipe, dirty, isBound>>
    BY <1>2 DEF Fail, opened
  <2>3. ~dirty /\ mode = "rw"
    BY <1>2 DEF IInv, SessionShape
  <2> USE DEF index, history, embVars, Stored, IsLocal
  <2>4. NoOrphanVector' /\ WidthAgreement' /\ DimensionAgrees' /\ LabelNamesVectors'
    BY <2>2 DEF IInv, NoOrphanVector, WidthAgreement, DimensionAgrees, LabelNamesVectors
  <2>5. DirtyTellsVectors' /\ DirtyShape'
    BY <2>1, <2>2 DEF IInv, DirtyTellsVectors, DirtyShape, Open, BindSteps, Writing
  <2>6. SessionShape'
    BY <2>1, <2>2, <2>3 DEF IInv, SessionShape, BindSteps, Unbound, Writing
  <2>7. BindShape'
    BY <2>2 DEF IInv, BindShape
  <2>8. MetaShape' /\ WorkShape'
    BY <2>2 DEF IInv, MetaShape, WorkShape
  <2> QED
    BY <2>4, <2>5, <2>6, <2>7, <2>8 DEF IInv
<1> QED
  BY <1>1, <1>2

\* An empty and a legacy index file satisfy the invariant.
LEMMA InitIInv == Init => IInv
<1> SUFFICES ASSUME Init PROVE IInv
  OBVIOUS
<1> USE ConstantsAssumption, SentinelsAssumption
    DEF Init, EmptyFile, LegacyFile, NoSession, NoWork, Stored, IsLocal
<1>1. TypeOK
  BY InitType
<1>2. NoOrphanVector /\ WidthAgreement /\ DimensionAgrees
  BY DEF NoOrphanVector, WidthAgreement, DimensionAgrees
<1>3. LabelNamesVectors /\ DirtyTellsVectors /\ MetaShape /\ DirtyShape
  BY DEF LabelNamesVectors, DirtyTellsVectors, MetaShape, DirtyShape, Open
<1>4. SessionShape /\ BindShape /\ WorkShape
  BY DEF SessionShape, BindShape, WorkShape, BindSteps, Unbound, Writing
<1> QED
  BY <1>1, <1>2, <1>3, <1>4 DEF IInv

\* Every action keeps the inductive invariant: one step for each.
LEMMA NextIInv == IInv /\ [Next]_vars => IInv'
<1> SUFFICES ASSUME IInv, [Next]_vars PROVE IInv'
  OBVIOUS
<1>t. TypeOK'
  BY TypeStep DEF IInv
<1> USE ConstantsAssumption, SentinelsAssumption, <1>t
    DEF IInv, TypeOK, Stored, IsLocal, ModelIds, index, history, embVars, work, opened
<1>1. ASSUME NEW e \in Embedders, Configure(e)
      PROVE  IInv'
  <2>1. NoOrphanVector' /\ DimensionAgrees' /\ LabelNamesVectors' /\
       MetaShape' /\ SessionShape'
    BY <1>1 DEF Configure, NoOrphanVector, DimensionAgrees, LabelNamesVectors,
        MetaShape, SessionShape
  <2>2. WidthAgreement'
    BY <1>1 DEF Configure, FreshBound, WidthAgreement, SessionShape, Unbound
  <2>3. DirtyTellsVectors'
    BY <1>1 DEF Configure, DirtyTellsVectors
  <2>4. DirtyShape'
    BY <1>1 DEF Configure, DirtyShape, Open
  <2>5. BindShape'
    BY <1>1 DEF Configure, FreshBound, BindShape
  <2>6. WorkShape'
    BY <1>1 DEF Configure, FreshBound, WorkShape, SessionShape
  <2> QED
    BY <2>1, <2>2, <2>3, <2>4, <2>5, <2>6
<1>2. ASSUME Crash PROVE IInv'
  BY <1>2, EndKeepsInv DEF Crash
<1>3. ASSUME NEW a \in BOOLEAN, NEW w \in BOOLEAN, OpenReadWrite(a, w)
      PROVE  IInv'
  <2>1. NoOrphanVector' /\ WidthAgreement' /\ DimensionAgrees' /\
       LabelNamesVectors'
    BY <1>3 DEF OpenReadWrite, NoOrphanVector, WidthAgreement, DimensionAgrees,
        LabelNamesVectors
  <2>2. MetaShape'
    BY <1>3 DEF OpenReadWrite, MetaShape
  <2>3. DirtyTellsVectors'
    BY <1>3 DEF OpenReadWrite, DirtyTellsVectors, Open
  <2>4. DirtyShape'
    BY <1>3 DEF OpenReadWrite, DirtyShape, Open
  <2>5. SessionShape'
    BY <1>3 DEF OpenReadWrite, SessionShape, BindSteps, Unbound, Writing
  <2>6. BindShape'
    BY <1>3 DEF OpenReadWrite, BindShape, SessionShape, Unbound
  <2>7. WorkShape'
    BY <1>3 DEF OpenReadWrite, WorkShape
  <2> QED
    BY <2>1, <2>2, <2>3, <2>4, <2>5, <2>6, <2>7
<1>4. ASSUME OpenReadOnly PROVE IInv'
  <2>1. NoOrphanVector' /\ WidthAgreement' /\ DimensionAgrees' /\
       LabelNamesVectors'
    BY <1>4 DEF OpenReadOnly, NoOrphanVector, WidthAgreement, DimensionAgrees,
        LabelNamesVectors
  <2>2. MetaShape'
    BY <1>4 DEF OpenReadOnly, MetaShape
  <2>3. DirtyTellsVectors'
    BY <1>4 DEF OpenReadOnly, DirtyTellsVectors, Open
  <2>4. DirtyShape'
    BY <1>4 DEF OpenReadOnly, DirtyShape, Open
  <2>5. SessionShape'
    BY <1>4 DEF OpenReadOnly, SessionShape, BindSteps, Unbound, Writing
  <2>6. BindShape'
    BY <1>4 DEF OpenReadOnly, BindShape
  <2>7. WorkShape'
    BY <1>4 DEF OpenReadOnly, WorkShape
  <2> QED
    BY <2>1, <2>2, <2>3, <2>4, <2>5, <2>6, <2>7
<1>5. ASSUME DropTable PROVE IInv'
  <2>1. NoOrphanVector'
    BY <1>5 DEF DropTable, NoOrphanVector
  <2>2. WidthAgreement'
    BY <1>5 DEF DropTable, WidthAgreement, SessionShape, Unbound
  <2>3. DimensionAgrees'
    BY <1>5 DEF DropTable, DimensionAgrees
  <2>4. LabelNamesVectors'
    BY <1>5 DEF DropTable, LabelNamesVectors
  <2>5. MetaShape'
    <3>1. doubt' = {} <=> metaModel = NoModel
      BY <1>5 DEF DropTable
    <3>2. (width' = 0 /\ metaDim' # 0) => dimDoubt'
      BY <1>5 DEF DropTable
    <3>3. \A u \in Units : ~Stored(u)'
      BY <1>5 DEF DropTable
    <3>4. pc' \notin {"inferDim", "inferModel"} /\ metaModel' = metaModel
      BY <1>5 DEF DropTable
    <3> QED
      BY <3>1, <3>2, <3>3, <3>4 DEF MetaShape
  <2>6. DirtyTellsVectors'
    BY <1>5 DEF DropTable, DirtyTellsVectors, Open
  <2>7. DirtyShape'
    <3>1. pc' = "deleteMeta"
      BY <1>5 DEF DropTable
    <3> QED
      BY <3>1 DEF DirtyShape, Open
  <2>8. SessionShape'
    <3>1. /\ pc = "dropTable" /\ pc' = "deleteMeta" /\ width' = 0
          /\ UNCHANGED <<mode, wipe, isBound, goal, dirty>>
      BY <1>5 DEF DropTable
    <3>2. \A u \in Units : ~Stored(u)'
      BY <1>5 DEF DropTable
    <3> QED
      BY <3>1, <3>2 DEF SessionShape, BindSteps, Unbound, Writing
  <2>9. BindShape'
    <3>1. pc' = "deleteMeta" /\ ~isBound'
      BY <1>5 DEF DropTable, SessionShape, Unbound
    <3> QED
      BY <3>1 DEF BindShape
  <2>10. WorkShape'
    BY <1>5 DEF DropTable, WorkShape, SessionShape
  <2> QED
    BY <2>1, <2>2, <2>3, <2>4, <2>5, <2>6, <2>7, <2>8, <2>9, <2>10
<1>6. ASSUME DeleteMeta PROVE IInv'
  <2>1. NoOrphanVector' /\ WidthAgreement'
    BY <1>6 DEF DeleteMeta, NoOrphanVector, WidthAgreement
  <2>2. DimensionAgrees'
    BY <1>6 DEF DeleteMeta, DimensionAgrees
  <2>3. LabelNamesVectors'
    <3>1. width = 0 /\ vec' = vec
      BY <1>6 DEF DeleteMeta, SessionShape
    <3>2. \A u \in Units : ~Stored(u)
      BY <3>1 DEF WidthAgreement
    <3> QED
      BY <3>1, <3>2 DEF LabelNamesVectors
  <2>4. MetaShape'
    <3>1. /\ metaDim' = 0 /\ metaModel' = NoModel /\ vec' = vec
          /\ width = 0
      BY <1>6 DEF DeleteMeta, SessionShape
    <3>2. \A u \in Units : ~Stored(u)
      BY <3>1 DEF WidthAgreement
    <3> QED
      BY <3>1, <3>2 DEF MetaShape
  <2>5. DirtyTellsVectors'
    BY <1>6 DEF DeleteMeta, DirtyTellsVectors, Open
  <2>6. DirtyShape'
    BY <1>6 DEF DeleteMeta, DirtyShape, Open
  <2>7. SessionShape'
    BY <1>6 DEF DeleteMeta, SessionShape, BindSteps, Unbound, Writing
  <2>8. BindShape'
    BY <1>6 DEF DeleteMeta, BindShape, SessionShape, Unbound
  <2>9. WorkShape'
    BY <1>6 DEF DeleteMeta, WorkShape
  <2> QED
    BY <2>1, <2>2, <2>3, <2>4, <2>5, <2>6, <2>7, <2>8, <2>9
<1>7. ASSUME RefreshDirty PROVE IInv'
  <2>1. NoOrphanVector' /\ WidthAgreement' /\ DimensionAgrees' /\
       LabelNamesVectors'
    BY <1>7 DEF RefreshDirty, NoOrphanVector, WidthAgreement, DimensionAgrees,
        LabelNamesVectors
  <2>2. MetaShape'
    BY <1>7 DEF RefreshDirty, DirtyFromMeta, MetaShape
  <2>3. DirtyTellsVectors'
    BY <1>7 DEF RefreshDirty, DirtyFromMeta, DirtyTellsVectors, Open,
        LabelNamesVectors, SessionShape, WidthAgreement
  <2>4. DirtyShape'
    <3>1. dirty' => width' # 0
      BY <1>7 DEF RefreshDirty, DirtyFromMeta
    <3>2. width = 0 /\ doubt = {} => metaModel = NoModel
      BY DEF MetaShape
    <3>3. ~dirty' /\ width # 0 => metaModel = ModelId[emb] \/ (metaModel = NoModel /\ IsLocal(emb))
      BY <1>7 DEF RefreshDirty, DirtyFromMeta, SessionShape
    <3> QED
      BY <1>7, <3>1, <3>2, <3>3 DEF RefreshDirty, DirtyShape
  <2>5. SessionShape'
    BY <1>7 DEF RefreshDirty, DirtyFromMeta, SessionShape, BindSteps, Unbound,
        Writing
  <2>6. BindShape'
    BY <1>7 DEF RefreshDirty, DirtyFromMeta, BindShape
  <2>7. WorkShape'
    BY <1>7 DEF RefreshDirty, DirtyFromMeta, WorkShape
  <2> QED
    BY <2>1, <2>2, <2>3, <2>4, <2>5, <2>6, <2>7
<1>8. ASSUME Close PROVE IInv'
  BY <1>8, EndKeepsInv DEF Close
<1>9. ASSUME StartSearch PROVE IInv'
  <2>1. NoOrphanVector' /\ WidthAgreement' /\ DimensionAgrees' /\
       LabelNamesVectors'
    BY <1>9 DEF StartSearch, NoOrphanVector, WidthAgreement, DimensionAgrees,
        LabelNamesVectors
  <2>2. MetaShape'
    BY <1>9 DEF StartSearch, MetaShape
  <2>3. DirtyTellsVectors'
    BY <1>9 DEF StartSearch, DirtyTellsVectors, Open
  <2>4. DirtyShape'
    BY <1>9 DEF StartSearch, DirtyShape, Open
  <2>5. SessionShape'
    BY <1>9 DEF StartSearch, SessionShape, BindSteps, Unbound, Writing
  <2>6. BindShape'
    BY <1>9 DEF StartSearch, BindShape
  <2>7. WorkShape'
    BY <1>9 DEF StartSearch, WorkShape
  <2> QED
    BY <2>1, <2>2, <2>3, <2>4, <2>5, <2>6, <2>7
<1>10. ASSUME StartReembed PROVE IInv'
  <2>1. NoOrphanVector' /\ WidthAgreement' /\ DimensionAgrees' /\
       LabelNamesVectors'
    BY <1>10 DEF StartReembed, NoOrphanVector, WidthAgreement, DimensionAgrees,
        LabelNamesVectors
  <2>2. MetaShape'
    BY <1>10 DEF StartReembed, MetaShape
  <2>3. DirtyTellsVectors'
    BY <1>10 DEF StartReembed, DirtyTellsVectors, Open
  <2>4. DirtyShape'
    BY <1>10 DEF StartReembed, DirtyShape, Open
  <2>5. SessionShape'
    BY <1>10 DEF StartReembed, SessionShape, BindSteps, Unbound, Writing
  <2>6. BindShape'
    BY <1>10 DEF StartReembed, BindShape
  <2>7. WorkShape'
    BY <1>10 DEF StartReembed, WorkShape
  <2> QED
    BY <2>1, <2>2, <2>3, <2>4, <2>5, <2>6, <2>7
<1>11. ASSUME StartFiles PROVE IInv'
  <2>1. NoOrphanVector' /\ WidthAgreement' /\ DimensionAgrees' /\
       LabelNamesVectors'
    BY <1>11 DEF StartFiles, NoOrphanVector, WidthAgreement, DimensionAgrees,
        LabelNamesVectors
  <2>2. MetaShape'
    BY <1>11 DEF StartFiles, MetaShape
  <2>3. DirtyTellsVectors'
    BY <1>11 DEF StartFiles, DirtyTellsVectors, Open
  <2>4. DirtyShape'
    BY <1>11 DEF StartFiles, DirtyShape, Open
  <2>5. SessionShape'
    BY <1>11 DEF StartFiles, SessionShape, BindSteps, Unbound, Writing
  <2>6. BindShape'
    BY <1>11 DEF StartFiles, BindShape
  <2>7. WorkShape'
    BY <1>11 DEF StartFiles, WorkShape
  <2> QED
    BY <2>1, <2>2, <2>3, <2>4, <2>5, <2>6, <2>7
<1>12. ASSUME NEW new \in SUBSET Units, NEW gone \in SUBSET Units, StartFile(new, gone)
      PROVE  IInv'
  <2>1. NoOrphanVector' /\ WidthAgreement' /\ DimensionAgrees' /\
       LabelNamesVectors'
    BY <1>12 DEF StartFile, NoOrphanVector, WidthAgreement, DimensionAgrees,
        LabelNamesVectors
  <2>2. MetaShape'
    BY <1>12 DEF StartFile, MetaShape
  <2>3. DirtyTellsVectors'
    BY <1>12 DEF StartFile, DirtyTellsVectors, Open
  <2>4. DirtyShape'
    BY <1>12 DEF StartFile, DirtyShape, Open
  <2>5. SessionShape'
    BY <1>12 DEF StartFile, SessionShape, BindSteps, Unbound, Writing
  <2>6. BindShape'
    BY <1>12 DEF StartFile, BindShape
  <2>7. WorkShape'
    BY <1>12 DEF StartFile, WorkShape
  <2> QED
    BY <2>1, <2>2, <2>3, <2>4, <2>5, <2>6, <2>7
<1>13. ASSUME BindMissing PROVE IInv'
  BY <1>13, FailKeepsInv DEF BindMissing
<1>14. ASSUME BindCorrupt PROVE IInv'
  BY <1>14, FailKeepsInv DEF BindCorrupt
<1>15. ASSUME BindDecide PROVE IInv'
  <2>1. NoOrphanVector' /\ WidthAgreement' /\ DimensionAgrees' /\
       LabelNamesVectors'
    BY <1>15 DEF BindDecide, NoOrphanVector, WidthAgreement, DimensionAgrees,
        LabelNamesVectors
  <2>2. MetaShape'
    BY <1>15 DEF BindDecide, HasTable, FullMeta, MetaShape
  <2>3. DirtyTellsVectors'
    BY <1>15 DEF BindDecide, HasTable, FullMeta, DirtyTellsVectors, Open
  <2>4. DirtyShape'
    BY <1>15 DEF BindDecide, HasTable, FullMeta, DirtyShape, Open
  <2>5. SessionShape'
    BY <1>15 DEF BindDecide, HasTable, FullMeta, SessionShape, BindSteps, Unbound,
        Writing
  <2>6. BindShape'
    BY <1>15 DEF BindDecide, HasTable, FullMeta, BindShape, SessionShape
  <2>7. WorkShape'
    BY <1>15 DEF BindDecide, HasTable, FullMeta, WorkShape
  <2> QED
    BY <2>1, <2>2, <2>3, <2>4, <2>5, <2>6, <2>7
<1>16. ASSUME InferDim PROVE IInv'
  <2>1. NoOrphanVector' /\ WidthAgreement' /\ LabelNamesVectors'
    BY <1>16 DEF InferDim, NoOrphanVector, WidthAgreement, LabelNamesVectors
  <2>2. DimensionAgrees'
    BY <1>16 DEF InferDim, DimensionAgrees
  <2>3. MetaShape'
    BY <1>16 DEF InferDim, MetaShape
  <2>4. DirtyTellsVectors'
    BY <1>16 DEF InferDim, DirtyTellsVectors, Open
  <2>5. DirtyShape'
    BY <1>16 DEF InferDim, DirtyShape, Open
  <2>6. SessionShape'
    BY <1>16 DEF InferDim, SessionShape, BindSteps, Unbound, Writing
  <2>7. BindShape'
    BY <1>16 DEF InferDim, BindShape
  <2>8. WorkShape'
    BY <1>16 DEF InferDim, WorkShape
  <2> QED
    BY <2>1, <2>2, <2>3, <2>4, <2>5, <2>6, <2>7, <2>8
<1>17. ASSUME InferModel PROVE IInv'
  <2>1. NoOrphanVector' /\ WidthAgreement' /\ DimensionAgrees'
    BY <1>17 DEF InferModel, NoOrphanVector, WidthAgreement, DimensionAgrees
  <2>2. LabelNamesVectors'
    BY <1>17 DEF InferModel, LabelNamesVectors
  <2>3. MetaShape'
    BY <1>17 DEF InferModel, MetaShape, BindShape
  <2>4. DirtyTellsVectors'
    BY <1>17 DEF InferModel, DirtyTellsVectors, Open
  <2>5. DirtyShape'
    BY <1>17 DEF InferModel, DirtyShape, Open, BindShape
  <2>6. SessionShape'
    BY <1>17 DEF InferModel, SessionShape, BindSteps, Unbound, Writing
  <2>7. BindShape'
    BY <1>17 DEF InferModel, BindShape
  <2>8. WorkShape'
    BY <1>17 DEF InferModel, WorkShape
  <2> QED
    BY <2>1, <2>2, <2>3, <2>4, <2>5, <2>6, <2>7, <2>8
<1>18. ASSUME BindTarget PROVE IInv'
  <2>1. NoOrphanVector' /\ DimensionAgrees' /\ LabelNamesVectors'
    BY <1>18 DEF BindTarget, NoOrphanVector, DimensionAgrees, LabelNamesVectors
  <2>2. WidthAgreement'
    BY <1>18 DEF BindTarget, Fail, EndSession, WidthAgreement
  <2>3. MetaShape'
    BY <1>18 DEF BindTarget, Fail, EndSession, MetaShape
  <2>4. DirtyTellsVectors'
    BY <1>18 DEF BindTarget, Fail, EndSession, DirtyTellsVectors, Open
  <2>5. DirtyShape'
    BY <1>18 DEF BindTarget, Fail, EndSession, DirtyShape, Open
  <2>6. SessionShape'
    BY <1>18 DEF BindTarget, Fail, EndSession, SessionShape, BindSteps, Unbound,
        Writing
  <2>7. BindShape'
    BY <1>18 DEF BindTarget, Fail, EndSession, BindShape
  <2>8. WorkShape'
    BY <1>18 DEF BindTarget, Fail, EndSession, WorkShape
  <2> QED
    BY <2>1, <2>2, <2>3, <2>4, <2>5, <2>6, <2>7, <2>8
<1>19. ASSUME Probe PROVE IInv'
  <2>1. NoOrphanVector' /\ DimensionAgrees' /\ LabelNamesVectors'
    BY <1>19 DEF Probe, NoOrphanVector, DimensionAgrees, LabelNamesVectors
  <2>2. WidthAgreement'
    BY <1>19 DEF Probe, WidthAgreement
  <2>3. MetaShape'
    BY <1>19 DEF Probe, MetaShape
  <2>4. DirtyTellsVectors'
    BY <1>19 DEF Probe, DirtyTellsVectors, Open
  <2>5. DirtyShape'
    BY <1>19 DEF Probe, DirtyShape, Open
  <2>6. SessionShape'
    BY <1>19 DEF Probe, SessionShape, BindSteps, Unbound, Writing
  <2>7. BindShape'
    BY <1>19 DEF Probe, BindShape
  <2>8. WorkShape'
    BY <1>19 DEF Probe, WorkShape
  <2> QED
    BY <2>1, <2>2, <2>3, <2>4, <2>5, <2>6, <2>7, <2>8
<1>20. ASSUME ProbeFails PROVE IInv'
  BY <1>20, FailKeepsInv DEF ProbeFails
<1>21. ASSUME CreateMismatch PROVE IInv'
  BY <1>21, FailKeepsInv DEF CreateMismatch
<1>22. ASSUME Create PROVE IInv'
  <2>1. NoOrphanVector' /\ LabelNamesVectors'
    BY <1>22 DEF Create, NoOrphanVector, LabelNamesVectors
  <2>2. WidthAgreement'
    BY <1>22 DEF Create, Bound, WidthAgreement, BindShape
  <2>3. DimensionAgrees'
    BY <1>22 DEF Create, Bound, DimensionAgrees, MetaShape
  <2>4. MetaShape'
    BY <1>22 DEF Create, Bound, MetaShape
  <2>5. DirtyTellsVectors'
    BY <1>22 DEF Create, Bound, DirtyTellsVectors, Open
  <2>6. DirtyShape'
    <3>1. width = 0 => \A u \in Units : ~Stored(u)
      BY DEF WidthAgreement
    <3>2. /\ pc = "create" /\ pc' \in {"setDim", "query", "embed"}
          /\ UNCHANGED <<vec, metaModel, doubt, emb, dirty>>
          /\ width \in {0, width'}
      BY <1>22 DEF Create, Bound
    <3> QED
      BY <3>1, <3>2 DEF DirtyShape, Open
  <2>7. SessionShape'
    BY <1>22 DEF Create, Bound, SessionShape, BindSteps, Unbound, Writing
  <2>8. BindShape'
    <3>1. width = 0 => \A u \in Units : ~Stored(u)
      BY DEF WidthAgreement
    <3>2. (mode = "rw" /\ metaModel = NoModel) => \A u \in Units : ~Stored(u)
      BY <1>22, <3>1 DEF Create, BindShape, SessionShape
    <3>3. CASE mode = "ro"
      BY <1>22, <3>3 DEF Create, Bound, BindShape
    <3>4. CASE mode = "rw"
      BY <1>22, <3>2, <3>4 DEF Create, BindShape, SessionShape, BindSteps, Unbound
    <3> QED
      BY <3>3, <3>4
  <2>9. WorkShape'
    BY <1>22 DEF Create, Bound, WorkShape
  <2> QED
    BY <2>1, <2>2, <2>3, <2>4, <2>5, <2>6, <2>7, <2>8, <2>9
<1>23. ASSUME SetDim PROVE IInv'
  <2>1. NoOrphanVector' /\ LabelNamesVectors'
    BY <1>23 DEF SetDim, NoOrphanVector, LabelNamesVectors
  <2>2. WidthAgreement'
    BY <1>23 DEF SetDim, Bound, WidthAgreement, BindShape
  <2>3. DimensionAgrees'
    BY <1>23 DEF SetDim, Bound, DimensionAgrees, BindShape
  <2>4. MetaShape'
    BY <1>23 DEF SetDim, Bound, MetaShape, BindShape
  <2>5. DirtyTellsVectors'
    BY <1>23 DEF SetDim, Bound, DirtyTellsVectors, Open
  <2>6. DirtyShape'
    BY <1>23 DEF SetDim, Bound, DirtyShape, Open
  <2>7. SessionShape'
    BY <1>23 DEF SetDim, Bound, SessionShape, BindSteps, Unbound, Writing
  <2>8. BindShape'
    BY <1>23 DEF SetDim, Bound, BindShape
  <2>9. WorkShape'
    BY <1>23 DEF SetDim, Bound, WorkShape
  <2> QED
    BY <2>1, <2>2, <2>3, <2>4, <2>5, <2>6, <2>7, <2>8, <2>9
<1>24. ASSUME SetModel PROVE IInv'
  <2>1. NoOrphanVector' /\ DimensionAgrees'
    BY <1>24 DEF SetModel, NoOrphanVector, DimensionAgrees
  <2>2. WidthAgreement'
    BY <1>24 DEF SetModel, Bound, WidthAgreement, BindShape
  <2>3. LabelNamesVectors'
    BY <1>24 DEF SetModel, Bound, LabelNamesVectors, BindShape
  <2>4. MetaShape'
    BY <1>24 DEF SetModel, Bound, MetaShape, BindShape
  <2>5. DirtyTellsVectors'
    BY <1>24 DEF SetModel, Bound, DirtyTellsVectors, Open
  <2>6. DirtyShape'
    BY <1>24 DEF SetModel, Bound, DirtyShape, Open, BindShape
  <2>7. SessionShape'
    BY <1>24 DEF SetModel, Bound, SessionShape, BindSteps, Unbound, Writing
  <2>8. BindShape'
    BY <1>24 DEF SetModel, Bound, BindShape
  <2>9. WorkShape'
    BY <1>24 DEF SetModel, Bound, WorkShape
  <2> QED
    BY <2>1, <2>2, <2>3, <2>4, <2>5, <2>6, <2>7, <2>8, <2>9
<1>25. ASSUME Embed PROVE IInv'
  <2>1. NoOrphanVector' /\ WidthAgreement' /\ DimensionAgrees' /\
       LabelNamesVectors'
    BY <1>25 DEF Embed, NoOrphanVector, WidthAgreement, DimensionAgrees,
        LabelNamesVectors
  <2>2. MetaShape'
    BY <1>25 DEF Embed, MetaShape
  <2>3. DirtyTellsVectors'
    BY <1>25 DEF Embed, DirtyTellsVectors, Open
  <2>4. DirtyShape'
    BY <1>25 DEF Embed, DirtyShape, Open
  <2>5. SessionShape'
    BY <1>25 DEF Embed, SessionShape, BindSteps, Unbound, Writing
  <2>6. BindShape'
    BY <1>25 DEF Embed, BindShape
  <2>7. WorkShape'
    BY <1>25 DEF Embed, WorkShape
  <2> QED
    BY <2>1, <2>2, <2>3, <2>4, <2>5, <2>6, <2>7
<1>26. ASSUME EmbedFails PROVE IInv'
  BY <1>26, FailKeepsInv DEF EmbedFails
<1>27. ASSUME NEW u \in Units, WriteRow(u)
      PROVE  IInv'
  <2>1. WidthAgreement' /\ DimensionAgrees' /\ LabelNamesVectors'
    BY <1>27 DEF WriteRow, WidthAgreement, DimensionAgrees, LabelNamesVectors
  <2>2. NoOrphanVector'
    BY <1>27 DEF WriteRow, NoOrphanVector
  <2>3. MetaShape'
    BY <1>27 DEF WriteRow, MetaShape
  <2>4. DirtyTellsVectors'
    BY <1>27 DEF WriteRow, DirtyTellsVectors, Open
  <2>5. DirtyShape'
    BY <1>27 DEF WriteRow, DirtyShape, Open
  <2>6. SessionShape'
    BY <1>27 DEF WriteRow, SessionShape, BindSteps, Unbound, Writing
  <2>7. BindShape'
    BY <1>27 DEF WriteRow, BindShape
  <2>8. WorkShape'
    BY <1>27 DEF WriteRow, WorkShape
  <2> QED
    BY <2>1, <2>2, <2>3, <2>4, <2>5, <2>6, <2>7, <2>8
<1>28. ASSUME WriteVec PROVE IInv'
  <2>1. DimensionAgrees'
    BY <1>28 DEF WriteVec, DimensionAgrees
  <2>2. NoOrphanVector'
    BY <1>28 DEF WriteVec, NoOrphanVector, WorkShape
  <2>3. WidthAgreement'
    BY <1>28 DEF WriteVec, WidthAgreement, BindShape, SessionShape, Writing
  <2>4. LabelNamesVectors'
    <3>1. width # 0 /\ metaModel # NoModel
      BY <1>28 DEF WriteVec, WidthAgreement, SessionShape, BindShape, Writing
    <3>2. doubt' = {} => doubt = {} /\ goal = "file" /\ ~dirty
      BY <1>28 DEF WriteVec, SessionShape, Writing
    <3>3. doubt' = {} => metaModel = ModelId[emb]
      BY <1>28, <3>1, <3>2 DEF WriteVec, DirtyShape, Open
    <3> QED
      BY <1>28, <3>1, <3>2, <3>3 DEF WriteVec, LabelNamesVectors
  <2>5. MetaShape'
    BY <1>28 DEF WriteVec, MetaShape, BindShape, SessionShape, Writing
  <2>6. DirtyTellsVectors'
    BY <1>28 DEF WriteVec, DirtyTellsVectors, Open, SessionShape, Writing
  <2>7. DirtyShape'
    <3>1. width # 0 /\ metaModel # NoModel
      BY <1>28 DEF WriteVec, WidthAgreement, SessionShape, BindShape, Writing
    <3> QED
      BY <1>28, <3>1 DEF WriteVec, DirtyShape, Open
  <2>8. SessionShape'
    <3>1. isBound /\ ~wipe
      BY <1>28 DEF WriteVec, SessionShape, Writing
    <3> QED
      BY <1>28, <3>1 DEF WriteVec, SessionShape, BindSteps, Unbound, Writing
  <2>9. BindShape'
    BY <1>28 DEF WriteVec, BindShape
  <2>10. WorkShape'
    BY <1>28 DEF WriteVec, WorkShape
  <2> QED
    BY <2>1, <2>2, <2>3, <2>4, <2>5, <2>6, <2>7, <2>8, <2>9, <2>10
<1>29. ASSUME Embedded PROVE IInv'
  <2>1. NoOrphanVector' /\ WidthAgreement' /\ DimensionAgrees' /\
       LabelNamesVectors'
    BY <1>29 DEF Embedded, NoOrphanVector, WidthAgreement, DimensionAgrees,
        LabelNamesVectors
  <2>2. MetaShape'
    BY <1>29 DEF Embedded, MetaShape
  <2>3. DirtyTellsVectors'
    BY <1>29 DEF Embedded, DirtyTellsVectors, Open
  <2>4. DirtyShape'
    BY <1>29 DEF Embedded, DirtyShape, Open
  <2>5. SessionShape'
    BY <1>29 DEF Embedded, SessionShape, BindSteps, Unbound, Writing
  <2>6. BindShape'
    BY <1>29 DEF Embedded, BindShape
  <2>7. WorkShape'
    BY <1>29 DEF Embedded, WorkShape
  <2> QED
    BY <2>1, <2>2, <2>3, <2>4, <2>5, <2>6, <2>7
<1>30. ASSUME MarkSynced PROVE IInv'
  <2>1. NoOrphanVector' /\ WidthAgreement' /\ DimensionAgrees'
    BY <1>30 DEF MarkSynced, NoOrphanVector, WidthAgreement, DimensionAgrees
  <2>2. LabelNamesVectors'
    BY <1>30 DEF MarkSynced, LabelNamesVectors, NoOrphanVector, WorkShape,
        SessionShape
  <2>3. MetaShape'
    BY <1>30 DEF MarkSynced, MetaShape, SessionShape, DirtyShape, Open
  <2>4. DirtyTellsVectors'
    BY <1>30 DEF MarkSynced, DirtyTellsVectors, Open, SessionShape, WorkShape,
        NoOrphanVector
  <2>5. DirtyShape'
    BY <1>30 DEF MarkSynced, DirtyShape, Open, SessionShape
  <2>6. SessionShape'
    BY <1>30 DEF MarkSynced, SessionShape, BindSteps, Unbound, Writing
  <2>7. BindShape'
    BY <1>30 DEF MarkSynced, BindShape
  <2>8. WorkShape'
    BY <1>30 DEF MarkSynced, WorkShape
  <2> QED
    BY <2>1, <2>2, <2>3, <2>4, <2>5, <2>6, <2>7, <2>8
<1>31. ASSUME DeleteVecs PROVE IInv'
  <2>1. DimensionAgrees'
    BY <1>31 DEF DeleteVecs, DimensionAgrees
  <2>2. NoOrphanVector'
    BY <1>31 DEF DeleteVecs, NoOrphanVector
  <2>3. WidthAgreement'
    BY <1>31 DEF DeleteVecs, WidthAgreement
  <2>4. LabelNamesVectors'
    BY <1>31 DEF DeleteVecs, LabelNamesVectors
  <2>5. MetaShape'
    BY <1>31 DEF DeleteVecs, MetaShape
  <2>6. DirtyTellsVectors'
    BY <1>31 DEF DeleteVecs, DirtyTellsVectors, Open
  <2>7. DirtyShape'
    BY <1>31 DEF DeleteVecs, DirtyShape, Open
  <2>8. SessionShape'
    BY <1>31 DEF DeleteVecs, SessionShape, BindSteps, Unbound, Writing
  <2>9. BindShape'
    BY <1>31 DEF DeleteVecs, BindShape
  <2>10. WorkShape'
    BY <1>31 DEF DeleteVecs, WorkShape, SessionShape
  <2> QED
    BY <2>1, <2>2, <2>3, <2>4, <2>5, <2>6, <2>7, <2>8, <2>9, <2>10
<1>32. ASSUME DeleteUnits PROVE IInv'
  <2>1. WidthAgreement' /\ DimensionAgrees' /\ LabelNamesVectors'
    BY <1>32 DEF DeleteUnits, WidthAgreement, DimensionAgrees, LabelNamesVectors
  <2>2. NoOrphanVector'
    BY <1>32 DEF DeleteUnits, NoOrphanVector, WorkShape
  <2>3. MetaShape'
    BY <1>32 DEF DeleteUnits, MetaShape
  <2>4. DirtyTellsVectors'
    BY <1>32 DEF DeleteUnits, DirtyTellsVectors, Open
  <2>5. DirtyShape'
    BY <1>32 DEF DeleteUnits, DirtyShape, Open
  <2>6. SessionShape'
    BY <1>32 DEF DeleteUnits, SessionShape, BindSteps, Unbound, Writing
  <2>7. BindShape'
    BY <1>32 DEF DeleteUnits, BindShape
  <2>8. WorkShape'
    BY <1>32 DEF DeleteUnits, WorkShape
  <2> QED
    BY <2>1, <2>2, <2>3, <2>4, <2>5, <2>6, <2>7, <2>8
<1>33. ASSUME StatementFails PROVE IInv'
  BY <1>33, FailKeepsInv DEF StatementFails
<1>34. ASSUME UNCHANGED vars PROVE IInv'
  BY <1>34
  DEF vars, NoOrphanVector, WidthAgreement, DimensionAgrees, LabelNamesVectors,
      DirtyTellsVectors, SessionShape, BindShape, MetaShape, DirtyShape,
      WorkShape, Open
<1> QED
  BY <1>1, <1>2, <1>3, <1>4, <1>5, <1>6, <1>7, <1>8, <1>9, <1>10, <1>11,
     <1>12, <1>13, <1>14, <1>15, <1>16, <1>17, <1>18, <1>19, <1>20,
     <1>21, <1>22, <1>23, <1>24, <1>25, <1>26, <1>27, <1>28, <1>29,
     <1>30, <1>31, <1>32, <1>33, <1>34 DEF Next
-----------------------------------------------------------------------------
(***************************************************************************)
(* The properties.                                                         *)
(***************************************************************************)
\* The inductive invariant holds in every reachable state.
THEOREM Inductive == Spec => []IInv
  BY InitIInv, NextIInv, PTL DEF Spec

\* upsert_unit and delete_stale_units, stopped anywhere, leave no vector
\* without its unit.
THEOREM NoOrphans == Spec => []NoOrphanVector
<1>1. IInv => NoOrphanVector
  BY DEF IInv
<1> QED
  BY <1>1, Inductive, PTL

\* Whatever embedders are configured one after the other, an index holds
\* vectors of one length, and a bound embedder returns that length.
THEOREM Widths == Spec => []WidthAgreement
<1>1. IInv => WidthAgreement
  BY DEF IInv
<1> QED
  BY <1>1, Inductive, PTL

\* Only a rebuild stopped between its two statements leaves a dimension in
\* index_meta that is not the table's.
THEOREM Dimensions == Spec => []DimensionAgrees
<1>1. IInv => DimensionAgrees
  BY DEF IInv
<1> QED
  BY <1>1, Inductive, PTL

\* Away from the three causes of doubt, index_meta names the model of every
\* stored vector.
THEOREM Labels == Spec => []LabelNamesVectors
<1>1. IInv => LabelNamesVectors
  BY DEF IInv
<1> QED
  BY <1>1, Inductive, PTL

\* And embedding_model_dirty, however long ago it was computed, compares the
\* model of the vectors with the session's.
THEOREM DirtyFlag == Spec => []DirtyTellsVectors
<1>1. IInv => DirtyTellsVectors
  BY DEF IInv
<1> QED
  BY <1>1, Inductive, PTL

\* The promise of search_units: without one of those causes, a search that
\* does not warn ranks vectors of the model that embeds the query.
THEOREM PureSearch == Spec => [](doubt = {} => UnwarnedSearchIsPure)
<1>1. IInv => (doubt = {} => UnwarnedSearchIsPure)
  BY DEF IInv, DirtyTellsVectors, UnwarnedSearchIsPure
<1> QED
  BY <1>1, Inductive, PTL
-----------------------------------------------------------------------------
(***************************************************************************)
(* Who writes the name of the model.                                       *)
(***************************************************************************)
\* META_MODEL_KEY is written by DELETE, by inference, by the first bind and
\* by mark_embedding_model_synced, and by nothing else.
LEMMA Writers ==
  ASSUME [Next]_vars, metaModel' # metaModel
  PROVE  DeleteMeta \/ InferModel \/ SetModel \/ MarkSynced
  BY DEF Next, vars, index, history, embVars, work, opened,
         Configure, Crash, OpenReadWrite, OpenReadOnly, DropTable,
         RefreshDirty, Close, StartSearch, StartReembed, StartFiles,
         StartFile, BindMissing, BindCorrupt, BindDecide, InferDim,
         BindTarget, Probe, ProbeFails, CreateMismatch, Create, SetDim,
         Embed, EmbedFails, WriteRow, WriteVec, Embedded, DeleteVecs,
         DeleteUnits, StatementFails

\* Every step that names a model names that of each stored vector: inference
\* and the first bind because no other vector can be there, a re-embed
\* because it has rewritten all of them.
THEOREM Relabel == Spec => RelabelIsTruthful
<1> DEFINE Truthful ==
      metaModel' # metaModel /\ metaModel' # NoModel =>
        \A u \in Units : vec'[u] # NoVec => ModelId[vec'[u]] = metaModel'
<1>1. ASSUME IInv, [Next]_vars PROVE Truthful
  <2> SUFFICES ASSUME metaModel' # metaModel, metaModel' # NoModel,
                      NEW u \in Units, vec'[u] # NoVec
               PROVE  ModelId[vec'[u]] = metaModel'
    OBVIOUS
  <2>1. CASE DeleteMeta
    BY <2>1 DEF DeleteMeta
  <2>2. CASE InferModel
    BY <1>1, <2>2 DEF InferModel, IInv, MetaShape, Stored, IsLocal
  <2>3. CASE SetModel
    BY <1>1, <2>3 DEF SetModel, IInv, BindShape, Stored
  <2>4. CASE MarkSynced
    <3>1. vec'[u] = vec[u] /\ u \in rows
      BY <1>1, <2>4 DEF MarkSynced, IInv, NoOrphanVector, Stored
    <3>2. vec[u] = emb
      BY <1>1, <2>4, <3>1 DEF MarkSynced, IInv, WorkShape, SessionShape
    <3> QED
      BY <2>4, <3>1, <3>2 DEF MarkSynced
  <2> QED
    BY <1>1, <2>1, <2>2, <2>3, <2>4, Writers
<1> QED
  BY <1>1, Inductive, PTL DEF Spec, RelabelIsTruthful

\* The index is declared synced after a re-embed only with a vector of the
\* new model for every stored unit.
THEOREM Reembedded == Spec => SyncedIsComplete
<1> DEFINE Complete ==
      goal = "reembed" /\ metaModel' # metaModel /\ pc' = "files" =>
        \A u \in rows : vec[u] # NoVec /\ ModelId[vec[u]] = metaModel'
<1>1. ASSUME IInv, [Next]_vars PROVE Complete
  <2> SUFFICES ASSUME goal = "reembed", metaModel' # metaModel, pc' = "files",
                      NEW u \in rows
               PROVE  vec[u] # NoVec /\ ModelId[vec[u]] = metaModel'
    OBVIOUS
  <2>1. MarkSynced
    BY <1>1, Writers DEF DeleteMeta, InferModel, SetModel, Bound
  <2>2. vec[u] = emb
    BY <1>1, <2>1 DEF MarkSynced, IInv, WorkShape
  <2>3. emb # NoVec
    BY <1>1, SentinelsAssumption DEF IInv, TypeOK
  <2> QED
    BY <2>1, <2>2, <2>3 DEF MarkSynced
<1> QED
  BY <1>1, Inductive, PTL DEF Spec, SyncedIsComplete
-----------------------------------------------------------------------------
(***************************************************************************)
(* EmbeddingIndex implements VectorStore: every statement on the index     *)
(* file is a step of the store or none, for every set of units and         *)
(* embedders.  The inductive invariant supplies what the store's actions   *)
(* ask for.                                                                *)
(***************************************************************************)
\* An empty and a legacy file are stores of the local model.
LEMMA InitStore == Init => Store!Init
<1> SUFFICES ASSUME Init PROVE Store!Init
  OBVIOUS
<1> USE ConstantsAssumption, SentinelsAssumption
    DEF Init, Store!Init, StoreName, StoredModel, Stored, IsLocal, ModelIds
<1>1. StoreName \in ModelIds /\ (doubt = {}) = TRUE
  OBVIOUS
<1>2. StoredModel \in [Units -> {StoreName, NoVec}]
  BY DEF EmptyFile, LegacyFile
<1>3. pc # "query"
  BY DEF NoSession
<1> QED
  BY <1>1, <1>2, <1>3

\* A step that leaves the vectors, their name and the trust in it alone, and
\* does not arrive at a query, is the end of a search or no step.
LEMMA QuietStep ==
  ASSUME UNCHANGED <<vec, metaModel, doubt>>, pc' # "query"
  PROVE  Store!Next
BY DEF Store!Next, Store!EndSearch, Store!Idle, StoredModel, StoreName, Stored

\* A bound session for writing does not go on to a query.
LEMMA BoundStep ==
  ASSUME Bound, UNCHANGED <<vec, metaModel, doubt>>, goal # "search"
  PROVE  Store!Next
BY QuietStep DEF Bound

\* The session of a search arrives at its query: what "dirty" says of the
\* vectors is what the store may answer.
LEMMA SearchStep ==
  ASSUME IInv, IInv', UNCHANGED <<vec, metaModel, doubt, emb, dirty>>,
         pc' = "query"
  PROVE  Store!Next
<1> USE DEF Store!Next, Store!Search, Store!Pure, Store!Empty, StoredModel,
            StoreName, Stored, IInv
<1>1. PICK m : m = ModelId[emb]
  OBVIOUS
<1>2. m \in ModelIds /\ dirty \in BOOLEAN
  BY <1>1 DEF TypeOK, ModelIds
<1>3. doubt = {} => \A u \in Units : Stored(u) => (dirty <=> ModelId[vec[u]] # m)
  BY <1>1 DEF DirtyTellsVectors
<1>4. NoVec \notin Embedders /\ \A u \in Units : Stored(u) => vec[u] \in Embedders
  BY SentinelsAssumption DEF TypeOK
<1>5. Store!Search(m)
  BY <1>1, <1>2, <1>3, <1>4
<1> QED
  BY <1>2, <1>5

\* Every action, one step for each: most do not concern the store, and the
\* statements that write vectors or their name are its actions.
LEMMA NextStore == IInv /\ IInv' /\ [Next]_vars => [Store!Next]_(Store!storeVars)
<1> SUFFICES ASSUME IInv, IInv', [Next]_vars
             PROVE  Store!Next \/ UNCHANGED Store!storeVars
  OBVIOUS
<1> USE DEF index, history, embVars, work, opened
<1>1. ASSUME NEW e \in Embedders, Configure(e)
      PROVE  Store!Next
  BY <1>1, QuietStep DEF Configure
<1>2. ASSUME Crash PROVE Store!Next
  BY <1>2, QuietStep DEF Crash, EndSession
<1>3. ASSUME NEW a \in BOOLEAN, NEW w \in BOOLEAN, OpenReadWrite(a, w)
      PROVE  Store!Next
  BY <1>3, QuietStep DEF OpenReadWrite
<1>4. CASE OpenReadOnly
  BY <1>4, QuietStep DEF OpenReadOnly
<1>5. CASE DropTable
  <2>1. Store!Wipe
    BY <1>5 DEF DropTable, Store!Wipe, Store!Idle, StoredModel, StoreName, Stored
  <2> QED
    BY <2>1 DEF Store!Next
<1>6. CASE DeleteMeta
  <2>1. \A u \in Units : ~Stored(u)
    BY <1>6, ConstantsAssumption, SentinelsAssumption
    DEF DeleteMeta, IInv, SessionShape, WidthAgreement, Stored, TypeOK
  <2>2. Store!Rename(LocalId)
    BY <1>6, <2>1 DEF DeleteMeta, Store!Rename, Store!Pure, Store!Idle,
       StoredModel, StoreName, Stored
  <2> QED
    BY <2>2 DEF Store!Next, ModelIds
<1>7. CASE RefreshDirty
  BY <1>7, QuietStep DEF RefreshDirty
<1>8. CASE Close
  BY <1>8, QuietStep DEF Close, EndSession
<1>9. CASE StartSearch
  BY <1>9, QuietStep DEF StartSearch
<1>10. CASE StartReembed
  BY <1>10, QuietStep DEF StartReembed
<1>11. CASE StartFiles
  BY <1>11, QuietStep DEF StartFiles
<1>12. ASSUME NEW new \in SUBSET Units, NEW gone \in SUBSET Units, StartFile(new, gone)
       PROVE  Store!Next
  BY <1>12, QuietStep DEF StartFile
<1>13. CASE BindMissing \/ BindCorrupt \/ BindDecide
  BY <1>13, QuietStep DEF BindMissing, BindCorrupt, BindDecide, Fail, EndSession
<1>14. CASE InferDim
  BY <1>14, QuietStep DEF InferDim
<1>15. CASE InferModel
  <2>1. \A u \in Units : Stored(u) => ModelId[vec[u]] = LocalId
    BY <1>15 DEF InferModel, IInv, MetaShape, IsLocal
  <2>2. Store!Rename(LocalId) \/ Store!Misname(LocalId)
    BY <1>15, <2>1 DEF InferModel, Store!Rename, Store!Misname, Store!Pure,
       Store!Idle, StoredModel, StoreName, Stored
  <2> QED
    BY <2>2 DEF Store!Next, ModelIds
<1>16. CASE BindTarget \/ ProbeFails \/ CreateMismatch \/ StatementFails
  BY <1>16, QuietStep DEF BindTarget, ProbeFails, CreateMismatch, StatementFails,
     Fail, EndSession
<1>17. CASE Probe
  BY <1>17, QuietStep DEF Probe
<1>18. CASE Create
  <2>1. UNCHANGED <<vec, metaModel, doubt, emb>>
    BY <1>18 DEF Create
  <2>2. CASE pc' = "query"
    BY <1>18, <2>1, <2>2, SearchStep DEF Create, Bound
  <2>3. CASE pc' # "query"
    BY <2>1, <2>3, QuietStep
  <2> QED
    BY <2>2, <2>3
<1>19. CASE SetDim
  BY <1>19, BoundStep, QuietStep DEF SetDim, IInv, BindShape, SessionShape, BindSteps
<1>20. CASE SetModel
  <2>1. \A u \in Units : ~Stored(u)
    BY <1>20 DEF SetModel, IInv, BindShape
  <2>2. goal # "search" /\ ModelId[emb] \in ModelIds /\ ModelId[emb] # NoModel
    BY <1>20, SentinelsAssumption
    DEF SetModel, IInv, BindShape, SessionShape, BindSteps, TypeOK, ModelIds
  <2>3. Store!Rename(ModelId[emb])
    BY <1>20, <2>1, <2>2 DEF SetModel, Bound, Store!Rename, Store!Pure, Store!Idle,
       StoredModel, StoreName, Stored
  <2> QED
    BY <2>2, <2>3 DEF Store!Next
<1>21. CASE Embed
  BY <1>21, QuietStep DEF Embed
<1>22. CASE EmbedFails
  BY <1>22, QuietStep DEF EmbedFails, Fail, EndSession
<1>23. ASSUME NEW u \in Units, WriteRow(u)
       PROVE  Store!Next
  BY <1>23, QuietStep DEF WriteRow
<1>24. CASE WriteVec
  <2>1. PICK u \in Units : cur = {u}
    BY <1>24 DEF WriteVec, IInv, WorkShape, TypeOK
  <2>2. PICK m \in ModelIds : m = ModelId[emb]
    BY DEF IInv, TypeOK, ModelIds
  <2>3. vec' = [vec EXCEPT ![u] = emb] /\ emb \in Embedders /\ emb # NoVec
    BY <1>24, <2>1, SentinelsAssumption DEF WriteVec, IInv, TypeOK
  <2>4. StoredModel' = [StoredModel EXCEPT ![u] = m]
    BY <2>2, <2>3 DEF StoredModel, Stored, IInv, TypeOK
  <2>5. StoreName' = StoreName
    BY <1>24 DEF WriteVec, StoreName
  <2>6. doubt' = {} => doubt = {} /\ m = StoreName
    BY <1>24, <2>2, <2>3 DEF WriteVec, IInv, LabelNamesVectors, StoreName, Stored, TypeOK
  <2>7. pc' # "query"
    BY <1>24 DEF WriteVec
  <2>8. Store!Put(u, m)
    BY <2>4, <2>5, <2>6, <2>7 DEF Store!Put, Store!Idle
  <2> QED
    BY <2>8 DEF Store!Next
<1>25. CASE Embedded
  BY <1>25, QuietStep DEF Embedded
<1>26. CASE MarkSynced
  <2>1. \A u \in Units : Stored(u) => vec[u] = emb
    BY <1>26 DEF MarkSynced, IInv, WorkShape, SessionShape, NoOrphanVector
  <2>2. PICK m \in ModelIds : m = ModelId[emb] /\ m # NoModel
    BY SentinelsAssumption DEF IInv, TypeOK, ModelIds
  <2>3. Store!Rename(m)
    BY <1>26, <2>1, <2>2 DEF MarkSynced, Store!Rename, Store!Pure, Store!Idle,
       StoredModel, StoreName, Stored
  <2> QED
    BY <2>3 DEF Store!Next
<1>27. CASE DeleteVecs
  <2>1. Store!Remove(stale)
    BY <1>27 DEF DeleteVecs, Store!Remove, Store!Idle, StoredModel, StoreName,
       Stored, IInv, TypeOK
  <2> QED
    BY <2>1 DEF Store!Next, IInv, TypeOK
<1>28. CASE DeleteUnits
  BY <1>28, QuietStep DEF DeleteUnits
<1>29. CASE UNCHANGED vars
  BY <1>29 DEF vars, Store!storeVars, StoredModel, StoreName, Stored
<1> QED
  BY <1>1, <1>2, <1>3, <1>4, <1>5, <1>6, <1>7, <1>8, <1>9, <1>10, <1>11,
     <1>12, <1>13, <1>14, <1>15, <1>16, <1>17, <1>18, <1>19, <1>20, <1>21,
     <1>22, <1>23, <1>24, <1>25, <1>26, <1>27, <1>28, <1>29 DEF Next

\* The index keeps the promise of the store in every behaviour: sessions,
\* failures, stops and reconfigurations in any order, any units and models.
THEOREM Implements == Spec => ImplementsStore
<1>1. Init => Store!Init
  BY InitStore
<1>2. IInv /\ IInv' /\ [Next]_vars => [Store!Next]_(Store!storeVars)
  BY NextStore
<1>3. Spec => []IInv
  BY Inductive
<1> QED
  BY <1>1, <1>2, <1>3, PTL DEF Spec, ImplementsStore, Store!Spec
=============================================================================
