--------------------------- MODULE EmbeddingIndex ---------------------------
(***************************************************************************)
(* The vector index of agent-coderag: the tables units, unit_embeddings    *)
(* and index_meta of one DuckDB file, and the sessions that open it to     *)
(* search, to sync or to rebuild (storage/duckdb_impl.py, together with    *)
(* the part of services/indexing.py that drives it).                       *)
(*                                                                         *)
(* Every SQL statement outside an explicit transaction commits by itself,  *)
(* so each such statement is an action of its own and the process may stop *)
(* between any two of them.  A session has the file to itself: DuckDB      *)
(* refuses a second writer, and a writer beside readers (IndexAccess).     *)
(***************************************************************************)
EXTENDS Naturals, FiniteSets

CONSTANTS
    Units,      \* ids of code units
    Embedders,  \* embedding models a configuration can select
    ModelId,    \* IEmbedder.model_id of each: several may share one name
    Dim,        \* length of the vectors each one returns
    Unloaded,   \* local embedders whose ONNX file is missing: never embed
    LocalId,    \* LOCAL_EMBEDDING_MODEL_ID
    LegacyDim,  \* EMBEDDING_DIM: vector width before index_meta was kept
    BatchSize,  \* EMBEDDING_BATCH_SIZE
    NoModel,    \* META_MODEL_KEY is absent
    NoVec       \* the unit has no row in unit_embeddings

ModelIds == {ModelId[e] : e \in Embedders} \cup {LocalId}

ASSUME ConstantsAssumption ==
    /\ IsFiniteSet(Units)
    /\ DOMAIN ModelId = Embedders
    /\ Dim \in [Embedders -> Nat \ {0}]
    /\ Unloaded \subseteq {e \in Embedders : ModelId[e] = LocalId}
    /\ LegacyDim \in Nat \ {0}
    /\ BatchSize \in Nat \ {0}

ASSUME SentinelsAssumption ==
    /\ NoVec \notin Embedders
    /\ NoModel \notin ModelIds

VARIABLES
    \* durable: the DuckDB file
    rows,       \* ids in table units
    vec,        \* table unit_embeddings: the embedder whose vector is stored
    width,      \* n of the column type FLOAT[n], 0 when the table is absent
    metaDim,    \* index_meta[META_DIM_KEY], 0 when absent
    metaModel,  \* index_meta[META_MODEL_KEY], NoModel when absent
    \* history: what happened to the file, never read by an action
    doubt,      \* why metaModel may not name the model of the stored vectors
    dimDoubt,   \* metaDim was written for a table dropped since
    \* the embedder object of the process
    emb,
    bound,      \* IEmbedder.dimension, 0 while not bound
    \* the open session (a DuckDBStorage and the call that uses it)
    pc, mode, all, wipe, dirty, isBound, goal, todo, chunk, cur, stale

index   == <<rows, vec, width, metaDim, metaModel>>
history == <<doubt, dimDoubt>>
embVars == <<emb, bound>>
work    == <<goal, todo, chunk, cur, stale>>
opened  == <<mode, all, wipe, dirty, isBound>>
vars    == <<index, history, embVars, pc, opened, work>>

Steps == {"idle", "dropTable", "deleteMeta", "refreshDirty", "ready", "bind",
          "inferDim", "inferModel", "bindTarget", "probe", "create", "setDim",
          "setModel", "embed", "write", "writeVec", "markSynced", "files",
          "deleteVecs", "deleteUnits", "query"}

Stored(u)  == vec[u] # NoVec
IsLocal(e) == ModelId[e] = LocalId

(***************************************************************************)
(* LocalOnnxEmbedder reads its dimension from the loaded session; a remote *)
(* embedder, or a local one without a model file, starts unbound.          *)
(***************************************************************************)
FreshBound(e) == IF IsLocal(e) /\ e \notin Unloaded THEN Dim[e] ELSE 0

NoWork ==
    /\ goal = "none" /\ todo = {} /\ chunk = {} /\ cur = {} /\ stale = {}

NoSession ==
    /\ pc = "idle" /\ mode = "ro" /\ all = FALSE /\ wipe = FALSE
    /\ dirty = FALSE /\ isBound = FALSE
    /\ NoWork

EmptyFile ==
    /\ rows = {}
    /\ vec = [u \in Units |-> NoVec]
    /\ width = 0

\* An index written before index_meta existed: a FLOAT[EMBEDDING_DIM] table
\* holding vectors of a local model, and no meta rows.
LegacyFile ==
    /\ rows \in SUBSET Units
    /\ vec \in [Units -> {NoVec} \cup {e \in Embedders \ Unloaded :
                                          IsLocal(e) /\ Dim[e] = LegacyDim}]
    /\ \A u \in Units : Stored(u) => u \in rows
    /\ width = LegacyDim

Init ==
    /\ EmptyFile \/ LegacyFile
    /\ metaDim = 0 /\ metaModel = NoModel
    /\ doubt = {} /\ dimDoubt = FALSE
    /\ emb \in Embedders /\ bound = FreshBound(emb)
    /\ NoSession
-----------------------------------------------------------------------------
EndSession ==
    /\ pc' = "idle" /\ mode' = "ro" /\ all' = FALSE /\ wipe' = FALSE
    /\ dirty' = FALSE /\ isBound' = FALSE
    /\ goal' = "none" /\ todo' = {} /\ chunk' = {} /\ cur' = {} /\ stale' = {}

\* A new process, or a config() call that drops the embedder: the next
\* operation creates an embedder for whatever configuration then holds.
Configure(e) ==
    /\ pc = "idle"
    /\ emb' = e /\ bound' = FreshBound(e)
    /\ UNCHANGED <<index, history, pc, opened, work>>

\* The process stops at any point of a session; the embedder goes with it.
Crash ==
    /\ pc # "idle"
    /\ EndSession
    /\ bound' = FreshBound(emb)
    /\ UNCHANGED <<index, history, emb>>

\* CodeRAG.sync (all = index_all) and CodeRAG.rebuild (wipe, which implies
\* index_all): open read-write and run apply_rw_schema.
OpenReadWrite(a, w) ==
    /\ pc = "idle"
    /\ w => a
    /\ mode' = "rw" /\ all' = a /\ wipe' = w
    /\ pc' = IF w THEN "dropTable" ELSE "refreshDirty"
    /\ UNCHANGED <<index, history, embVars, dirty, isBound, work>>

\* CodeRAG.search.
OpenReadOnly ==
    /\ pc = "idle"
    /\ pc' = "refreshDirty"
    /\ UNCHANGED <<index, history, embVars, opened, work>>

\* apply_rw_schema: DROP TABLE IF EXISTS unit_embeddings.
DropTable ==
    /\ pc = "dropTable"
    /\ vec' = [u \in Units |-> NoVec]
    /\ width' = 0
    /\ doubt' = IF metaModel = NoModel THEN {} ELSE {"wipe"}
    /\ dimDoubt' = (metaDim # 0)
    /\ pc' = "deleteMeta"
    /\ UNCHANGED <<rows, metaDim, metaModel, embVars, opened, work>>

\* apply_rw_schema: DELETE FROM index_meta, both keys in one statement.
DeleteMeta ==
    /\ pc = "deleteMeta"
    /\ metaDim' = 0 /\ metaModel' = NoModel
    /\ doubt' = {} /\ dimDoubt' = FALSE
    /\ pc' = "refreshDirty"
    /\ UNCHANGED <<rows, vec, width, embVars, opened, work>>

\* Faulty variant of DirtyFromMeta: an unnamed model is taken for clean.
DirtyFromNamedMeta ==
    ~wipe /\ width # 0 /\ metaModel # NoModel /\ metaModel # ModelId[emb]

\* DuckDBStorage._refresh_dirty_from_meta: which model does the index hold?
DirtyFromMeta ==
    /\ ~wipe
    /\ width # 0
    /\ IF metaModel = NoModel THEN ~IsLocal(emb) ELSE metaModel # ModelId[emb]

RefreshDirty ==
    /\ pc = "refreshDirty"
    /\ dirty' = DirtyFromMeta
    /\ pc' = "ready"
    /\ UNCHANGED <<index, history, embVars, mode, all, wipe, isBound, work>>

-----------------------------------------------------------------------------
(***************************************************************************)
(* What the session does with the index.                                   *)
(***************************************************************************)
\* A session that fails, or that is done, closes the connection.
Close ==
    /\ pc \in {"ready", "files", "query"}
    /\ EndSession
    /\ UNCHANGED <<index, history, embVars>>

\* search_units: ensure_embeddings_bound first.
StartSearch ==
    /\ pc = "ready" /\ mode = "ro"
    /\ goal' = "search"
    /\ pc' = "bind"
    /\ UNCHANGED <<index, history, embVars, opened, todo, chunk, cur, stale>>

\* sync_project on a dirty index without --all raises (Close); with --all it
\* re-embeds every stored unit.  Without units _embed_and_upsert returns
\* before it binds the embedder.
StartReembed ==
    /\ pc = "ready" /\ mode = "rw"
    /\ dirty /\ all
    /\ goal' = "reembed" /\ todo' = rows
    /\ pc' = IF rows = {} THEN "markSynced" ELSE "bind"
    /\ UNCHANGED <<index, history, embVars, opened, chunk, cur, stale>>

\* Faulty variant of StartFiles: incremental sync of a dirty index.
StartFilesDirty ==
    /\ pc = "ready" /\ mode = "rw"
    /\ pc' = "files"
    /\ UNCHANGED <<index, history, embVars, opened, work>>

StartFiles ==
    /\ pc = "ready" /\ mode = "rw"
    /\ ~dirty
    /\ pc' = "files"
    /\ UNCHANGED <<index, history, embVars, opened, work>>

\* sync_file: units in "new" need an embedding, units in "gone" are no longer
\* in the file.  has_embedding and delete_stale_units bind the embedder.
StartFile(new, gone) ==
    /\ pc = "files"
    /\ new \cap gone = {} /\ gone \subseteq rows
    /\ goal' = "file" /\ todo' = new /\ stale' = gone
    /\ pc' = IF isBound THEN "embed" ELSE "bind"
    /\ UNCHANGED <<index, history, embVars, opened, chunk, cur>>

\* An exception inside sync_file fails that file only (sync_project collects
\* it); anywhere else it ends the session.
Fail ==
    IF goal = "file"
    THEN /\ pc' = "files"
         /\ goal' = "none" /\ todo' = {} /\ chunk' = {} /\ cur' = {}
         /\ stale' = {}
         /\ UNCHANGED opened
    ELSE EndSession

\* A statement raises, or the thread of the connection does: what the session
\* did before it stays.  Failures of the embedder are EmbedFails, ProbeFails.
Statements == Steps \ {"idle", "ready", "bindTarget", "probe", "embed", "files"}

StatementFails ==
    /\ pc \in Statements
    /\ Fail
    /\ UNCHANGED <<index, history, embVars>>
-----------------------------------------------------------------------------
(***************************************************************************)
(* DuckDBStorage._bind_embeddings and bind_embedder_dimension.             *)
(***************************************************************************)
HasTable  == width # 0 /\ ~wipe
FullMeta  == metaDim # 0 /\ metaModel # NoModel

\* _bind_embeddings with a read-only connection: EMBEDDINGS_MISSING.
BindMissing ==
    /\ pc = "bind"
    /\ mode = "ro" /\ width = 0
    /\ Fail
    /\ UNCHANGED <<index, history, embVars>>

\* bind_embedder_dimension: STORAGE_CORRUPT.
BindCorrupt ==
    /\ pc = "bind"
    /\ HasTable /\ FullMeta /\ width # metaDim
    /\ Fail
    /\ UNCHANGED <<index, history, embVars>>

\* bind_embedder_dimension: _read_state and the branch it selects.
BindDecide ==
    /\ pc = "bind"
    /\ ~(mode = "ro" /\ width = 0)
    /\ ~(HasTable /\ FullMeta /\ width # metaDim)
    /\ pc' = IF HasTable /\ FullMeta
             THEN IF metaModel = ModelId[emb] THEN "bindTarget" ELSE "probe"
             ELSE IF HasTable
             THEN IF mode = "rw" THEN "inferDim"
                  ELSE IF IsLocal(emb) THEN "bindTarget" ELSE "probe"
             ELSE "probe"
    /\ UNCHANGED <<index, history, embVars, opened, work>>

\* Faulty variant of InferDim: EMBEDDING_DIM whatever the column says.
InferLegacyDim ==
    /\ pc = "inferDim"
    /\ metaDim' = LegacyDim /\ dimDoubt' = FALSE
    /\ pc' = "inferModel"
    /\ UNCHANGED <<rows, vec, width, metaModel, doubt, embVars, opened, work>>

\* _write_inferred, first statement.
InferDim ==
    /\ pc = "inferDim"
    /\ metaDim' = width /\ dimDoubt' = FALSE
    /\ pc' = "inferModel"
    /\ UNCHANGED <<rows, vec, width, metaModel, doubt, embVars, opened, work>>

\* _write_inferred, second statement: whatever META_MODEL_KEY held before, and
\* whatever the session goes on to write.  A table without a model's name is a
\* legacy one, or what a bind of this session left that failed after CREATE.
InferModel ==
    /\ pc = "inferModel"
    /\ metaModel' = LocalId
    /\ doubt' = IF metaModel \in {NoModel, LocalId} /\ (IsLocal(emb) \/ dirty)
                THEN doubt ELSE doubt \cup {"infer"}
    /\ pc' = IF IsLocal(emb) THEN "bindTarget" ELSE "probe"
    /\ UNCHANGED <<rows, vec, width, metaDim, dimDoubt, embVars, opened, work>>

\* _bind_embedder_to_target: EMBEDDING_MISMATCH or bind to the table's width.
BindTarget ==
    /\ pc = "bindTarget"
    /\ IF bound \in {0, width}
       THEN /\ bound' = width
            /\ pc' = "create"
            /\ UNCHANGED <<opened, work>>
       ELSE /\ Fail
            /\ UNCHANGED bound
    /\ UNCHANGED <<index, history, emb>>

\* _probe_or_bind_dimension: a bound embedder keeps its dimension, an unbound
\* one embeds a probe text.
Probe ==
    /\ pc = "probe"
    /\ bound # 0 \/ emb \notin Unloaded
    /\ bound' = IF bound # 0 THEN bound ELSE Dim[emb]
    /\ pc' = "create"
    /\ UNCHANGED <<index, history, emb, opened, work>>

ProbeFails ==
    /\ pc = "probe"
    /\ bound = 0
    /\ Fail
    /\ UNCHANGED <<index, history, embVars>>

\* ensure_embeddings_bound returns.
Bound ==
    /\ isBound' = TRUE /\ wipe' = FALSE
    /\ pc' = IF goal = "search" THEN "query" ELSE "embed"
    /\ UNCHANGED <<mode, all, dirty, work>>

\* _create_table_and_sync_meta up to CREATE TABLE IF NOT EXISTS.
CreateMismatch ==
    /\ pc = "create"
    /\ width \notin {0, bound}
    /\ Fail
    /\ UNCHANGED <<index, history, embVars>>

\* Faulty variant of Create: no comparison with the existing column.
CreateUnchecked ==
    /\ pc = "create"
    /\ IF mode = "ro"
       THEN Bound /\ UNCHANGED width
       ELSE /\ width' = IF width = 0 THEN bound ELSE width
            /\ pc' = "setDim"
            /\ UNCHANGED <<opened, work>>
    /\ UNCHANGED <<rows, vec, metaDim, metaModel, history, embVars>>

Create ==
    /\ pc = "create"
    /\ width \in {0, bound}
    /\ IF mode = "ro"
       THEN /\ Bound
            /\ UNCHANGED width
       ELSE /\ width' = bound
            /\ pc' = "setDim"
            /\ UNCHANGED <<opened, work>>
    /\ UNCHANGED <<rows, vec, metaDim, metaModel, history, embVars>>

\* _meta_set(META_DIM_KEY), and the test of the META_MODEL_KEY read before.
SetDim ==
    /\ pc = "setDim"
    /\ metaDim' = bound /\ dimDoubt' = FALSE
    /\ IF metaModel = NoModel
       THEN pc' = "setModel" /\ UNCHANGED <<opened, work>>
       ELSE Bound
    /\ UNCHANGED <<rows, vec, width, metaModel, doubt, embVars>>

SetModel ==
    /\ pc = "setModel"
    /\ metaModel' = ModelId[emb]
    /\ Bound
    /\ UNCHANGED <<rows, vec, width, metaDim, history, embVars>>
-----------------------------------------------------------------------------
(***************************************************************************)
(* _embed_and_upsert, upsert_unit, mark_embedding_model_synced and         *)
(* delete_stale_units.                                                     *)
(***************************************************************************)
Least(a, b) == IF a < b THEN a ELSE b

\* The vectors returned for one chunk of texts.  A wrong length is refused,
\* by OpenAiEmbedder.aembed or by the FLOAT[n] column.
Embed ==
    /\ pc = "embed"
    /\ todo # {}
    /\ emb \notin Unloaded /\ bound = Dim[emb]
    /\ \E batch \in SUBSET todo :
        /\ Cardinality(batch) = Least(BatchSize, Cardinality(todo))
        /\ chunk' = batch /\ todo' = todo \ batch
    /\ pc' = "write"
    /\ UNCHANGED <<index, history, embVars, opened, goal, cur, stale>>

\* Faulty variant of EmbedFails: a failed request is skipped, not raised.
EmbedFailsSilently ==
    /\ pc = "embed"
    /\ todo # {}
    /\ todo' = {}
    /\ UNCHANGED <<index, history, embVars, pc, opened, goal, chunk, cur, stale>>

EmbedFails ==
    /\ pc = "embed"
    /\ todo # {}
    /\ Fail
    /\ UNCHANGED <<index, history, embVars>>

\* upsert_unit: INSERT OR REPLACE INTO units.
WriteRow(u) ==
    /\ pc = "write"
    /\ u \in chunk
    /\ rows' = rows \cup {u}
    /\ cur' = {u} /\ chunk' = chunk \ {u}
    /\ pc' = "writeVec"
    /\ UNCHANGED <<vec, width, metaDim, metaModel, history, embVars, opened,
                   goal, todo, stale>>

\* upsert_unit: INSERT OR REPLACE INTO unit_embeddings.
WriteVec ==
    /\ pc = "writeVec"
    /\ vec' = [u \in Units |-> IF u \in cur THEN emb ELSE vec[u]]
    /\ doubt' = IF goal = "reembed" THEN doubt \cup {"reembed"} ELSE doubt
    /\ cur' = {}
    /\ pc' = IF chunk = {} THEN "embed" ELSE "write"
    /\ UNCHANGED <<rows, width, metaDim, metaModel, dimDoubt, embVars, opened,
                   goal, todo, chunk, stale>>

\* _embed_and_upsert returns to _reembed_all_units or to sync_file.
Embedded ==
    /\ pc = "embed"
    /\ todo = {}
    /\ pc' = IF goal = "reembed" THEN "markSynced" ELSE "deleteVecs"
    /\ UNCHANGED <<index, history, embVars, opened, work>>

\* Faulty variant of MarkSynced: the configured alias instead of model_id.
MarkSyncedAlias ==
    /\ pc = "markSynced"
    /\ metaModel' = emb
    /\ doubt' = {} /\ dirty' = FALSE /\ goal' = "none"
    /\ pc' = "files"
    /\ UNCHANGED <<rows, vec, width, metaDim, dimDoubt, embVars, mode, all,
                   wipe, isBound, todo, chunk, cur, stale>>

MarkSynced ==
    /\ pc = "markSynced"
    /\ metaModel' = ModelId[emb]
    /\ doubt' = {}
    /\ dirty' = FALSE
    /\ goal' = "none"
    /\ pc' = "files"
    /\ UNCHANGED <<rows, vec, width, metaDim, dimDoubt, embVars, mode, all,
                   wipe, isBound, todo, chunk, cur, stale>>

\* Faulty variant of DeleteVecs: the units go first, so the subquery that
\* finds the embeddings' ids selects nothing.
DeleteUnitsFirst ==
    /\ pc = "deleteVecs"
    /\ rows' = rows \ stale
    /\ pc' = "deleteUnits"
    /\ UNCHANGED <<vec, width, metaDim, metaModel, history, embVars, opened,
                   work>>

\* delete_stale_units: the embeddings first, the units last.
DeleteVecs ==
    /\ pc = "deleteVecs"
    /\ vec' = [u \in Units |-> IF u \in stale THEN NoVec ELSE vec[u]]
    /\ pc' = "deleteUnits"
    /\ UNCHANGED <<rows, width, metaDim, metaModel, history, embVars, opened,
                   work>>

DeleteUnits ==
    /\ pc = "deleteUnits"
    /\ rows' = rows \ stale
    /\ stale' = {} /\ goal' = "none"
    /\ pc' = "files"
    /\ UNCHANGED <<vec, width, metaDim, metaModel, history, embVars, opened,
                   todo, chunk, cur>>

Next ==
    \/ \E e \in Embedders : Configure(e)
    \/ Crash
    \/ \E a, w \in BOOLEAN : OpenReadWrite(a, w)
    \/ OpenReadOnly
    \/ DropTable \/ DeleteMeta \/ RefreshDirty \/ Close
    \/ StartSearch \/ StartReembed \/ StartFiles
    \/ \E new, gone \in SUBSET Units : StartFile(new, gone)
    \/ BindMissing \/ BindCorrupt \/ BindDecide
    \/ InferDim \/ InferModel \/ BindTarget \/ Probe \/ ProbeFails
    \/ CreateMismatch \/ Create \/ SetDim \/ SetModel \/ StatementFails
    \/ Embed \/ EmbedFails
    \/ \E u \in Units : WriteRow(u)
    \/ WriteVec \/ Embedded \/ MarkSynced \/ DeleteVecs \/ DeleteUnits

Spec == Init /\ [][Next]_vars
-----------------------------------------------------------------------------
(***************************************************************************)
(* Properties.                                                             *)
(***************************************************************************)
\* Every variable holds a value of its kind; 0 stands for an absent table,
\* key or binding.
TypeOK ==
    /\ rows \in SUBSET Units
    /\ vec \in [Units -> Embedders \cup {NoVec}]
    /\ width \in Nat /\ metaDim \in Nat /\ bound \in Nat
    /\ metaModel \in ModelIds \cup {NoModel}
    /\ doubt \in SUBSET {"wipe", "reembed", "infer"}
    /\ dimDoubt \in BOOLEAN
    /\ emb \in Embedders
    /\ pc \in Steps
    /\ mode \in {"ro", "rw"}
    /\ all \in BOOLEAN /\ wipe \in BOOLEAN /\ dirty \in BOOLEAN
    /\ isBound \in BOOLEAN
    /\ goal \in {"none", "search", "reembed", "file"}
    /\ todo \in SUBSET Units /\ chunk \in SUBSET Units
    /\ cur \in SUBSET Units /\ stale \in SUBSET Units

\* No stop of the process, between any two statements of upsert_unit or of
\* delete_stale_units, leaves a vector whose unit is gone: has_embedding would
\* report it and the unit, once back, would keep it.
NoOrphanVector == \A u \in Units : Stored(u) => u \in rows

\* A table holds vectors of its own width only, and an embedder that
\* ensure_embeddings_bound accepted is bound to that width: neither an insert
\* nor array_distance ever meets two lengths, whatever was reconfigured.
WidthAgreement ==
    /\ \A u \in Units : Stored(u) => width = Dim[vec[u]]
    /\ isBound => width # 0 /\ bound = width

\* STORAGE_CORRUPT is reported only after a rebuild stopped between the DROP
\* and the DELETE of apply_rw_schema: no other stop leaves index_meta with a
\* dimension that is not the table's.
DimensionAgrees ==
    (width # 0 /\ metaDim # 0 /\ ~dimDoubt) => metaDim = width

\* index_meta names the model of every stored vector (an absent name means
\* the local model), except where one of three accidents has happened and no
\* re-embed has completed since: a rebuild stopped before DeleteMeta, a
\* re-embed broken off, or an inference on a table whose bind had failed or
\* whose name was another, in a session that embeds with a remote model.
LabelNamesVectors ==
    doubt = {} =>
        \A u \in Units : Stored(u) =>
            ModelId[vec[u]] = IF metaModel = NoModel THEN LocalId ELSE metaModel

\* embedding_model_dirty, read by search_units and sync_project long after it
\* was computed, is what the vectors are: set exactly when they are not those
\* of the session's embedder.
DirtyTellsVectors ==
    (doubt = {} /\ pc \notin {"idle", "dropTable", "deleteMeta", "refreshDirty"}) =>
        \A u \in Units : Stored(u) => (dirty <=> ModelId[vec[u]] # ModelId[emb])

\* Whoever writes META_MODEL_KEY (inference, first bind, re-embed) writes the
\* model of every vector then stored, in every history of the file.
RelabelIsTruthful ==
    [][metaModel' # metaModel /\ metaModel' # NoModel =>
         \A u \in Units : vec'[u] # NoVec => ModelId[vec'[u]] = metaModel']_vars

\* _reembed_all_units declares the index synced only when every stored unit
\* has a vector of the new model, whatever failed or stopped before it.
SyncedIsComplete ==
    [][goal = "reembed" /\ metaModel' # metaModel /\ pc' = "files" =>
         \A u \in rows : vec[u] # NoVec /\ ModelId[vec[u]] = metaModel']_vars

(***************************************************************************)
(* What search_units promises with its warning: without one, the vectors   *)
(* it ranks are of the model that embeds the query.  The code keeps the    *)
(* promise unless one of the causes in "doubt" happened.                   *)
(***************************************************************************)
\* An unwarned search compares vectors of one model only.
UnwarnedSearchIsPure ==
    (pc = "query" /\ ~dirty) =>
        \A u \in Units : Stored(u) => ModelId[vec[u]] = ModelId[emb]

\* The promise after a re-embed that failed or stopped half way.
PureAfterBrokenReembed == doubt = {"reembed"} => UnwarnedSearchIsPure

(***************************************************************************)
(* The index as its users see it: VectorStore, with the vectors told apart *)
(* by model_id, an absent name read as the local model's, and a search     *)
(* while the session is at its query.                                      *)
(***************************************************************************)
StoredModel == [u \in Units |-> IF Stored(u) THEN ModelId[vec[u]] ELSE NoVec]
StoreName   == IF metaModel = NoModel THEN LocalId ELSE metaModel

Store == INSTANCE VectorStore WITH
    content <- StoredModel,
    name    <- StoreName,
    trusted <- doubt = {},
    asker   <- IF pc = "query" THEN ModelId[emb] ELSE NoModel,
    warned  <- pc = "query" /\ dirty

\* Whatever sessions, failures, stops and changes of the configuration come
\* after each other, the statements on the DuckDB file add up to the promise
\* of search_units: trust in the recorded model is lost in the three named
\* ways only, regained only with all vectors of one model, and while it lasts a
\* search warns if and only if it ranks vectors of another model.
ImplementsStore == Store!Spec
=============================================================================
