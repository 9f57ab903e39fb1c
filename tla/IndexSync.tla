------------------------------ MODULE IndexSync ------------------------------
(***************************************************************************)
(* sync_project of services/indexing.py: asyncio workers take paths from a *)
(* queue; each parses its file, summarises and embeds what changed, writes *)
(* it and deletes what the file no longer holds.  Files are edited at any  *)
(* time, the language model, the embedder and the reading of a file fail,  *)
(* and the process may stop between two SQL statements.                    *)
(*                                                                         *)
(* A worker runs until it awaits, so an action is what it does from one    *)
(* await to the next.  All SQL runs on the connection's one thread: what   *)
(* one call executes there is not interleaved with the calls of others.    *)
(*                                                                         *)
(* The embedder is taken to be the index's own (EmbeddingIndex is about    *)
(* the other case), and a file's text to be its units: for each the code,  *)
(* whose hash is code_hash, and the comment before it, which is not hashed.*)
(***************************************************************************)
EXTENDS Naturals, FiniteSets, FiniteSetsExt

CONSTANTS
    Paths,           \* path names the tree walk yields
    Files,           \* stored paths (project_relative_posix resolves links)
    StoredPath,      \* the file of each path
    Units,           \* ids of units
    FileOf,          \* the file each unit's id is in
    Codes,           \* bodies a unit may have; a summary is named by its code
    Docs,            \* comments a unit may have
    Workers,         \* as many as max_concurrency allows
    BatchSize,       \* EMBEDDING_BATCH_SIZE
    None,            \* no unit, no row, no vector
    MaxChanges,      \* bound: edits of files and of the configuration
    MaxFaults,       \* bound: failures of services and stops of the process
    MaxSyncs         \* bound: runs of sync_project

Texts     == [code : Codes, doc : Docs]
Summaries == {"null", "empty"} \cup Codes
Rows      == [code : Codes, doc : Docs, summary : Summaries]
Vectors   == [of : Codes, doc : Docs \cup {None}]

ASSUME SyncAssumption ==
    /\ StoredPath \in [Paths -> Files] /\ IsFiniteSet(Paths)
    /\ FileOf \in [Units -> Files] /\ IsFiniteSet(Units)
    /\ IsFiniteSet(Workers) /\ Workers # {} /\ BatchSize \in Nat \ {0}
    /\ {None, "null", "empty"} \cap Codes = {}
    /\ None \notin Docs \cup Units \cup Paths
    /\ None \notin Texts \cup Rows \cup Vectors

VARIABLES
    source,    \* the text of each unit in its file, None when it is not there
    fileState, \* "ok", "unreadable" or "gone"
    llm,       \* DistillerConfig.is_llm_configured
    row,       \* table units
    vec,       \* table unit_embeddings: the text that was embedded
    running, force, asked, queue, failures,  \* the sync_project call
    pc, path, snap, todo, unit, pending, chunk,  \* its workers
    \* history, never read by an action
    touched,   \* files changed since the sync began
    unread,    \* files whose reading failed in this sync
    torn,      \* units whose row was replaced, and then a stop or an error
    unsummed,  \* units for which the language model has ever failed
    changes, faults, syncs

work    == <<path, snap, todo, unit, pending, chunk>>
tables  == <<row, vec>>
tree    == <<source, fileState>>
call    == <<running, force, asked>>
noted   == <<touched, unread, torn, unsummed>>
counts  == <<changes, faults, syncs>>
vars    == <<tree, llm, tables, call, queue, failures, pc, work, noted, counts>>

Truthy(summary) == summary \in Codes

\* unit_embedding_text: the summary, else the signature and the comment.
EmbeddingText(r) ==
    IF Truthy(r.summary) THEN [of |-> r.summary, doc |-> None]
    ELSE [of |-> r.code, doc |-> r.doc]

Nothing == [u \in Units |-> None]
Held(f) == {u \in DOMAIN f : f[u] # None}

Idle == [w \in Workers |-> "off"]
NoWork ==
    /\ path = [w \in Workers |-> None]
    /\ snap = [w \in Workers |-> Nothing]
    /\ todo = [w \in Workers |-> {}]
    /\ unit = [w \in Workers |-> [id |-> None]]
    /\ pending = [w \in Workers |-> Nothing]
    /\ chunk = [w \in Workers |-> Nothing]

Init ==
    /\ source \in [Units -> Texts \cup {None}]
    /\ fileState = [f \in Files |-> "ok"]
    /\ llm \in BOOLEAN
    /\ row = Nothing /\ vec = Nothing
    /\ running = FALSE /\ force = FALSE /\ asked = {} /\ queue = {}
    /\ failures = {}
    /\ pc = Idle /\ NoWork
    /\ touched = {} /\ unread = {} /\ torn = {} /\ unsummed = {}
    /\ changes = 0 /\ faults = 0 /\ syncs = 0
-----------------------------------------------------------------------------
(***************************************************************************)
(* The user, at any time.                                                  *)
(***************************************************************************)
Change(files) ==
    /\ changes < MaxChanges
    /\ changes' = changes + 1
    /\ touched' = IF running THEN touched \cup files ELSE touched
    /\ UNCHANGED <<llm, tables, call, queue, failures, pc, work, unread, torn,
                   unsummed, faults, syncs>>

EditUnit(u, text) ==
    /\ source[u] # text
    /\ fileState[FileOf[u]] # "unreadable"
    /\ source' = [source EXCEPT ![u] = text]
    /\ fileState' = [fileState EXCEPT ![FileOf[u]] = "ok"]
    /\ Change({FileOf[u]})

DeleteFile(f) ==
    /\ fileState[f] = "ok"
    /\ fileState' = [fileState EXCEPT ![f] = "gone"]
    /\ source' = [u \in Units |-> IF FileOf[u] = f THEN None ELSE source[u]]
    /\ Change({f})

\* Permissions or an I/O error: the file is there and cannot be read.
TogglePermission(f) ==
    /\ fileState[f] # "gone"
    /\ fileState' = [fileState EXCEPT ![f] = IF @ = "ok" THEN "unreadable" ELSE "ok"]
    /\ UNCHANGED source
    /\ Change({f})

\* A language model is configured, or its configuration removed.
ToggleLlm ==
    /\ ~running
    /\ changes < MaxChanges
    /\ changes' = changes + 1
    /\ llm' = ~llm
    /\ UNCHANGED <<tree, tables, call, queue, failures, pc, work, noted, faults, syncs>>

\* sync_project on the paths run_sync collected: one file, a directory or the
\* tree.  The queue's order is the walk's, which is not specified.
Start(paths, f) ==
    /\ ~running /\ syncs < MaxSyncs
    /\ paths # {}
    /\ \A p \in paths : fileState[StoredPath[p]] # "gone"
    /\ running' = TRUE /\ force' = f /\ asked' = paths /\ queue' = paths
    /\ failures' = {}
    /\ \E team \in SUBSET Workers :
        /\ Cardinality(team) = Min({Cardinality(paths), Cardinality(Workers)})
        /\ pc' = [w \in Workers |-> IF w \in team THEN "take" ELSE "off"]
    /\ touched' = {} /\ unread' = {}
    /\ syncs' = syncs + 1
    /\ UNCHANGED <<tree, llm, tables, work, torn, unsummed, changes, faults>>
-----------------------------------------------------------------------------
(***************************************************************************)
(* One worker: sync_project's worker(), sync_file, _process_unit.          *)
(***************************************************************************)
\* Inside one closure on the connection's thread: upsert_unit between its two
\* inserts, delete_stale_units between its deletes.
ThreadFree == \A w \in Workers : pc[w] \notin {"writeVec", "deleteUnits"}

Goto(w, step) == pc' = [pc EXCEPT ![w] = step]

Reset(w) ==
    /\ path' = [path EXCEPT ![w] = None]
    /\ snap' = [snap EXCEPT ![w] = Nothing]
    /\ todo' = [todo EXCEPT ![w] = {}]
    /\ unit' = [unit EXCEPT ![w] = [id |-> None]]
    /\ pending' = [pending EXCEPT ![w] = Nothing]
    /\ chunk' = [chunk EXCEPT ![w] = Nothing]

\* The steps of sync_file that may raise: a statement, or the embedder at
\* "next" when a batch is due.  (A failing summarize is DistillFails.)
Raising == {"next", "check", "upsert", "write", "writeVec", "deleteUnits"}

\* Between the inserts of upsert_unit the first has been committed.
Torn(w) == IF pc[w] = "writeVec" THEN torn \cup {unit[w].id} ELSE torn

\* Faulty variant of Fail: reports the stored path instead of the path.
FailAsStored(w) ==
    /\ pc[w] \in Raising
    /\ faults < MaxFaults
    /\ faults' = faults + 1
    /\ failures' = failures \cup {StoredPath[path[w]]}
    /\ torn' = Torn(w)
    /\ Goto(w, "take")
    /\ Reset(w)
    /\ UNCHANGED <<tree, llm, tables, call, queue, touched, unread, unsummed,
                   changes, syncs>>

\* Faulty variant of Fail: the exception is logged and not collected.
FailUnreported(w) ==
    /\ pc[w] \in Raising
    /\ faults < MaxFaults
    /\ faults' = faults + 1
    /\ torn' = Torn(w)
    /\ Goto(w, "take")
    /\ Reset(w)
    /\ UNCHANGED <<tree, llm, tables, call, queue, failures, touched, unread,
                   unsummed, changes, syncs>>

\* The worker's except clause: the path fails, the worker goes on.
Fail(w) ==
    /\ pc[w] \in Raising
    /\ faults < MaxFaults
    /\ faults' = faults + 1
    /\ failures' = failures \cup {path[w]}
    /\ torn' = Torn(w)
    /\ Goto(w, "take")
    /\ Reset(w)
    /\ UNCHANGED <<tree, llm, tables, call, queue, touched, unread, unsummed,
                   changes, syncs>>

\* The worker takes a path and parses its file (distill_file): an exception
\* while reading yields no units.  Nothing observes the moment between the
\* two, so they are one step, taken when the file is read.
Take(w, p) ==
    LET f == StoredPath[p]
        parsed == [u \in Units |->
                     IF FileOf[u] = f /\ fileState[f] = "ok" THEN source[u] ELSE None]
    IN
    /\ pc[w] = "take" /\ p \in queue
    /\ queue' = queue \ {p}
    /\ path' = [path EXCEPT ![w] = p]
    /\ snap' = [snap EXCEPT ![w] = parsed]
    /\ todo' = [todo EXCEPT ![w] = Held(parsed)]
    /\ unread' = IF fileState[f] = "unreadable" THEN unread \cup {f} ELSE unread
    /\ Goto(w, "next")
    /\ UNCHANGED <<tree, llm, tables, call, failures, unit, pending, chunk,
                   touched, torn, unsummed, counts>>

\* distill_file: GrammarNotFoundError is not swallowed, and the path fails.
TakeFails(w, p) ==
    /\ pc[w] = "take" /\ p \in queue
    /\ faults < MaxFaults
    /\ faults' = faults + 1
    /\ queue' = queue \ {p}
    /\ failures' = failures \cup {p}
    /\ UNCHANGED <<tree, llm, tables, call, pc, work, noted, changes, syncs>>

\* Faulty variant of QueueEmpty: queue.get() where get_nowait() is meant.
QueueWait(w) ==
    /\ pc[w] = "take" /\ queue = {}
    /\ UNCHANGED vars

QueueEmpty(w) ==
    /\ pc[w] = "take" /\ queue = {}
    /\ Goto(w, "done")
    /\ UNCHANGED <<tree, llm, tables, call, queue, failures, work, noted, counts>>

\* Faulty variant of ShouldDistill: any summary will do.
ShouldDistillOnce(existing, text) ==
    force \/ existing = None \/ ~Truthy(existing.summary)

ShouldDistill(existing, text) ==
    \/ force
    \/ existing = None
    \/ existing.code # text.code
    \/ ~Truthy(existing.summary)

\* _process_unit up to the call of summarize: get_unit, _should_distill_unit.
GetUnit(w, u) ==
    LET text == snap[w][u]
        existing == row[u]
        distill == ShouldDistill(existing, text)
    IN
    /\ pc[w] = "next" /\ ThreadFree
    /\ u \in todo[w]
    /\ todo' = [todo EXCEPT ![w] = @ \ {u}]
    /\ unit' = [unit EXCEPT ![w] =
                  [id |-> u, existing |-> existing,
                   summary |-> IF distill THEN "null" ELSE existing.summary]]
    /\ Goto(w, IF distill THEN "distill" ELSE "check")
    /\ UNCHANGED <<tree, llm, tables, call, queue, failures, path, snap, pending,
                   chunk, noted, counts>>

\* Distiller.summarize: "" without a language model.
Distill(w) ==
    LET u == unit[w].id IN
    /\ pc[w] = "distill"
    /\ unit' = [unit EXCEPT ![w].summary = IF llm THEN snap[w][u].code ELSE "empty"]
    /\ Goto(w, "check")
    /\ UNCHANGED <<tree, llm, tables, call, queue, failures, path, snap, todo,
                   pending, chunk, noted, counts>>

\* _distill_unit_summary: the except clause keeps the summary there was.
DistillFails(w) ==
    LET u == unit[w].id
        existing == unit[w].existing
    IN
    /\ pc[w] = "distill" /\ llm
    /\ faults < MaxFaults
    /\ faults' = faults + 1
    /\ unit' = [unit EXCEPT ![w].summary =
                  IF existing = None THEN "null" ELSE existing.summary]
    /\ unsummed' = unsummed \cup {u}
    /\ Goto(w, "check")
    /\ UNCHANGED <<tree, llm, tables, call, queue, failures, path, snap, todo,
                   pending, chunk, touched, unread, torn, changes, syncs>>

\* Faulty variant of Check: the hashes are not compared.
CheckSummaryOnly(w) ==
    LET u == unit[w].id
        existing == unit[w].existing
        new == [code |-> snap[w][u].code, doc |-> snap[w][u].doc,
                summary |-> unit[w].summary]
    IN
    /\ pc[w] = "check" /\ ThreadFree
    /\ IF existing # None /\ existing.summary = new.summary /\ vec[u] # None
       THEN Goto(w, "upsert") /\ UNCHANGED pending
       ELSE Goto(w, "next") /\ pending' = [pending EXCEPT ![w][u] = new]
    /\ UNCHANGED <<tree, llm, tables, call, queue, failures, path, snap, todo,
                   unit, chunk, noted, counts>>

\* _unit_needs_embedding: has_embedding, then a comparison with the row that
\* get_unit returned.
Check(w) ==
    LET u == unit[w].id
        existing == unit[w].existing
        new == [code |-> snap[w][u].code, doc |-> snap[w][u].doc,
                summary |-> unit[w].summary]
        unchanged == /\ existing # None
                     /\ existing.code = new.code /\ existing.summary = new.summary
                     /\ vec[u] # None
    IN
    /\ pc[w] = "check" /\ ThreadFree
    /\ IF unchanged
       THEN Goto(w, "upsert") /\ UNCHANGED pending
       ELSE Goto(w, "next") /\ pending' = [pending EXCEPT ![w][u] = new]
    /\ UNCHANGED <<tree, llm, tables, call, queue, failures, path, snap, todo,
                   unit, chunk, noted, counts>>

\* upsert_unit without a vector.
Upsert(w) ==
    LET u == unit[w].id IN
    /\ pc[w] = "upsert" /\ ThreadFree
    /\ row' = [row EXCEPT ![u] = [code |-> snap[w][u].code, doc |-> snap[w][u].doc,
                                  summary |-> unit[w].summary]]
    /\ Goto(w, "next")
    /\ UNCHANGED <<tree, llm, vec, call, queue, failures, work, noted, counts>>

\* _embed_and_upsert: the vectors of one batch.
Embed(w) ==
    /\ pc[w] = "next" /\ todo[w] = {}
    /\ Held(pending[w]) # {}
    /\ \E batch \in SUBSET Held(pending[w]) :
        /\ Cardinality(batch) = Min({BatchSize, Cardinality(Held(pending[w]))})
        /\ chunk' = [chunk EXCEPT ![w] =
                       [u \in Units |-> IF u \in batch THEN pending[w][u] ELSE None]]
        /\ pending' = [pending EXCEPT ![w] =
                         [u \in Units |-> IF u \in batch THEN None ELSE @[u]]]
    /\ Goto(w, "write")
    /\ UNCHANGED <<tree, llm, tables, call, queue, failures, path, snap, todo,
                   unit, noted, counts>>

\* upsert_unit with a vector, first insert.
WriteRow(w, u) ==
    /\ pc[w] = "write" /\ ThreadFree
    /\ chunk[w][u] # None
    /\ row' = [row EXCEPT ![u] = chunk[w][u]]
    /\ unit' = [unit EXCEPT ![w] = [id |-> u]]
    /\ Goto(w, "writeVec")
    /\ UNCHANGED <<tree, llm, vec, call, queue, failures, path, snap, todo,
                   pending, chunk, noted, counts>>

\* upsert_unit with a vector, second insert.
WriteVec(w) ==
    LET u == unit[w].id IN
    /\ pc[w] = "writeVec"
    /\ vec' = [vec EXCEPT ![u] = EmbeddingText(chunk[w][u])]
    /\ torn' = torn \ {u}
    /\ chunk' = [chunk EXCEPT ![w][u] = None]
    /\ Goto(w, IF Held(chunk[w]) = {u} THEN "next" ELSE "write")
    /\ UNCHANGED <<tree, llm, row, call, queue, failures, path, snap, todo, unit,
                   pending, touched, unread, unsummed, counts>>

\* Faulty variant of Gone: without "id NOT IN (current ids)".
GoneAll(w) == {u \in Units : FileOf[u] = StoredPath[path[w]]}

Gone(w) == {u \in Units : FileOf[u] = StoredPath[path[w]] /\ snap[w][u] = None}

\* delete_stale_units: the embeddings of units the parse did not find.
DeleteVecs(w) ==
    /\ pc[w] = "next" /\ ThreadFree
    /\ todo[w] = {} /\ Held(pending[w]) = {}
    /\ vec' = [u \in Units |->
                 IF u \in Gone(w) /\ row[u] # None THEN None ELSE vec[u]]
    /\ Goto(w, "deleteUnits")
    /\ UNCHANGED <<tree, llm, row, call, queue, failures, work, noted, counts>>

\* delete_stale_units: the units themselves; the path is done.
DeleteUnits(w) ==
    /\ pc[w] = "deleteUnits"
    /\ row' = [u \in Units |-> IF u \in Gone(w) THEN None ELSE row[u]]
    /\ torn' = torn \ Gone(w)
    /\ Goto(w, "take")
    /\ Reset(w)
    /\ UNCHANGED <<tree, llm, vec, call, queue, failures, touched, unread,
                   unsummed, counts>>

\* asyncio.gather returns: sync_project reports the collected failures.
Finished == running /\ \A w \in Workers : pc[w] \in {"done", "off"}

Return ==
    /\ Finished
    /\ running' = FALSE /\ asked' = {} /\ failures' = {} /\ force' = FALSE
    /\ pc' = Idle
    /\ UNCHANGED <<tree, llm, tables, queue, work, noted, counts>>

\* The process stops.
Crash ==
    /\ running /\ faults < MaxFaults
    /\ faults' = faults + 1
    /\ running' = FALSE /\ asked' = {} /\ queue' = {} /\ failures' = {}
    /\ force' = FALSE
    /\ pc' = Idle
    /\ path' = [w \in Workers |-> None] /\ snap' = [w \in Workers |-> Nothing]
    /\ todo' = [w \in Workers |-> {}]
    /\ unit' = [w \in Workers |-> [id |-> None]]
    /\ pending' = [w \in Workers |-> Nothing]
    /\ chunk' = [w \in Workers |-> Nothing]
    /\ torn' = torn \cup {unit[w].id : w \in {v \in Workers : pc[v] = "writeVec"}}
    /\ UNCHANGED <<tree, llm, tables, touched, unread, unsummed, changes, syncs>>

Work(w) ==
    \/ \E p \in Paths : Take(w, p) \/ TakeFails(w, p)
    \/ QueueEmpty(w)
    \/ \E u \in Units : GetUnit(w, u)
    \/ Distill(w) \/ DistillFails(w)
    \/ Check(w) \/ Upsert(w) \/ Embed(w)
    \/ \E u \in Units : WriteRow(w, u)
    \/ WriteVec(w) \/ DeleteVecs(w) \/ DeleteUnits(w)
    \/ Fail(w)

User ==
    \/ \E u \in Units, text \in Texts \cup {None} : EditUnit(u, text)
    \/ \E f \in Files : DeleteFile(f) \/ TogglePermission(f)
    \/ ToggleLlm
    \/ \E paths \in SUBSET Paths, f \in BOOLEAN : Start(paths, f)

Next ==
    \/ User
    \/ \E w \in Workers : Work(w)
    \/ Return
    \/ Crash

(***************************************************************************)
(* Fairness: the event loop runs every worker that can go on, and every    *)
(* request to a service ends (both have a timeout).  Nothing is assumed of *)
(* the user.                                                               *)
(***************************************************************************)
Fairness ==
    /\ \A w \in Workers : WF_vars(Work(w))
    /\ WF_vars(Return)

Spec == Init /\ [][Next]_vars /\ Fairness
-----------------------------------------------------------------------------
(***************************************************************************)
(* Properties.                                                             *)
(***************************************************************************)
\* Every variable holds a value of its kind.
TypeOK ==
    /\ source \in [Units -> Texts \cup {None}]
    /\ fileState \in [Files -> {"ok", "unreadable", "gone"}]
    /\ llm \in BOOLEAN /\ running \in BOOLEAN /\ force \in BOOLEAN
    /\ row \in [Units -> Rows \cup {None}]
    /\ vec \in [Units -> Vectors \cup {None}]
    /\ asked \subseteq Paths /\ queue \subseteq Paths /\ failures \subseteq asked
    /\ pc \in [Workers -> {"off", "take", "next", "distill", "check",
                           "upsert", "write", "writeVec", "deleteUnits", "done"}]
    /\ path \in [Workers -> Paths \cup {None}]
    /\ snap \in [Workers -> [Units -> Texts \cup {None}]]
    /\ pending \in [Workers -> [Units -> Rows \cup {None}]]
    /\ chunk \in [Workers -> [Units -> Rows \cup {None}]]
    /\ torn \subseteq Units /\ unsummed \subseteq Units

\* A stored vector has a row beside it and is the embedding of that row, up to
\* the comment (which code_hash does not cover): no failed batch, restart or
\* edit pairs a row with the vector of another version, or leaves the vector
\* of a row that is gone.  The exceptions to the former are a stop or an error
\* between the two inserts of upsert_unit, after which the next sync takes the
\* old vector for the new row's, and two paths of one file, whose workers
\* compare with a row read before the other wrote.
OnlyPath(u) == Cardinality({p \in Paths : StoredPath[p] = FileOf[u]}) = 1

VectorMatchesRow ==
    \A u \in Units :
        vec[u] # None =>
            /\ row[u] # None
            /\ (u \notin torn /\ OnlyPath(u)
                  /\ \A w \in Workers : pc[w] = "writeVec" => unit[w].id # u) =>
                 IF Truthy(row[u].summary) THEN vec[u] = EmbeddingText(row[u])
                 ELSE vec[u].of = row[u].code /\ vec[u].doc # None

\* A summary describes the code of its row, unless the language model once
\* failed for that unit.
SummaryMatchesCode ==
    \A u \in Units :
        (row[u] # None /\ u \notin unsummed /\ Truthy(row[u].summary)) =>
            row[u].summary = row[u].code

Synced == {StoredPath[p] : p \in asked \ failures} \ (touched \cup unread)

\* When sync_project returns, every file it did not report as failed, that
\* was readable and not edited meanwhile, is in the index as it is on disk:
\* the same units, code and comments, each with a vector.
SyncedIsCurrent ==
    Finished =>
        \A u \in Units : FileOf[u] \in Synced =>
            IF source[u] = None THEN row[u] = None /\ vec[u] = None
            ELSE /\ row[u] # None /\ vec[u] # None
                 /\ row[u].code = source[u].code /\ row[u].doc = source[u].doc

(***************************************************************************)
(* The index as its users see it: Mirror, with a row for its code and its  *)
(* comment, and a vector for being found.                                  *)
(***************************************************************************)
Stored(r) == IF r = None THEN None ELSE [code |-> r.code, doc |-> r.doc]

Indexed == [u \in Units |-> Stored(row[u])]
Phase   == IF ~running THEN "off" ELSE IF Finished THEN "over" ELSE "on"
Due     == {StoredPath[p] : p \in asked \ failures}
Excused == touched \cup unread

Disk == INSTANCE Mirror WITH
    indexed <- Indexed,
    found   <- Held(vec),
    phase   <- Phase,
    due     <- Due,
    excused <- Excused

\* Whatever workers, edits, failures and stops come between its statements, a
\* sync changes only files it was asked for and has not given up, and a
\* readable file that nobody edits only towards what it is on disk: no row of
\* it is lost for a moment or takes an older text, and no vector is lost but
\* that of a unit that is gone.
MirrorsDisk == Disk!Spec

\* sync_project returns: whatever fails, the workers empty the queue and none
\* waits for another.
SyncEnds == running ~> ~running

(***************************************************************************)
(* What the repository says of a finished sync and the code does not do.   *)
(***************************************************************************)
\* After a sync without failures each vector is the embedding of its unit's
\* text as unit_embedding_text gives it.
SyncedVectorsCurrent ==
    (Finished /\ failures = {}) =>
        \A u \in Units : (FileOf[u] \in Synced /\ row[u] # None) =>
            vec[u] = EmbeddingText(row[u])
=============================================================================
