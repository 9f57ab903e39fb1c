# TLA+ models of agent-coderag

agent-coderag indexes the code of a project into one DuckDB file (units of code,
an embedding vector for each, some metadata) and answers searches from it.  The
library (`src/code_rag`) is asynchronous Python; any number of processes (a CLI
call, an editor, an agent) may use one index file and one user directory at a time.

This directory holds the specifications kept beside that code.  What they are for
are the questions a unit test hardly reaches: what an interrupted sync, wipe,
re-embed, migration, download or configuration change leaves behind, and what a
session makes of it later; what processes, tasks and workers do to each other.

Contents: 1 inventory, 2 modules, 3 runs, 4 proofs, 5 what the models showed,
6 what is left out, 7 plan.

## 1. Inventory

### Components

| Component | State it keeps | Operations that change it | Talks to |
|---|---|---|---|
| index storage, `storage/duckdb_impl.py` | tables `units`, `unit_embeddings`, `index_meta`, (`relations`, `dependencies`); per session `embedding_model_dirty`, `_embeddings_bound`, `_pending_wipe` | wipe, bind, create, upsert, delete stale, mark synced, rewrite paths | its embedder (probe, query), the connection's one thread |
| connection, `storage/db_connection.py` | none after it returns | open with retry, set up, close on failure | DuckDB's file lock |
| indexing, `services/indexing.py` | queue, failure lists, pending units of each worker | sync_project, sync_file, re-embed | storage, parser, distiller, embedder |
| sync, `services/sync.py` | none | run_sync, run_rebuild | dependencies, migration, indexing |
| path migration, `services/path_migration.py` | claims of one run; the done mark in `index_meta` | migrate_absolute_paths | storage transactions, parser |
| client, `api/client.py` | `_embedder`, `_distiller`, `_parser`, `_storage`, `_op_lock` | search, sync, rebuild, api, config, setup, close | everything above |
| configuration, `services/config.py`, `intelligence/distiller.py` | `config.json` of the user directory | load, update, check, save | shared by all processes |
| setup, `services/setup.py` | `model.onnx`, `tokenizer.json` and one `.tmp` name | run_setup | HTTP; shared by all processes |
| embedders, `intelligence/*embedder.py`, factories | the bound dimension, the ONNX session | bind, embed, close | model files, a remote service |
| distiller, `intelligence/distiller.py` | its settings | summarize | a language model |
| parsers, `parsers/` | loaded grammars; during a walk the scope and the counts of names | distill_file | source files |
| command line, `entry/cli.py` | none | the commands; `config_cmd` and `setup_cmd` bypass the client | client, configuration, setup |
| dependency sync, `services/dependencies.py` | table `dependencies`; `.coderag_cp.txt` and `.coderag_init.gradle` in the project | sync_dependencies | Maven or Gradle, which it does not end |
| api discovery, `discovery/` | during a walk the set of visited files | extract_api | files of a library, tools |
| search report, paths, arguments, types | none | — | — |

### What is hard, and what makes it correct

* **Storage.** Every SQL statement outside the migration commits by itself, so the
  process may stop between any two: DROP and DELETE of a wipe, row and vector of an
  upsert, vectors and name of a re-embed.  Correct means: no vector without its
  unit; one width; the recorded model and width describe what is stored; the dirty
  flag, computed once and read much later, still tells the truth.
* **Indexing.** Workers interleave at every await while files change, services fail
  and links make two paths one file.  Correct means: what is reported as synced is
  in the index as it is on disk, nothing that is still on disk ever leaves it, a
  vector and a summary belong to the code beside them, and the call returns.
* **Path migration.** Several transactions, a parse that may fail, files edited
  meanwhile, and runs that stop half way.  Correct means: the mark is true, no code
  is dropped that a file could still claim, claims are one to one, and a run
  without failures finishes.
* **Client and connection.** One lock per process, one file lock between processes,
  an embedder that outlives calls.  Correct means: a writer is alone, no call works
  with a closed embedder or another call's storage, `config()` takes effect, no
  connection outlives its call, every call returns.
* **Unit ids.** The id is the primary key, and the api report reads the nesting off
  it.  Correct means: two bodies of a file have two ids, an id shows where its unit
  stands, and code added elsewhere does not rename it.
* **Api walk.** Recursion over a graph with cycles, one visited set for all depths,
  files that fail.  Correct means: nothing is reported twice under one path, and
  whatever is within reach is reported.
* **Dependencies.** The build outlives its caller, and what passes between them lies
  in the project under fixed names.  Correct means: a call caches what its own build
  resolved, all of it if it says so, and trouble with a build does not end the sync.
* **User directory.** No lock at all.  Correct means: settings survive each other,
  half a configuration is never saved, a damaged download is never in place, and
  after a successful setup every process can embed.

Hazards are listed one by one, at their lines, in `PROJECT.json`.

## 2. Modules

| Module | Models | Instance |
|---|---|---|
| `VectorStore` | what the vector index promises | |
| `EmbeddingIndex` | the index file and one session on it | `MCEmbeddingIndex` |
| `EmbeddingIndex_proofs` | its invariants, and that it implements `VectorStore`, proved | |
| `Mirror` | what a sync promises | |
| `IndexSync` | `sync_project` and its workers | `MCIndexSync` |
| `PathMigration` | `migrate_absolute_paths` over several runs | `MCPathMigration` |
| `IndexAccess` | clients, tasks, `_op_lock` and the file lock | `MCIndexAccess` |
| `GlobalDir` | `config.json` and the model files | `MCGlobalDir` |
| `UnitIds` | the walk that names the units of a file | `MCUnitIds` |
| `ApiWalk` | the recursive walk of the JavaScript and Rust providers | `MCApiWalk` |
| `Dependencies` | dependency syncs of one project and their builds | `MCDependencies` |
| `IndexSync_proofs`, `PathMigration_proofs`, `IndexAccess_proofs`, `GlobalDir_proofs`, `UnitIds_proofs`, `ApiWalk_proofs`, `Dependencies_proofs` | the theorems about these | |

The modules meet at assumptions that another one checks.  `EmbeddingIndex` and
`IndexSync` give a session the file for itself; that is `WriterIsAlone` of
`IndexAccess`.  `IndexSync` has an index whose vectors are all of the session's
model; `EmbeddingIndex` has all other cases, and there `StartFiles` needs a session
that is not dirty.  `PathMigration` takes the sync that follows a run as one step
per file; `IndexSync` has the inside of that step.  Both take the ids of a file as
distinct, which `UnitIds` shows for names without a dot of their own.
`Dependencies` lets one call at a time run on an index (`IndexAccess` again) and any
number on different ones.

### EmbeddingIndex

`rows`, `vec`, `width`, `metaDim` and `metaModel` are the tables and the two
metadata keys, with 0 or `NoModel` for what is absent; `vec[u]` is the embedder
whose vector is stored.  `emb` and `bound` are the embedder object; the rest is the
session: `pc` is the statement it is at, `mode`, `all` and `wipe` how it was opened,
`dirty` and `isBound` the flags of `DuckDBStorage`, and `goal`, `todo`, `chunk`,
`cur`, `stale` the arguments of the call in progress.

One action is one committed statement, or one await: `DropTable` and `DeleteMeta`
are `apply_rw_schema`; `RefreshDirty` is `finalize_rw_open`; `BindMissing` to
`SetModel` are `_bind_embeddings`, with one action for each of its own errors;
`Embed`, `WriteRow`, `WriteVec` are `_embed_and_upsert`; `MarkSynced` ends
`_reembed_all_units`; `DeleteVecs` and `DeleteUnits` are `delete_stale_units`.
`Crash` may take the place of any of them, and so may `StatementFails`: the
database raises, what was committed before stays, and within `sync_file` the session
goes on with the next file (`Fail`), against whatever metadata is there.  `Configure` between sessions changes the
embedder to any other.  The file starts empty or as an older version left it.

Two history variables say when the recorded name or width may be wrong: `doubt`
gathers `"wipe"` (a rebuild past its DROP), `"reembed"` (a re-embed with vectors
written and no name yet) and `"infer"` (inference writes the local model's name in a
session that embeds with a remote one, or over another name); `dimDoubt` is the same
for the width.  No action reads them.  The properties say
that nothing *else* goes wrong, and `broken_reembed` shows what one of these leads to.

### VectorStore

The abstract index is a vector of some model for each unit, a name, whether the name
can be trusted, and the search being answered.  A trusted store takes vectors of its
own model, is renamed only to the model of all it holds, and warns exactly when a
search would compare vectors of different models (an empty store may warn
needlessly).  Trust is lost by a wipe or a re-embed that has begun and by
`Misname`, and is back when the store is of one model.  `EmbeddingIndex` maps its
tables to it: `StoredModel` is the `model_id` of each vector, `StoreName` the
metadata key (absent is the local model, as `_refresh_dirty_from_meta` reads it),
trust is `doubt = {}`, and a search is a session at its query.  What the abstract
store does in one step are up to six statements of the detailed one, in sessions
that may stop between any two.

### IndexSync

`source` and `fileState` are the files, `row` and `vec` the tables, `queue` and
`failures` the variables of `sync_project`; each worker has its path, the parse it
made (`snap`), the units still to process, the unit in hand with the row that
`get_unit` returned, and what is pending or being written.  A worker runs from one
await to the next, so an action is that stretch.  Statements of one closure on the
connection's thread exclude those of other workers (`ThreadFree`).  A unit's text is
its code, which is hashed, and the comment before it, which is not; a vector is
the text that was embedded.  `GetUnit`, `Distill` or `DistillFails`, `Check`,
`Upsert` are `_process_unit`; `Embed` to `WriteVec` are `_embed_and_upsert`; `Fail`
is the worker's except clause, reached from every step in `Raising`: a statement, the
second insert of `upsert_unit` included, or the embedder.  `torn` notes the units
whose row was committed when a stop or an error took the place of the vector's
insert.

### Mirror

The abstract sync is about `source`, the texts on disk, and what users of the index
see: `indexed`, the text of each unit, and `found`, the units that a search can
find.  While it works on the files that are `due`, the text of a unit becomes that
on disk or stays, and a unit is lost to searches only when it is gone from its
file.  Nothing is said of a file that is `excused`, because it was changed after the
sync began or could not be read; a file with which the sync failed is due no
longer, and so not touched again.  The sync is `"over"` only when all that is due and not
excused is `Current`.  `IndexSync` maps its rows to `indexed` (their summaries
dropped), its vectors to `found`, the paths asked for and not failed to `due`, and
`touched` and `unread` to `excused`.  One step of `Mirror`'s work is any statement of
any worker; the many that change no table are steps of it that change nothing.

### PathMigration

`rows` gives the bodies stored under each absolute and relative path; `groups`,
`seen`, `mapping`, `todo` and `failed` are the local variables of a run, which
`Stop` throws away at any point.  `Collides` is the primary key of `units`: two
bodies of one qualified name cannot share a path.  `Parse`, `ClaimDirect`,
`ClaimFile`, `Commit` or `CommitFails`, `DeleteOrphans` and `MarkMigrated` are the
phases in their order; a failure of a file or of the database is a `Fault`.

### IndexAccess

A task's call goes from `idle` through `locked` (it waits for `_op_lock`),
`connect` (the retry loop of `_connect_with_retry`), `open` (`apply_rw_schema` and
`finalize_rw_open`) to `run`.  `lock` is the queue of the asyncio lock, `conn` the
connections, whose compatibility is `FileFree`.  A client without an embedder makes a
stack in two steps, `LoadConfig` and `CreateStack`, since `create_embedder` awaits a
thread after the configuration was read.  `embedder` and `distiller` are the
objects a client holds: the settings each was made from (`is`), and how many saves
there had been when these were read (`at`); `held` is what a call works with and
`known` the saves whose `config()` has returned.  `SaveConfig` returns in any case:
the file may not be written, be written in part, or undo what another process saved.
`Load` may meet a file that another process has truncated and yields defaults, which
a warm client keeps until its stack is dropped.  `spoilt` notes that one of these has
happened.  `sync` stands for rebuild, too.  A failure of `connect` may be the
deadline, a missing file or any other error: the model needs no clock for that.

### GlobalDir

`cfile` is `config.json`: settings, empty (which loads as defaults, like a missing
file) or unreadable.  A change of settings is load and check, then truncate, then
write, and other processes may do the same between those.  A download creates
`.tmp`, writes it in pieces and renames it; `handle` says where the file that a
process writes is by now, since another may have renamed or removed it.
`CreateStack` is what a process would build from the directory.

### UnitIds

`parent`, `kind` and `name` are any syntax tree, numbered in the order of the walk.
`Distill` is `_recursive_distill` of one node: `Qualify` gives an entity its `qname`
from the scope and the counts the walk handed down, and `owner` says whose scope and
counts (`child_scope`, `child_counts`: one new dict for each class, function or
method) its children get.  An id is the sequence of the segments between its dots, a
segment a name with its number, so that ids are equal exactly if their texts are.
`_resolve_name` yields one identifier, or several for a node whose name has dots.

### ApiWalk

The walk knows paths.  An entry point is a path under `node_modules` as it is found,
a followed export a resolved one, so that in a symlinked package a file may have two;
to the walk these are two nodes.  `links` is any library: to which paths the file
read under each path leads.  `stack` holds the calls of `_recursive_extract` with the links each has still to
follow, so that the depth of a call is its place in it; `visited` is the set they
share.  `Enter` parses a file or fails, `FollowFails` is an exception while a link is
resolved, which the call's own except clause catches.  Results are the paths whose
units are in the report.

### Dependencies

A call is at its step `pc`, its build, an own process, in the state `build`.
`cpBy` and `cpWhole` say whose classpath the file in the project is and whether all of
it is there, `script` whether Gradle's init script is; `Timeout` ends the wait and
not the build.  `ReadFile` reads what is there then; `CacheJar` is one
`set_dependency_path`, which commits by itself; `Cleanup` and `RemoveScript` are the
two halves of Gradle's finally clause, between which another process may act.
`StartFails` and `FileFails` are the errors of files and processes inside the tries,
which are logged; `ProjectRefused` and `ScriptRefused` are those outside of them
(`glob`, `exists`, `validate_path`, `unlink`), which end the sync.  The
build file has two versions, which tell one build's jars from another's.  `alone`
says that no other build or call was there during a call.

## 3. Runs

Properties are stated, with the code they are about, in the modules.

| Run | Checks | Bounds |
|---|---|---|
| `embedding_index` | types; `NoOrphanVector`, `WidthAgreement`, `DimensionAgrees`, `LabelNamesVectors`, `DirtyTellsVectors`; `SyncedIsComplete`; `ImplementsStore` | 3 units, batches of 2, 4 embedders |
| `broken_reembed` | refutes `PureAfterBrokenReembed` | 2 units |
| `index_sync` | types; `VectorMatchesRow`, `SummaryMatchesCode`, `SyncedIsCurrent`; `MirrorsDisk` | 2 workers, 3 paths of 2 files, 2 syncs, 1 change, 1 failure or stop |
| `index_sync_ends` | `SyncEnds` | 2 workers on a file and a link to it |
| `stale_vector` | refutes `SyncedVectorsCurrent` | no failures, 1 change, 2 syncs |
| `path_migration` | types; `DoneMeansRelative`, `ClaimsAreOneToOne`; `UnchangedIsKept` | 3 absolute and 3 relative paths, 2 suffixes, 1 edit, 1 failure, any number of runs and stops |
| `clean_run` | refutes `CleanRunFinishes` | the same without edits and failures |
| `index_access` | types; `WriterIsAlone`, `StackOutlivesCall`, `ConfigTakesEffect`, `NoLeakedConnection`; `CallsReturn` | 2 processes, 3 tasks (one syncs and closes, one reports and configures, one of the other process searches, syncs and configures), each half of the configuration saved once, any number of calls |
| `global_dir` | types; `PairIsWhole`, `SettingsSurvive`, `DamagedOnlyIfShared`, `SetupIsEnough` | 2 processes, 2 files of 2 pieces, 4 requests, any number of calls and kills |
| `unit_ids` | the walk's books; `DistinctIds`, `IdShowsNesting`, `IdIsLocal` | all trees of 4 nodes below the root, two names and their dotted combination |
| `api_walk` | types, no path twice; `MissingOnlyByDetour` | all graphs of 4 paths, 1 or 2 entry points, `MaxDepth` 2, 1 failure |
| `dependencies` | types; `CachesItsOwnBuild`, `CachedIsComplete`, `RaisesOnlyIfShared`; `SyncGoesOn` | 3 calls on 2 indexes, 2 versions of the build file, Maven or Gradle |

Why these bounds are enough to be interesting: the four embedders are the local
model, the same without its file, a remote model of the same width (which only the
name tells apart) and one of the same name and another width (which only the width
tells apart); three units are two batches, so that a re-embed can stop inside and
between batches.  Two workers and two paths of one file are what it takes for
workers to overwrite each other; one change or failure at *any* step, in a first or
a second sync, covers a file edited under a sync and a sync that meets what an
interrupted one left.  In the migration, two copies of one file outside the root
compete for one place while a third path is still under it, and another suffix is
there for the orphans' test.  Four nodes are a scope, a nested scope and two
namesakes in it, or two namesakes with a unit in each.  The code's depth of 3 is 2
here: a detour 1, 2, 3 to the last depth, the shorter way 1, 3 and a file behind 3 are
four paths.  Three calls are one before, one beside and one after: the second is on another
index, so that it may overlap both.  Bounds are the constants named `Max...`.

Symmetry is used for units in `embedding_index` and for workers and bodies in
`index_sync`, never for a liveness property.  `CHECK_DEADLOCK FALSE` is set in the
runs of `IndexSync` only: there the bounded number of syncs and changes runs out,
and a program that has nothing left to do stops.

Fairness is assumed in three modules.  `IndexSync`: the event loop runs every worker
that can go on, and gather returns; the awaited services have timeouts
(`LLM_REQUEST_TIMEOUT`, `EMBEDDING_REQUEST_TIMEOUT`), so a step that waits for them
is eventually taken, with a result or a failure.  `IndexAccess`: every task's
enabled step is taken eventually; the retry loop ends because it compares the clock
with a deadline, `_op_lock` is first come first served, and a running call ends by
what `SyncEnds` says of the longest one.  Nothing is assumed of users, of failures
or of other processes: weak fairness of a task's step is met by its failing.
`Dependencies`: the event loop goes on with a call and its timer expires; a build may
hang for ever.

## 4. Proofs

All theorems hold for every value of the constants under the assumptions named in
the modules, which TLC evaluates in every run: `ConstantsAssumption` (finitely many
units, positive widths and batch size, only local models can lack a file),
`SentinelsAssumption`, `SyncAssumption` (finitely many paths, units and workers, at least
one worker; the values that stand for "nothing" are apart from the others),
`WalkAssumption` of `PathMigration` (a non-empty walk without repetitions, absolute
and relative paths apart, a path under the root keeps its suffix),
`AccessAssumption`, `GlobalDirAssumption` (two or more files of at least one piece),
`BuildAssumption` (at least one version of the build file, finitely many calls),
`NamesAssumption` of `UnitIds` (a name is one or more identifiers) and
`WalkAssumption` of `ApiWalk` (types only).  Every safety property of a passing run
is proved, and both refinements.

**EmbeddingIndex_proofs.**  The properties are not inductive: whether a vector may
be written in a step depends on what the session did several steps before.  `IInv`
adds what a step knows of these: `SessionShape` (which step occurs in which kind of
session, for which purpose), `BindShape` (what the steps of binding have
established so far, in particular that a session bound for writing has both keys
set and that a table without a name is empty when it gets one), `MetaShape` (what incomplete metadata implies about the stored vectors),
`DirtyShape` (what a clean session implies about the recorded name) and `WorkShape`
(which units of a re-embed have their new vector).  `InitIInv` and `NextIInv`, with
one step per action, make it inductive (`Inductive`); `EndKeepsInv` and `FailKeepsInv`
are the end of a session and the failure of any step in it.  From it: `TypeCorrect`,
`NoOrphans`, `Widths`, `Dimensions`, `Labels`, `DirtyFlag`, `PureSearch` (an unwarned
search compares one model's vectors unless an accident of `doubt` happened), and the
action properties `Relabel` and `Reembedded`.

`Implements` is the refinement of `VectorStore`, by the same `IInv`: `InitStore`
maps the initial states, `NextStore` every step, with one step for each action.
Most map to a stutter or to `EndSearch` (`QuietStep`, `BoundStep`); `SearchStep`
needs that the dirty flag tells the truth, the writes of a re-embed that `WorkShape`
knows which units are done, `MarkSynced` that all are; `InferModel` is a `Misname` of
a store in which no other model's vectors are.

**IndexSync_proofs.**  The argument has layers, each inductive with those before it.
`Base` says what the workers have in hand: each path is in the queue, with one
worker, or dealt with (`Dealt`), one closure is on the connection's thread
(`Thread`), and what a worker holds are units of its own file as its parse found
them (`Hands`); that gives `SyncTypes`.  `Summed` follows a summary from the language
model to the row (`SummariesMatch`).  `Paired` follows a text from the parse to the
vector: what is pending fits the row a worker will write, and a row that is skipped
has its vector already (`VectorsMatch`); `FailPaired` is the error between the two
inserts.  `Fresh` says that the parse of a file that
was not touched since is the file, which is why a stale unit is one that is gone
(`UnitsStay`).  `Progressed` is the account of a sync: in a file not failed, each unit
that is on disk is in the index, or still to be done by the worker that has the
path.  When all workers are done and the queue is empty, nothing is to be done
(`SyncedFilesCurrent`).

The sixth layer is why a sync ends.  `SomebodyCanGo`: while not all workers have
stopped, one has its next step open, the one on the connection's thread if another
worker has to wait for it; this needs that a worker which is to write has something
to write (`Filled`), hence that a batch is never empty (`EmbedFills`).
`SyncAdvances`: every step of a worker takes something out of a finite set, in the
order queue, paths in hand, workers not stopped, units to look at, place in
`_process_unit`, units that wait for a vector, and for their write; a failure, too.

The seventh is the refinement of `Mirror`, `SyncMirrors`, with one step for what the
user does (`UserMirror`), for a step of a worker (`WorkMirror`) and for the end
(`EndMirror`).  That a worker changes only files that are due needs that a path that
has failed is in nobody's hands (`Unfailed`); that it changes them towards what is on
disk is what `Base`, `Paired` and `Fresh` say together (`WorkMoves`); that nothing is
owed when the last worker stops is `Progressed` (`DoneIsCurrent`).

**PathMigration_proofs.**  `MarkIsTrue` needs to know where each absolute path is:
`Accounted` says that a path not in `groups` has no rows while a run is in progress,
that a claimed path is still to do, has failed or is empty, and that the orphans
are empty at `MarkMigrated`.  With `failed = {}` and no skipped suffix, nothing is
left.  `OneToOne` follows the two loops of `claim_relative_paths`.  `MigrationTypes`
needs that a rewrite that commits met no row of the same name (`Typed`).
`OrphansOnly` needs what the claims left: a path that waits for a claim has been
compared with each file of its suffix that has been passed and is not claimed
(`Waiting`), and stays unlike those until the orphans go.

**IndexAccess_proofs.**  Everything rests on the holder of `_op_lock`.  `AInv` says
that the tasks of a queue are those in a call, each once, that whoever is past the
lock is its queue's first (`Holders`), what such a call holds of the client's objects
(`CallOK`), that a client's stack was read after the saves `config()` last told of
(`ClientOK`, `Since`), and that settings are those of their save unless `spoilt`
(`Faithful`, `FileOK`).  `WriterStep` adds the file lock for
connections of different processes.  From it: `AccessTypes`, `OneWriter`,
`StackLasts`, `SettingsReach` and `NothingLeaks`.  The order of the lock follows as
well: whoever is first has a step to take (`LockIsNotStuck`), each step of a call
brings it nearer its end, and those before a call that waits only become fewer
(`NobodyOvertakes`).

**GlobalDir_proofs.**  The two halves of the directory do not touch each other.  Of
`config.json`: any text on its way to the file is a whole pair (`TextIsWhole`), and
until two changes overlap or one is cut off, one process saves and what it writes is
what was expected (`OneSaves`): `WholePair`, `NothingLost`.  Of the model files: files
are fetched in their order (`InOrder`), and until two downloads overlap, one process
has `.tmp` open and knows how much of it is there (`OneFetches`, `Linked`), so that
what is renamed is whole: `WholeFiles`, `SetupSuffices`.

**Dependencies_proofs.**  A call that is alone has the files in the project for
itself from its start to its end (`Sole`), so the file it reads is its own build's and
whole (`OwnFile`), the script it has found is still there at the unlink (`OwnScript`), and
what it has cached nobody overwrites (`OwnJars`): `OwnBuild`, `CompleteCache`,
`RaisesShared`.  A call always has a step of its own to take (`CallHasStep`), each is
nearer its end, and nothing a build or another call does sets it back
(`CallGoesOn`).

**UnitIds_proofs.**  `Walked` is the inductive invariant (`WalkIsSound`): because a
node comes after everything above it, the scope the recursion hands down is the
innermost one of the tree (`Scoped`), a scope's count of a name is the number of its
entities so far (`Counted`), and an id is its scope's id and a label with that
number (`Named`); none of it changes when the walk goes on (`BearersStay`,
`NamesStay`).  The rest follows from one state: `IdsAreLocal` is `Named` read off the
tree, and the other two go by the first unit that would break them, whose scope is
before it.  For `IdsDistinct` the last segments of two equal ids give one name and
one number, and the rest the ids of the scopes.  For `IdsShowNesting` every beginning
of an id is that of a scope around the unit (`Rooted`), and no other unit has it.

**ApiWalk_proofs.**  A call's place on the stack is its path's depth (`Depths`), and a
link of a path above the last depth has been visited or is to be followed by a call
in progress (`Followed`).  At the end there is no call in progress, so a path that
leaves the visited ones does so behind a path at the last depth (`Border`):
`OnlyDetours`.  `Depths` also bounds the stack (`BoundedRecursion`), and every step
starts an entry point, visits one more path, has a link less to follow or ends a call
(`WalkEnds`).

Only model-checked: liveness (`SyncEnds`, `CallsReturn`, `SyncGoesOn`), which under
fairness is beyond the provers used here.  What is proved of it is the part without
fairness: that someone can always go on, and that each step goes down an order in
which nothing goes down for ever.  That such an order then reaches its end, and that
the guards listed in `CanGo` and `HasStep` are those of enabled steps, is not: the
first is an induction over the order, the second needs ENABLED.

## 5. What the models showed

Most of what the code sets out to do holds.  Three statements of the repository that
do not are runs of their own; `PROJECT.json` quotes each under "findings".

1. `broken_reembed`: a re-embed that stops half way and a return to the old model
   leave vectors of two models and no warning.
2. `stale_vector`: a changed comment is stored but not embedded.
3. `clean_run`: of two old paths of equal content one is given a file and the other is
   to go with the orphans (in the trace, the first is under the root); a stop between
   the rewrite and the orphan removal makes the migration fail in every later run.

Others are known and left out of the properties by name, which so state what
remains true next to them:

* `doubt` of `EmbeddingIndex`: a metadata write that raises after CREATE TABLE fails
  one file only; for the next one `InferModel` finds a table without a name, writes
  the local model's, and the remote vectors of the session follow under it: later a
  search with the remote model warns without need, one with the local model not at
  all.  An index of an older version without rows gets the wrong name the same way,
  after its re-embed of nothing; after a torn wipe the old name simply stays.
* `torn` of `IndexSync`: after a stop or an error between the two inserts of
  `upsert_unit`, the new row has the vector of the old text, and later syncs keep it,
  since hash and summary agree.
* `spoilt` of `IndexAccess`: `config()` reports success for a file it could not write.
* `TypeOK` of `ApiWalk`: in a package that is a symbolic link (`npm link`, pnpm,
  workspaces) a cycle back to the entry point parses it again, under its resolved
  path, and reports its units a second time.
* `Synced` and `unread` of `IndexSync`: a file that cannot be read loses its units in
  a sync that reports success; units of deleted files are never removed, though
  `CHANGELOG.md` says so under 1.3.0.  `OnlyPath` leaves out a file that is reached
  by two paths.
* `Undotted` of `UnitIds`: Swift's `class A { class B {} }` and `extension A.B {}` in
  one file have the same id, and one replaces the other.
* `MissingOnlyByDetour` of `ApiWalk`: "up to 3 levels deep" of the same changelog
  fails for a path behind one that the walk first met at its last depth.
* `alone` of `Dependencies`: a build that outlived its call can put its older
  classpath into a later one, and two syncs of a Gradle project can end each other.
  `"refused"` is the error of a lone call: a script that can be neither opened nor
  removed is logged at the first and ends the sync at the second.
* `SettingsSurvive` and `DamagedOnlyIfShared` of `GlobalDir` say what the missing lock
  costs: overlapping changes may be lost and overlapping downloads may damage a
  file, one at a time they do neither.

Seen on the way, outside of any model: `api_cmd` and `setup_cmd` exit with status 0
after an error; the C# provider looks for a file named `*.sln`, and finds none.

## 6. What is left out

* The providers of library APIs for Python, Java, Go and C#: one tool or one list of
  files, and a report.  The table `relations`: no code writes it.
* `.gitignore` matching, path validation, argument parsing, report formatting:
  functions without state.
* Grammars and language tables: which nodes are entities and what they are called is
  any choice in `UnitIds`; how links are resolved is any graph in `ApiWalk`.
* A classpath torn inside a path: `Dependencies` has whole paths of a torn file only.
* Distances and vectors as numbers; the text of prompts and summaries.
* Cancellation of a task inside a call, and clients whose model files change under
  them; both are in the plan.
* Within `PathMigration`, embeddings and relations follow their unit in the same
  transaction and are not told apart from it.
* `GlobalDir` does not model running clients, only what a new one would get.

## 7. Plan

Done, in this order: `EmbeddingIndex` and its proofs, `IndexSync`, `PathMigration`,
`IndexAccess`, `GlobalDir`, `VectorStore` and the proof of the refinement, `UnitIds`,
`ApiWalk`, `Dependencies`, then the proofs about all of these, and `Mirror` with the
proof that `IndexSync` implements it.

What could be added:

1. Cancellation in `IndexAccess`, and its composition with `GlobalDir`: setup under
   a client that has an embedder without a session.
