----------------------------- MODULE IndexAccess -----------------------------
(***************************************************************************)
(* Who may use the index file, when, and with which embedder: the CodeRAG  *)
(* facade (api/client.py) in several processes, each with concurrent       *)
(* tasks, and open_db_connection (storage/db_connection.py).               *)
(*                                                                         *)
(* A process keeps one embedder and one distiller from call to call and    *)
(* opens the DuckDB file for the length of one call.  Within a process     *)
(* _op_lock makes the calls one at a time; between processes only DuckDB's *)
(* file lock does, and the loser retries until its time is up.  What a     *)
(* call does with the open index is one step here (EmbeddingIndex and      *)
(* IndexSync have its parts).                                              *)
(***************************************************************************)
EXTENDS Naturals, Sequences, SequencesExt

CONSTANTS
    Clients,     \* processes, each with one CodeRAG object
    Tasks,       \* tasks that call it
    ClientOf,    \* the client each task calls
    Calls,       \* the calls each task makes
    None,        \* no embedder, no storage
    MaxConfigs   \* bound: changes of each half of config.json

Ops == {"search", "sync", "api", "configEmbedding", "configLlm", "close"}

ASSUME AccessAssumption ==
    /\ ClientOf \in [Tasks -> Clients]
    /\ Calls \in [Tasks -> SUBSET Ops]
    /\ None \notin Tasks \cup [is : Nat, at : Nat]
    /\ MaxConfigs \in Nat

VARIABLES
    config,   \* config.json: the change each half's settings are of, 0 = none
    saves,    \* how often config() has saved each half, or tried to
    exists,   \* the database file exists
    conn,     \* each task's DuckDB connection
    embedder, \* _embedder: the embedding settings it was built from
    distiller, \* _distiller: the LLM settings it was built from
    storage,  \* _storage: the task whose storage is open
    lock,     \* _op_lock: its holder, followed by those that wait
    pc, op,   \* each task's step and call
    held,     \* the stack the call runs with
    \* history
    known,    \* the saves whose config() has returned to this client
    floor,    \* known when the call was made
    spoilt    \* a save failed or undid another, or a load met a half of one

settings == <<config, saves, spoilt>>
files == <<settings, exists, conn>>
stack == <<embedder, distiller>>
vars  == <<files, stack, storage, lock, pc, op, held, known, floor>>

Steps == {"idle", "locked", "create", "connect", "open", "run"}

Version == [embedding : 0..MaxConfigs, llm : 0..MaxConfigs]
Oldest  == [embedding |-> 0, llm |-> 0]

\* Half of what a stack is made from: its settings, and the saves there had
\* been when they were read.
Setting == [is : 0..MaxConfigs, at : 0..MaxConfigs]
Stack   == [embedding : Setting, llm : Setting]
NoStack == [embedding |-> None, llm |-> None]

Init ==
    /\ config = Oldest /\ saves = Oldest /\ spoilt = FALSE
    /\ exists \in BOOLEAN
    /\ conn = [t \in Tasks |-> "none"]
    /\ embedder = [c \in Clients |-> None] /\ distiller = [c \in Clients |-> None]
    /\ storage = [c \in Clients |-> None]
    /\ lock = [c \in Clients |-> << >>]
    /\ pc = [t \in Tasks |-> "idle"] /\ op = [t \in Tasks |-> "none"]
    /\ held = [t \in Tasks |-> NoStack]
    /\ known = [c \in Clients |-> Oldest] /\ floor = [t \in Tasks |-> Oldest]
-----------------------------------------------------------------------------
Mode(t) == IF op[t] = "sync" THEN "rw" ELSE "ro"

\* asyncio.Lock is first come, first served.
HoldsLock(t) == lock[ClientOf[t]] # << >> /\ Head(lock[ClientOf[t]]) = t

\* DuckDB's lock on the file is held by processes: one writer, or readers.
\* Connections of one process do not exclude each other.
FileFree(t) ==
    \A u \in Tasks : ClientOf[u] # ClientOf[t] /\ conn[u] # "none" =>
        conn[u] = "ro" /\ Mode(t) = "ro"

\* The call ends, normally or with an exception, and releases _op_lock.
Return(t) ==
    /\ pc' = [pc EXCEPT ![t] = "idle"] /\ op' = [op EXCEPT ![t] = "none"]
    /\ held' = [held EXCEPT ![t] = NoStack]
    /\ floor' = [floor EXCEPT ![t] = Oldest]
    /\ lock' = [lock EXCEPT ![ClientOf[t]] = Tail(@)]

Go(t, step) ==
    /\ pc' = [pc EXCEPT ![t] = step]
    /\ UNCHANGED <<op, lock, floor>>

\* config() loads config.json, changes one half and saves it before it waits
\* for the lock.  It goes on and returns all the same when the file could not
\* be opened, when a part of it was written, which is read as no settings at
\* all, and when another process saved or truncated it since it was loaded.
SaveConfig(half) ==
    LET saved   == [config EXCEPT ![half] = saves[half] + 1]
        earlier == {v \in Version : \A h \in DOMAIN v : v[h] <= saves[h]}
    IN
    /\ saves[half] < MaxConfigs
    /\ saves' = [saves EXCEPT ![half] = @ + 1]
    /\ \/ config' = saved /\ UNCHANGED spoilt
       \/ /\ config' \in {config, Oldest}
                         \cup {[v EXCEPT ![half] = saved[half]] : v \in earlier}
          /\ spoilt' = TRUE

\* DistillerConfig.load: defaults when another process has truncated the file
\* and not yet written it.
Load(seen) ==
    \/ seen = config /\ UNCHANGED spoilt
    \/ seen = Oldest /\ spoilt' = TRUE

\* A half of the settings that were loaded, and when.
Loaded(seen, half) == [is |-> seen[half], at |-> saves[half]]

\* A task calls search, sync or rebuild (both "sync" here), api for a Java
\* library, config or close, and waits for _op_lock.
Call(t, o) ==
    /\ pc[t] = "idle"
    /\ CASE o = "configEmbedding" -> SaveConfig("embedding")
         [] o = "configLlm"       -> SaveConfig("llm")
         [] OTHER                 -> UNCHANGED settings
    /\ op' = [op EXCEPT ![t] = o]
    /\ pc' = [pc EXCEPT ![t] = "locked"]
    /\ floor' = [floor EXCEPT ![t] =
                   IF o \in {"search", "sync"} THEN known[ClientOf[t]] ELSE @]
    /\ lock' = [lock EXCEPT ![ClientOf[t]] = Append(@, t)]
    /\ UNCHANGED <<exists, conn, stack, storage, held, known>>

\* _ensure_stack: a search or a sync works with the stack the client holds.
EnsureStack(t) ==
    LET c == ClientOf[t] IN
    /\ pc[t] = "locked" /\ HoldsLock(t)
    /\ op[t] \in {"search", "sync"} /\ embedder[c] # None
    /\ held' = [held EXCEPT ![t] =
                  [embedding |-> embedder[c], llm |-> distiller[c]]]
    /\ Go(t, "connect")
    /\ UNCHANGED <<files, stack, storage, known>>

\* Without one, create_stack reads config.json and has the embedder made in a
\* thread.
LoadConfig(t) ==
    /\ pc[t] = "locked" /\ HoldsLock(t)
    /\ op[t] \in {"search", "sync"} /\ embedder[ClientOf[t]] = None
    /\ \E seen \in Version :
         /\ Load(seen)
         /\ held' = [held EXCEPT ![t] = [embedding |-> Loaded(seen, "embedding"),
                                         llm |-> Loaded(seen, "llm")]]
    /\ Go(t, "create")
    /\ UNCHANGED <<config, saves, exists, conn, stack, storage, known>>

\* The thread is done, and the stack it made is the client's.
CreateStack(t) ==
    LET c == ClientOf[t] IN
    /\ pc[t] = "create"
    /\ embedder' = [embedder EXCEPT ![c] = held[t].embedding]
    /\ distiller' = [distiller EXCEPT ![c] = held[t].llm]
    /\ Go(t, "connect")
    /\ UNCHANGED <<files, storage, held, known>>

\* Faulty variant of CreateStackFails: _op_lock is not released.
CreateStackFailsHolding(t) ==
    /\ pc[t] = "create"
    /\ pc' = [pc EXCEPT ![t] = "idle"] /\ op' = [op EXCEPT ![t] = "none"]
    /\ floor' = [floor EXCEPT ![t] = Oldest]
    /\ UNCHANGED <<files, stack, storage, lock, held, known>>

\* create_stack raises (a model without tokenizer, a broken ONNX file).
CreateStackFails(t) ==
    /\ pc[t] = "create"
    /\ Return(t)
    /\ UNCHANGED <<files, stack, storage, known>>

\* Faulty variant of ApiJava: the metadata connection needs no lock.
ApiJavaUnlocked(t) ==
    /\ pc[t] = "locked"
    /\ op[t] = "api"
    /\ Go(t, "connect")
    /\ UNCHANGED <<files, stack, storage, held, known>>

\* _api_java: a metadata connection without an embedder.
ApiJava(t) ==
    /\ pc[t] = "locked" /\ HoldsLock(t)
    /\ op[t] = "api"
    /\ Go(t, "connect")
    /\ UNCHANGED <<files, stack, storage, held, known>>

\* open_db_connection: duckdb.connect succeeds; a writer creates the file.
Connect(t) ==
    /\ pc[t] = "connect"
    /\ Mode(t) = "ro" => exists
    /\ FileFree(t)
    /\ conn' = [conn EXCEPT ![t] = Mode(t)]
    /\ exists' = TRUE
    /\ Go(t, "open")
    /\ UNCHANGED <<settings, stack, storage, held, known>>

\* Faulty variant of ConnectFails: a busy file is retried for ever.
ConnectFailsUnlessBusy(t) ==
    /\ pc[t] = "connect"
    /\ FileFree(t)
    /\ Return(t)
    /\ UNCHANGED <<files, stack, storage, known>>

\* The file does not exist, the deadline passes while it is busy, or
\* duckdb.connect raises something else.
ConnectFails(t) ==
    /\ pc[t] = "connect"
    /\ Return(t)
    /\ UNCHANGED <<files, stack, storage, known>>

\* apply_rw_schema, finalize_rw_open; _storage is set.
Open(t) ==
    /\ pc[t] = "open"
    /\ storage' = [storage EXCEPT ![ClientOf[t]] = t]
    /\ Go(t, "run")
    /\ UNCHANGED <<files, stack, held, known>>

\* Faulty variant of OpenFails: the connection is left to the collector.
OpenFailsLeaking(t) ==
    /\ pc[t] = "open"
    /\ Return(t)
    /\ UNCHANGED <<files, stack, storage, known>>

\* Either of them raises: the connection is closed.
OpenFails(t) ==
    /\ pc[t] = "open"
    /\ conn' = [conn EXCEPT ![t] = "none"]
    /\ Return(t)
    /\ UNCHANGED <<settings, exists, stack, storage, known>>

\* run_search, run_sync, run_rebuild or run_api ends, however it ends, and
\* the finally clause of _with_storage or _metadata_ro_connection is run.
CloseStorage(t) ==
    /\ pc[t] = "run"
    /\ conn' = [conn EXCEPT ![t] = "none"]
    /\ storage' = [storage EXCEPT ![ClientOf[t]] = None]
    /\ Return(t)
    /\ UNCHANGED <<settings, exists, stack, known>>

\* config() is about to return: its caller counts on the halves it changed.
Learn(c, halves) ==
    known' = [known EXCEPT ![c] =
                [half \in DOMAIN @ |->
                   IF half \in halves THEN saves[half] ELSE @[half]]]

\* Faulty variant of InvalidateEmbedder: it does not wait for the lock.
InvalidateAtOnce(t) ==
    LET c == ClientOf[t] IN
    /\ pc[t] = "locked"
    /\ op[t] = "configEmbedding"
    /\ embedder' = [embedder EXCEPT ![c] = None]
    /\ distiller' = [distiller EXCEPT ![c] = None]
    /\ Learn(c, {"embedding"})
    /\ pc' = [pc EXCEPT ![t] = "idle"] /\ op' = [op EXCEPT ![t] = "none"]
    /\ floor' = [floor EXCEPT ![t] = Oldest]
    /\ lock' = [lock EXCEPT ![c] = SelectSeq(@, LAMBDA u : u # t)]
    /\ UNCHANGED <<files, storage, held>>

\* _invalidate_stack_after_config, embedding fields: the stack is dropped.
InvalidateEmbedder(t) ==
    LET c == ClientOf[t] IN
    /\ pc[t] = "locked" /\ HoldsLock(t)
    /\ op[t] = "configEmbedding"
    /\ embedder' = [embedder EXCEPT ![c] = None]
    /\ distiller' = [distiller EXCEPT ![c] = None]
    /\ Learn(c, {"embedding"})
    /\ Return(t)
    /\ UNCHANGED <<files, storage>>

\* Faulty variant of InvalidateDistiller: the distiller is kept.
KeepDistiller(t) ==
    /\ pc[t] = "locked" /\ HoldsLock(t)
    /\ op[t] = "configLlm"
    /\ Learn(ClientOf[t], {"llm"})
    /\ Return(t)
    /\ UNCHANGED <<files, stack, storage>>

\* The same, LLM fields only: a new Distiller, the embedder stays.
InvalidateDistiller(t) ==
    LET c == ClientOf[t] IN
    /\ pc[t] = "locked" /\ HoldsLock(t)
    /\ op[t] = "configLlm"
    /\ \/ distiller[c] = None /\ UNCHANGED <<distiller, spoilt>>
       \/ /\ distiller[c] # None
          /\ \E seen \in Version :
               /\ Load(seen)
               /\ distiller' = [distiller EXCEPT ![c] = Loaded(seen, "llm")]
    /\ Learn(c, {"llm"})
    /\ Return(t)
    /\ UNCHANGED <<config, saves, exists, conn, embedder, storage>>

\* CodeRAG.close.
Close(t) ==
    LET c == ClientOf[t] IN
    /\ pc[t] = "locked" /\ HoldsLock(t)
    /\ op[t] = "close"
    /\ embedder' = [embedder EXCEPT ![c] = None]
    /\ distiller' = [distiller EXCEPT ![c] = None]
    /\ Return(t)
    /\ UNCHANGED <<files, storage, known>>

\* The process ends: its connections and its locks go with it.
Crash(c) ==
    LET dead == {t \in Tasks : ClientOf[t] = c}
        Cleared(f, v) == [t \in Tasks |-> IF t \in dead THEN v ELSE f[t]]
    IN
    /\ pc' = Cleared(pc, "idle") /\ op' = Cleared(op, "none")
    /\ conn' = Cleared(conn, "none") /\ held' = Cleared(held, NoStack)
    /\ floor' = Cleared(floor, Oldest)
    /\ embedder' = [embedder EXCEPT ![c] = None]
    /\ distiller' = [distiller EXCEPT ![c] = None]
    /\ storage' = [storage EXCEPT ![c] = None]
    /\ lock' = [lock EXCEPT ![c] = << >>]
    /\ UNCHANGED <<settings, exists, known>>

Step(t) ==
    \/ EnsureStack(t) \/ LoadConfig(t) \/ CreateStack(t) \/ CreateStackFails(t)
    \/ ApiJava(t)
    \/ Connect(t) \/ ConnectFails(t)
    \/ Open(t) \/ OpenFails(t) \/ CloseStorage(t)
    \/ InvalidateEmbedder(t) \/ InvalidateDistiller(t) \/ Close(t)

Next ==
    \/ \E t \in Tasks : Step(t) \/ \E o \in Calls[t] : Call(t, o)
    \/ \E c \in Clients : Crash(c)

(***************************************************************************)
(* Fairness: the event loop runs every task that can go on, a call on the  *)
(* index ends, and the loop of _connect_with_retry ends by its deadline.   *)
(***************************************************************************)
Spec == Init /\ [][Next]_vars /\ \A t \in Tasks : WF_vars(Step(t))
-----------------------------------------------------------------------------
(***************************************************************************)
(* Properties.                                                             *)
(***************************************************************************)
\* Every variable holds a value of its kind; the lock is queued for by the
\* client's own tasks, each once.
TypeOK ==
    /\ config \in Version /\ saves \in Version /\ spoilt \in BOOLEAN
    /\ exists \in BOOLEAN
    /\ conn \in [Tasks -> {"none", "ro", "rw"}]
    /\ embedder \in [Clients -> Setting \cup {None}]
    /\ distiller \in [Clients -> Setting \cup {None}]
    /\ storage \in [Clients -> Tasks \cup {None}]
    /\ lock \in [Clients -> Seq(Tasks)]
    /\ \A c \in Clients :
         /\ IsInjective(lock[c])
         /\ ToSet(lock[c]) = {t \in Tasks : ClientOf[t] = c /\ pc[t] # "idle"}
    /\ pc \in [Tasks -> Steps] /\ op \in [Tasks -> Ops \cup {"none"}]
    /\ held \in [Tasks -> Stack \cup {NoStack}]
    /\ known \in [Clients -> Version] /\ floor \in [Tasks -> Version]

\* A session that writes has the file to itself, in its own process as in
\* all others: what EmbeddingIndex takes for granted.
WriterIsAlone ==
    \A t, u \in Tasks :
        (t # u /\ conn[t] = "rw") => conn[u] = "none"

\* config(), close() and the end of another call never close the embedder or
\* the storage under a running call: the client's are the call's own.
StackOutlivesCall ==
    \A t \in Tasks :
        /\ (op[t] \in {"search", "sync"} /\ pc[t] \in {"connect", "open", "run"}) =>
              embedder[ClientOf[t]] = held[t].embedding
        /\ pc[t] = "run" => storage[ClientOf[t]] = t

\* A call works with a stack made from config.json as it was after every
\* config() that had returned when the call was made, whatever was queued,
\* failed or stopped in between; and with the settings those config() were
\* given, unless a save failed or undid another (config() does not tell) or
\* a load met a truncated file.
ConfigTakesEffect ==
    \A t \in Tasks :
        (op[t] \in {"search", "sync"} /\ pc[t] = "run") =>
            \A half \in {"embedding", "llm"} :
                /\ held[t][half].at >= floor[t][half]
                /\ spoilt \/ held[t][half].is >= floor[t][half]

\* A call that is over, however it ended, has left no connection behind that
\* would keep other processes out of the index.
NoLeakedConnection ==
    \A t \in Tasks : pc[t] = "idle" => conn[t] = "none"

\* Every call returns: no task waits for ever for the lock of its process or
\* for the lock on the file, however busy other processes keep it.
CallsReturn == \A t \in Tasks : pc[t] # "idle" ~> pc[t] = "idle"
=============================================================================
