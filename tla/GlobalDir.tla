------------------------------ MODULE GlobalDir ------------------------------
(***************************************************************************)
(* The directory all processes of a user share: config.json                *)
(* (services/config.py, intelligence/distiller.py) and the local model's   *)
(* two files (services/setup.py), and the embedder a process would build   *)
(* from them (services/factory.py, intelligence/factory.py, embedder.py).  *)
(*                                                                         *)
(* Nothing locks the directory.  A call of config() is synchronous, so     *)
(* that calls interleave only between processes; a setup blocks its        *)
(* process too.  Any process may be killed between two steps, and any      *)
(* write or download may fail.                                             *)
(***************************************************************************)
EXTENDS Naturals, Sequences

CONSTANTS
    Procs,     \* processes
    Names,     \* MODEL_FILES, in order: the model, then the tokenizer
    Chunks,    \* pieces a download arrives in
    Requests,  \* the arguments config() is called with
    None

Fields  == {"llm", "base", "model"}
Settings == [Fields -> {"unset", "a", "b"}]

ASSUME GlobalDirAssumption ==
    /\ Len(Names) \in Nat /\ Len(Names) >= 2 /\ DOMAIN Names = 1..Len(Names)
    /\ Chunks \in Nat \ {0}
    /\ \A s \in SUBSET (1..Chunks) : s # None
    /\ \A r \in Requests :
         /\ r.set \in [Fields -> {"unset", "a", "b", "bad", None}]
         /\ r.clear \in BOOLEAN

VARIABLES
    cfile,    \* config.json: missing or empty, settings, or unreadable
    text,     \* what each config() call is about to save
    tmp, target, \* the pieces of each name's .tmp and final file
    handle,   \* where the file is by now that each download writes
    pos,      \* the next piece of it
    at,       \* each setup's position in MODEL_FILES
    force,
    pc,
    \* history
    setUp,    \* some setup reported success
    expected, \* the settings all config() calls add up to
    torn,     \* calls of config() overlapped, failed or were killed
    shared    \* two downloads of one file overlapped

conf  == <<cfile, text, expected, torn>>
dir   == <<tmp, target, handle>>
setup == <<pos, at, force, setUp, shared>>
vars  == <<conf, dir, setup, pc>>

\* DistillerConfig(): no LLM, no remote embedder.
Defaults == [f \in Fields |-> "unset"]

Json(s) == [kind |-> "json", settings |-> s]
Empty   == [kind |-> "empty", settings |-> Defaults]
Broken  == [kind |-> "broken", settings |-> Defaults]

Init ==
    /\ cfile = Empty /\ text = [p \in Procs |-> Defaults]
    /\ tmp = [n \in DOMAIN Names |-> None]
    /\ target = [n \in DOMAIN Names |-> None]
    /\ handle = [p \in Procs |-> "none"]
    /\ pos = [p \in Procs |-> 1] /\ at = [p \in Procs |-> 1]
    /\ force = [p \in Procs |-> FALSE]
    /\ pc = [p \in Procs |-> "idle"]
    /\ expected = Defaults /\ torn = FALSE /\ shared = FALSE /\ setUp = FALSE
-----------------------------------------------------------------------------
(***************************************************************************)
(* config().                                                               *)
(***************************************************************************)
Saving == {p \in Procs : pc[p] \in {"save", "write"}}

\* DistillerConfig.load: defaults when the file is missing or unreadable.
LoadConfig == cfile.settings

\* The check of apply_config_updates, save and create_embedder.
PairOk(s) == (s["base"] = "unset") = (s["model"] = "unset")

\* A blank argument is given and unsets its field: "unset" here.
Updated(s, r) ==
    [f \in Fields |->
        CASE r.set[f] # None              -> r.set[f]
          [] r.clear /\ f \in {"base", "model"} -> "unset"
          [] OTHER                        -> s[f]]

\* Faulty variant of Accepted: a model without a base is let through.
AcceptedIfBase(s, r) ==
    /\ \A f \in Fields : r.set[f] # "bad"
    /\ Updated(s, r)["base"] # "unset" => Updated(s, r)["model"] # "unset"

\* apply_config_updates returns, rather than raise.
Accepted(s, r) ==
    /\ \A f \in Fields : r.set[f] # "bad"
    /\ PairOk(Updated(s, r))

\* Faulty variant of Config: the settings are checked after the file has
\* been opened for writing.
ConfigChecksLate(p, r) ==
    /\ pc[p] = "idle"
    /\ cfile' = IF Accepted(LoadConfig, r) THEN cfile ELSE Empty
    /\ text' = [text EXCEPT ![p] =
                   IF Accepted(LoadConfig, r) THEN Updated(LoadConfig, r) ELSE @]
    /\ pc' = [pc EXCEPT ![p] = IF Accepted(LoadConfig, r) THEN "save" ELSE @]
    /\ torn' = (torn \/ Saving # {})
    /\ expected' = CASE torn'                  -> Defaults
                     [] Accepted(LoadConfig, r) -> Updated(expected, r)
                     [] OTHER                   -> expected
    /\ UNCHANGED <<dir, setup>>

\* load_or_update_config and config_cmd: load and apply, or raise.
Config(p, r) ==
    /\ pc[p] = "idle"
    /\ Accepted(LoadConfig, r)
    /\ text' = [text EXCEPT ![p] = Updated(LoadConfig, r)]
    /\ pc' = [pc EXCEPT ![p] = "save"]
    /\ torn' = (torn \/ Saving # {})
    /\ expected' = IF torn' THEN Defaults ELSE Updated(expected, r)
    /\ UNCHANGED <<cfile, dir, setup>>

\* open(config_path, "w") truncates the file.
Truncate(p) ==
    /\ pc[p] = "save"
    /\ cfile' = Empty
    /\ pc' = [pc EXCEPT ![p] = "write"]
    /\ UNCHANGED <<text, expected, torn, dir, setup>>

\* The text is written at the start of the file.  What another process has
\* written there meanwhile is overwritten; a longer text keeps its tail.
Write(p) ==
    /\ pc[p] = "write"
    /\ cfile' \in IF cfile \in {Empty, Json(text[p])} THEN {Json(text[p])}
                  ELSE {Json(text[p]), Broken}
    /\ pc' = [pc EXCEPT ![p] = "idle"]
    /\ text' = [text EXCEPT ![p] = Defaults]
    /\ UNCHANGED <<expected, torn, dir, setup>>

\* The file cannot be opened, or not be written in full: logged, and reported
\* as a success.
SaveFails(p) ==
    /\ \/ pc[p] = "save"  /\ UNCHANGED cfile
       \/ pc[p] = "write" /\ cfile' \in {cfile, Broken}
    /\ pc' = [pc EXCEPT ![p] = "idle"]
    /\ torn' = TRUE /\ expected' = Defaults
    /\ text' = [text EXCEPT ![p] = Defaults]
    /\ UNCHANGED <<dir, setup>>
-----------------------------------------------------------------------------
(***************************************************************************)
(* setup().                                                                *)
(***************************************************************************)
Pieces == 1..Chunks

\* The file of name n that was in place "from" is in place "to" now.
Moved(h, n, from, to) ==
    [q \in Procs |-> IF pc[q] = "fetch" /\ at[q] = n /\ h[q] = from
                     THEN to ELSE h[q]]

Setup(p, f) ==
    /\ pc[p] = "idle"
    /\ force' = [force EXCEPT ![p] = f]
    /\ at' = [at EXCEPT ![p] = 1]
    /\ pc' = [pc EXCEPT ![p] = "next"]
    /\ UNCHANGED <<conf, dir, pos, setUp, shared>>

\* Faulty variant of NextFile: the model stands for both files.
NextFileByModel(p) ==
    /\ pc[p] = "next" /\ at[p] <= Len(Names)
    /\ IF target[1] # None /\ ~ force[p]
       THEN at' = [at EXCEPT ![p] = @ + 1] /\ UNCHANGED pc
       ELSE pc' = [pc EXCEPT ![p] = "get"] /\ UNCHANGED at
    /\ UNCHANGED <<conf, dir, pos, force, setUp, shared>>

\* run_setup's loop: a file that exists is skipped unless force is given.
NextFile(p) ==
    /\ pc[p] = "next" /\ at[p] <= Len(Names)
    /\ IF target[at[p]] # None /\ ~ force[p]
       THEN at' = [at EXCEPT ![p] = @ + 1] /\ UNCHANGED pc
       ELSE pc' = [pc EXCEPT ![p] = "get"] /\ UNCHANGED at
    /\ UNCHANGED <<conf, dir, pos, force, setUp, shared>>

SetupDone(p) ==
    /\ pc[p] = "next" /\ at[p] > Len(Names)
    /\ setUp' = TRUE
    /\ pc' = [pc EXCEPT ![p] = "idle"]
    /\ at' = [at EXCEPT ![p] = 1] /\ force' = [force EXCEPT ![p] = FALSE]
    /\ UNCHANGED <<conf, dir, pos, shared>>

\* The server answers; the .tmp file is created, or truncated.
OpenTmp(p) ==
    /\ pc[p] = "get"
    /\ tmp' = [tmp EXCEPT ![at[p]] = {}]
    /\ handle' = [handle EXCEPT ![p] = "tmp"]
    /\ pos' = [pos EXCEPT ![p] = 1]
    /\ shared' = (shared \/ \E q \in Procs : pc[q] = "fetch" /\ at[q] = at[p])
    /\ pc' = [pc EXCEPT ![p] = "fetch"]
    /\ UNCHANGED <<conf, target, at, force, setUp>>

\* Whoever has renamed the file meanwhile, the piece goes to the same file.
WriteChunk(p) ==
    LET Grown(f, place) ==
            IF handle[p] = place THEN [f EXCEPT ![at[p]] = @ \cup {pos[p]}] ELSE f
    IN
    /\ pc[p] = "fetch" /\ pos[p] <= Chunks
    /\ tmp' = Grown(tmp, "tmp") /\ target' = Grown(target, "target")
    /\ pos' = [pos EXCEPT ![p] = @ + 1]
    /\ UNCHANGED <<conf, handle, at, force, setUp, shared, pc>>

\* Faulty variant of Closed: the file is not closed.
ClosedNot(p, h) ==
    /\ handle' = h
    /\ pos' = [pos EXCEPT ![p] = 1]

\* The process has no download open any more; h is where the others are.
Closed(p, h) ==
    /\ handle' = [h EXCEPT ![p] = "none"]
    /\ pos' = [pos EXCEPT ![p] = 1]

\* The request or a write fails, or the .tmp file has gone when it is to be
\* renamed.  The handler removes whatever .tmp file there is.
DownloadFails(p) ==
    /\ \/ pc[p] = "get"
       \/ pc[p] = "fetch" /\ (pos[p] <= Chunks \/ tmp[at[p]] = None)
    /\ tmp' = [tmp EXCEPT ![at[p]] = None]
    /\ UNCHANGED target
    /\ Closed(p, Moved(handle, at[p], "tmp", "gone"))
    /\ pc' = [pc EXCEPT ![p] = "idle"]
    /\ at' = [at EXCEPT ![p] = 1] /\ force' = [force EXCEPT ![p] = FALSE]
    /\ UNCHANGED <<conf, setUp, shared>>

\* Faulty variant of Replace: the file is renamed before its last piece.
ReplaceEarly(p) ==
    LET n == at[p] IN
    /\ pc[p] = "fetch" /\ pos[p] >= Chunks /\ tmp[n] # None
    /\ target' = [target EXCEPT ![n] = tmp[n]]
    /\ tmp' = [tmp EXCEPT ![n] = None]
    /\ Closed(p, Moved(Moved(handle, n, "target", "gone"), n, "tmp", "target"))
    /\ at' = [at EXCEPT ![p] = @ + 1]
    /\ pc' = [pc EXCEPT ![p] = "next"]
    /\ UNCHANGED <<conf, force, setUp, shared>>

\* os.replace of whatever file bears the .tmp name now.
Replace(p) ==
    LET n == at[p] IN
    /\ pc[p] = "fetch" /\ pos[p] > Chunks /\ tmp[n] # None
    /\ target' = [target EXCEPT ![n] = tmp[n]]
    /\ tmp' = [tmp EXCEPT ![n] = None]
    /\ Closed(p, Moved(Moved(handle, n, "target", "gone"), n, "tmp", "target"))
    /\ at' = [at EXCEPT ![p] = @ + 1]
    /\ pc' = [pc EXCEPT ![p] = "next"]
    /\ UNCHANGED <<conf, force, setUp, shared>>
-----------------------------------------------------------------------------
(***************************************************************************)
(* The embedder a process would get now.                                   *)
(***************************************************************************)
\* LocalOnnxEmbedder(): without a model it exists, but cannot embed.  With
\* one, a tokenizer that is missing or a file that is damaged is an error.
LocalEmbedder ==
    CASE target[1] = None                          -> "unready"
      [] \A n \in DOMAIN Names : target[n] = Pieces  -> "ready"
      [] OTHER                                     -> "error"

\* What create_stack returns, or "error" when it raises.
CreateStack ==
    CASE ~ PairOk(LoadConfig)           -> "error"
      [] LoadConfig["base"] # "unset"   -> "remote"
      [] OTHER                          -> LocalEmbedder

\* The process is killed, and another takes its place.
Crash(p) ==
    /\ torn' = (torn \/ p \in Saving)
    /\ expected' = IF torn' THEN Defaults ELSE expected
    /\ text' = [text EXCEPT ![p] = Defaults]
    /\ UNCHANGED <<cfile, tmp, target, setUp, shared>>
    /\ Closed(p, handle)
    /\ pc' = [pc EXCEPT ![p] = "idle"]
    /\ at' = [at EXCEPT ![p] = 1] /\ force' = [force EXCEPT ![p] = FALSE]

Next ==
    \E p \in Procs :
        \/ \E r \in Requests : Config(p, r)
        \/ Truncate(p) \/ Write(p) \/ SaveFails(p)
        \/ \E f \in BOOLEAN : Setup(p, f)
        \/ NextFile(p) \/ SetupDone(p) \/ OpenTmp(p) \/ WriteChunk(p)
        \/ DownloadFails(p) \/ Replace(p)
        \/ Crash(p)

Spec == Init /\ [][Next]_vars
-----------------------------------------------------------------------------
(***************************************************************************)
(* Properties.                                                             *)
(***************************************************************************)
\* Every variable holds a value of its kind, and a process writes a file
\* exactly while it downloads.
TypeOK ==
    /\ cfile \in {Json(s) : s \in Settings} \cup {Empty, Broken}
    /\ text \in [Procs -> Settings] /\ expected \in Settings
    /\ {torn, shared, setUp} \subseteq BOOLEAN
    /\ tmp \in [DOMAIN Names -> {None} \cup SUBSET Pieces]
    /\ target \in [DOMAIN Names -> {None} \cup SUBSET Pieces]
    /\ handle \in [Procs -> {"none", "tmp", "target", "gone"}]
    /\ pos \in [Procs -> 1..(Chunks + 1)]
    /\ at \in [Procs -> 1..(Len(Names) + 1)] /\ force \in [Procs -> BOOLEAN]
    /\ pc \in [Procs -> {"idle", "save", "write", "next", "get", "fetch"}]
    /\ \A p \in Procs : (handle[p] # "none") = (pc[p] = "fetch")

\* Whatever calls of config() overlap, get lost or are killed, the file never
\* asks for half a remote embedder, with which every later call would raise.
PairIsWhole == PairOk(cfile.settings)

\* As long as no two calls of config() overlap and none fails or is killed,
\* the file holds what all of them together asked for: none of them drops
\* what another process has set, and a rejected one changes nothing.
SettingsSurvive ==
    (~ torn /\ Saving = {}) => cfile.settings = expected

\* A process killed in a download, or a download that fails, never leaves a
\* damaged file under its final name; only two downloads at a time do.
DamagedOnlyIfShared ==
    ~ shared => \A n \in DOMAIN Names : target[n] # None => target[n] = Pieces

\* Once a setup has reported success, every embedder built afterwards, in
\* any process, can embed; unless two downloads of one file overlapped.
SetupIsEnough == (setUp /\ ~ shared) => CreateStack \in {"ready", "remote"}
=============================================================================
