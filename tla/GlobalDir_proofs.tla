-------------------------- MODULE GlobalDir_proofs --------------------------
(***************************************************************************)
(* Proofs about GlobalDir, for every number of processes, model files and  *)
(* pieces of a download, and every set of calls of config().               *)
(***************************************************************************)
EXTENDS GlobalDir, TLAPS

(***************************************************************************)
(* The inductive invariant.  The two halves of the directory have nothing  *)
(* to do with each other but for the step a process is at.                 *)
(***************************************************************************)
\* What is about to be saved is a whole pair.
TextIsWhole == \A p \in Procs : pc[p] \in {"save", "write"} => PairOk(text[p])

\* Until calls overlap or fail, one process saves at a time, and what it
\* saves is what was asked for.
OneSaves ==
    ~ torn =>
        /\ \A p, q \in Saving : p = q
        /\ \A p \in Saving : text[p] = expected
        /\ \A p \in Saving : pc[p] = "write" => cfile = Empty

\* A file that is being fetched is one of MODEL_FILES, and a process comes to
\* it after the ones before it are there.
InOrder ==
    \A p \in Procs : pc[p] \in {"next", "get", "fetch"} =>
        /\ pc[p] # "next" => at[p] \in DOMAIN Names
        /\ \A n \in DOMAIN Names : n < at[p] => target[n] # None

\* A file that is written under one of the names is there.
Linked ==
    \A p \in Procs : pc[p] = "fetch" =>
        /\ handle[p] = "tmp" => tmp[at[p]] # None
        /\ handle[p] = "target" => target[at[p]] # None

\* Until two downloads of a file overlap, one process fetches it, into a .tmp
\* file that is all there so far, or that somebody else has removed.
Fetched(p) ==
    \/ handle[p] = "tmp" /\ tmp[at[p]] = 1..(pos[p] - 1)
    \/ handle[p] = "gone" /\ tmp[at[p]] = None

OneFetches ==
    ~ shared =>
        /\ \A p, q \in Procs :
             pc[p] = "fetch" /\ pc[q] = "fetch" /\ at[p] = at[q] => p = q
        /\ \A p \in Procs : pc[p] = "fetch" => Fetched(p)

\* A setup that reported success has seen every file.
Complete == setUp => \A n \in DOMAIN Names : target[n] # None

GInv ==
    /\ TypeOK
    /\ TextIsWhole /\ PairIsWhole
    /\ OneSaves /\ SettingsSurvive
    /\ InOrder /\ Linked /\ Complete
    /\ OneFetches /\ DamagedOnlyIfShared
-----------------------------------------------------------------------------
(***************************************************************************)
(* Operators.                                                              *)
(***************************************************************************)
\* The defaults are settings, and no pair at all is a whole one.
LEMMA DefaultsWhole == Defaults \in Settings /\ PairOk(Defaults)
BY DEF Defaults, Settings, Fields, PairOk

\* What config() accepts are settings with a whole pair.
LEMMA UpdatedWhole ==
  ASSUME NEW s \in Settings, NEW r \in Requests, Accepted(s, r)
  PROVE  Updated(s, r) \in Settings /\ PairOk(Updated(s, r))
<1>1. r.set \in [Fields -> {"unset", "a", "b", "bad", None}]
  BY GlobalDirAssumption
<1>2. \A f \in Fields : r.set[f] # None => r.set[f] \in {"unset", "a", "b"}
  BY <1>1 DEF Accepted
<1>3. \A f \in Fields : Updated(s, r)[f] \in {"unset", "a", "b"}
  BY <1>2 DEF Updated, Settings
<1> QED
  BY <1>3 DEF Updated, Settings, Accepted

\* What config.json holds are settings.
LEMMA LoadedSettings == TypeOK => cfile.settings \in Settings
BY DefaultsWhole DEF TypeOK, Json, Empty, Broken

\* What a config.json says is what was written into it.
LEMMA FileKinds ==
  /\ \A s : Json(s).settings = s
  /\ Empty.settings = Defaults /\ Broken.settings = Defaults
BY DEF Json, Empty, Broken

\* All pieces of a file are a set of pieces, and none of them is None.
LEMMA PiecesAreFiles ==
  /\ {} \in SUBSET Pieces /\ \A s \in SUBSET Pieces : s # None
  /\ 1..Chunks = Pieces
BY GlobalDirAssumption DEF Pieces
-----------------------------------------------------------------------------
(***************************************************************************)
(* Type correctness.                                                       *)
(***************************************************************************)
\* Before the first call everything has its type.
LEMMA InitType == Init => TypeOK
<1> SUFFICES ASSUME Init PROVE TypeOK
  OBVIOUS
<1>1. cfile = Empty /\ text \in [Procs -> Settings] /\ expected \in Settings
  BY DefaultsWhole DEF Init
<1>2. 1 \in 1..(Chunks + 1) /\ 1 \in 1..(Len(Names) + 1)
  BY GlobalDirAssumption
<1> QED
  BY <1>1, <1>2 DEF Init, TypeOK

\* Every step of config() keeps the types.
LEMMA ConfigType ==
  ASSUME TypeOK, NEW p \in Procs,
         \/ \E r \in Requests : Config(p, r)
         \/ Truncate(p) \/ Write(p) \/ SaveFails(p)
  PROVE  TypeOK'
<1> USE DEF TypeOK, dir, setup
<1>1. ASSUME NEW r \in Requests, Config(p, r) PROVE TypeOK'
  <2>1. Updated(LoadConfig, r) \in Settings
    BY <1>1, LoadedSettings, UpdatedWhole DEF Config, LoadConfig
  <2>2. torn' => expected' \in Settings
    BY <1>1, DefaultsWhole DEF Config
  <2>3. ~torn' => expected' \in Settings
    <3>1. r.set \in [Fields -> {"unset", "a", "b", "bad", None}] /\ Accepted(LoadConfig, r)
      BY <1>1, GlobalDirAssumption DEF Config
    <3>2. Updated(expected, r) \in Settings
      BY <3>1 DEF Accepted, Updated, Settings
    <3> QED
      BY <1>1, <3>2 DEF Config
  <2>4. torn' \in BOOLEAN
    BY <1>1 DEF Config
  <2> QED
    BY <1>1, <2>1, <2>2, <2>3, <2>4 DEF Config
<1>2. CASE Truncate(p)
  BY <1>2 DEF Truncate
<1>3. CASE Write(p)
  <2>1. cfile' \in {Json(s) : s \in Settings} \cup {Empty, Broken}
    BY <1>3 DEF Write
  <2> QED
    BY <1>3, <2>1, DefaultsWhole DEF Write
<1>4. CASE SaveFails(p)
  BY <1>4, DefaultsWhole DEF SaveFails
<1> QED
  BY <1>1, <1>2, <1>3, <1>4

\* Every step of setup() keeps the types.
LEMMA SetupType ==
  ASSUME TypeOK, InOrder, Linked, NEW p \in Procs,
         \/ \E f \in BOOLEAN : Setup(p, f)
         \/ NextFile(p) \/ SetupDone(p) \/ OpenTmp(p) \/ WriteChunk(p)
         \/ DownloadFails(p) \/ Replace(p)
  PROVE  TypeOK'
<1> USE DEF TypeOK, conf, dir
<1>0. 1 \in 1..(Chunks + 1) /\ 1 \in 1..(Len(Names) + 1) /\ DOMAIN Names = 1..Len(Names)
      /\ Chunks \in Nat /\ Len(Names) \in Nat
  BY GlobalDirAssumption
<1>1. ASSUME NEW f \in BOOLEAN, Setup(p, f) PROVE TypeOK'
  BY <1>0, <1>1 DEF Setup
<1>2. CASE NextFile(p)
  <2>1. CASE target[at[p]] # None /\ ~ force[p]
    <3>1. at[p] + 1 \in 1..(Len(Names) + 1)
      BY <1>0, <1>2 DEF NextFile
    <3> QED
      BY <1>2, <2>1, <3>1 DEF NextFile
  <2>2. CASE ~ (target[at[p]] # None /\ ~ force[p])
    <3>1. /\ pc[p] = "next" /\ pc' = [pc EXCEPT ![p] = "get"]
          /\ UNCHANGED <<conf, dir, pos, at, force, setUp, shared>>
      BY <1>2, <2>2, Zenon DEF NextFile
    <3>2. pc' \in [Procs -> {"idle", "save", "write", "next", "get", "fetch"}]
      BY ONLY <3>1, TypeOK
    <3>3. \A q \in Procs : (handle'[q] # "none") = (pc'[q] = "fetch")
      BY <3>1
    <3> QED
      BY <3>1, <3>2, <3>3
  <2> QED
    BY <2>1, <2>2
<1>3. CASE SetupDone(p)
  BY <1>0, <1>3 DEF SetupDone
<1>4. CASE OpenTmp(p)
  BY <1>0, <1>4, PiecesAreFiles DEF OpenTmp
<1>5. CASE WriteChunk(p)
  <2>1. at[p] \in DOMAIN Names /\ pos[p] \in Pieces
    BY <1>0, <1>5 DEF WriteChunk, InOrder, Pieces
  <2>2. tmp' \in [DOMAIN Names -> {None} \cup SUBSET Pieces]
    <3>1. CASE handle[p] = "tmp"
      <4>1. tmp[at[p]] \cup {pos[p]} \in SUBSET Pieces
        BY <1>5, <2>1, <3>1 DEF WriteChunk, Linked
      <4> QED
        BY <1>5, <2>1, <3>1, <4>1 DEF WriteChunk
    <3> QED
      BY <1>5, <3>1 DEF WriteChunk
  <2>3. target' \in [DOMAIN Names -> {None} \cup SUBSET Pieces]
    <3>1. CASE handle[p] = "target"
      <4>1. target[at[p]] \cup {pos[p]} \in SUBSET Pieces
        BY <1>5, <2>1, <3>1 DEF WriteChunk, Linked
      <4> QED
        BY <1>5, <2>1, <3>1, <4>1 DEF WriteChunk
    <3> QED
      BY <1>5, <3>1 DEF WriteChunk
  <2> QED
    BY <1>0, <1>5, <2>1, <2>2, <2>3 DEF WriteChunk
<1>6. CASE DownloadFails(p)
  <2>1. \A q \in Procs : q # p => (handle'[q] # "none") = (pc'[q] = "fetch")
    BY <1>6 DEF DownloadFails, Closed, Moved
  <2> QED
    BY <1>0, <1>6, <2>1 DEF DownloadFails, Closed, Moved
<1>7. CASE Replace(p)
  <2>1. at[p] \in DOMAIN Names
    BY <1>7 DEF Replace, InOrder
  <2>2. /\ target' \in [DOMAIN Names -> {None} \cup SUBSET Pieces]
        /\ tmp' \in [DOMAIN Names -> {None} \cup SUBSET Pieces]
    BY <1>7, <2>1 DEF Replace
  <2>3. /\ pos' \in [Procs -> 1..(Chunks + 1)] /\ at' \in [Procs -> 1..(Len(Names) + 1)]
        /\ pc' = [pc EXCEPT ![p] = "next"] /\ UNCHANGED <<conf, force, setUp, shared>>
    BY <1>0, <1>7, <2>1 DEF Replace, Closed
  <2>4. handle' = [q \in Procs |->
            CASE q = p -> "none"
              [] q # p /\ pc[q] = "fetch" /\ at[q] = at[p] /\ handle[q] = "target" -> "gone"
              [] q # p /\ pc[q] = "fetch" /\ at[q] = at[p] /\ handle[q] = "tmp" -> "target"
              [] OTHER -> handle[q]]
    BY <1>7 DEF Replace, Closed, Moved
  <2>5. /\ handle' \in [Procs -> {"none", "tmp", "target", "gone"}]
        /\ \A q \in Procs : (handle'[q] # "none") = (pc'[q] = "fetch")
    BY <2>3, <2>4
  <2> QED
    BY <2>2, <2>3, <2>5
<1> QED
  BY <1>1, <1>2, <1>3, <1>4, <1>5, <1>6, <1>7

\* So does the end of a process.
LEMMA CrashType == ASSUME TypeOK, NEW p \in Procs, Crash(p) PROVE TypeOK'
<1>1. 1 \in 1..(Chunks + 1) /\ 1 \in 1..(Len(Names) + 1)
  BY GlobalDirAssumption
<1>2. expected' \in Settings /\ torn' \in BOOLEAN
  BY DefaultsWhole DEF Crash, TypeOK
<1> QED
  BY <1>1, <1>2, DefaultsWhole DEF Crash, Closed, TypeOK

\* Every step keeps the types.
LEMMA TypeStep == TypeOK /\ InOrder /\ Linked /\ [Next]_vars => TypeOK'
<1>1. TypeOK /\ UNCHANGED vars => TypeOK'
  BY DEF TypeOK, vars, conf, dir, setup
<1> QED
  BY <1>1, ConfigType, SetupType, CrashType DEF Next
-----------------------------------------------------------------------------
(***************************************************************************)
(* config.json.                                                            *)
(***************************************************************************)
\* No step of a setup touches what config() is about.
LEMMA SetupLeavesConfig ==
  ASSUME TypeOK, NEW p \in Procs,
         \/ \E f \in BOOLEAN : Setup(p, f)
         \/ NextFile(p) \/ SetupDone(p) \/ OpenTmp(p) \/ WriteChunk(p)
         \/ DownloadFails(p) \/ Replace(p)
  PROVE  /\ UNCHANGED conf
         /\ \A q \in Procs : \/ pc'[q] = pc[q]
                             \/ /\ pc[q] \notin {"save", "write"}
                                /\ pc'[q] \notin {"save", "write"}
<1> USE DEF TypeOK
<1>1. ASSUME NEW f \in BOOLEAN, Setup(p, f)
      PROVE  /\ UNCHANGED conf /\ pc[p] = "idle" /\ pc' = [pc EXCEPT ![p] = "next"]
  BY <1>1 DEF Setup
<1>2. ASSUME NextFile(p)
      PROVE  /\ UNCHANGED conf /\ pc[p] = "next"
             /\ pc' = pc \/ pc' = [pc EXCEPT ![p] = "get"]
  BY <1>2 DEF NextFile
<1>3. ASSUME SetupDone(p) \/ OpenTmp(p) \/ WriteChunk(p) \/ DownloadFails(p) \/ Replace(p)
      PROVE  /\ UNCHANGED conf /\ pc[p] \in {"next", "get", "fetch"}
             /\ \/ pc' = pc
                \/ \E step \in {"idle", "next", "fetch"} : pc' = [pc EXCEPT ![p] = step]
  BY <1>3 DEF SetupDone, OpenTmp, WriteChunk, DownloadFails, Replace
<1> QED
  BY <1>1, <1>2, <1>3

\* Nobody ever saves half of a pair.
LEMMA WholeStep ==
  TypeOK /\ TextIsWhole /\ PairIsWhole /\ [Next]_vars => TextIsWhole' /\ PairIsWhole'
<1> SUFFICES ASSUME TypeOK, TextIsWhole, PairIsWhole, [Next]_vars
             PROVE  TextIsWhole' /\ PairIsWhole'
  OBVIOUS
<1> USE DEF TextIsWhole, PairIsWhole
<1>1. ASSUME NEW p \in Procs, NEW r \in Requests, Config(p, r)
      PROVE  TextIsWhole' /\ PairIsWhole'
  <2>1. PairOk(Updated(LoadConfig, r))
    BY <1>1 DEF Config, Accepted
  <2>2. /\ text' = [text EXCEPT ![p] = Updated(LoadConfig, r)] /\ UNCHANGED cfile
        /\ pc' = [pc EXCEPT ![p] = "save"]
    BY <1>1 DEF Config
  <2> QED
    BY <2>1, <2>2 DEF TypeOK
<1>2. ASSUME NEW p \in Procs, Truncate(p) PROVE TextIsWhole' /\ PairIsWhole'
  BY <1>2, FileKinds, DefaultsWhole DEF Truncate, TypeOK
<1>3. ASSUME NEW p \in Procs, Write(p) PROVE TextIsWhole' /\ PairIsWhole'
  <2>1. cfile' \in {Json(text[p]), Broken} /\ PairOk(text[p])
    BY <1>3 DEF Write
  <2>2. PairOk(cfile'.settings)
    BY <2>1, FileKinds, DefaultsWhole
  <2>3. text' = [text EXCEPT ![p] = Defaults] /\ pc' = [pc EXCEPT ![p] = "idle"]
    BY <1>3 DEF Write
  <2> QED
    BY <2>2, <2>3 DEF TypeOK
<1>4. ASSUME NEW p \in Procs, SaveFails(p) PROVE TextIsWhole' /\ PairIsWhole'
  <2>1. cfile' = cfile \/ cfile' = Broken
    BY <1>4 DEF SaveFails
  <2>2. PairOk(cfile'.settings)
    BY <2>1, FileKinds, DefaultsWhole
  <2>3. text' = [text EXCEPT ![p] = Defaults] /\ pc' = [pc EXCEPT ![p] = "idle"]
    BY <1>4 DEF SaveFails
  <2> QED
    BY <2>2, <2>3 DEF TypeOK
<1>5. ASSUME NEW p \in Procs, Crash(p) PROVE TextIsWhole' /\ PairIsWhole'
  BY <1>5 DEF Crash, TypeOK
<1>6. ASSUME UNCHANGED conf,
             \A q \in Procs : pc'[q] = pc[q] \/ pc'[q] \notin {"save", "write"}
      PROVE  TextIsWhole' /\ PairIsWhole'
  BY <1>6 DEF conf
<1>7. CASE UNCHANGED vars
  BY <1>6, <1>7 DEF vars
<1> QED
  BY <1>1, <1>2, <1>3, <1>4, <1>5, <1>6, <1>7, SetupLeavesConfig DEF Next

\* One save at a time writes what all calls have asked for.
LEMMA SavesStep ==
  TypeOK /\ OneSaves /\ SettingsSurvive /\ [Next]_vars => OneSaves' /\ SettingsSurvive'
<1> SUFFICES ASSUME TypeOK, OneSaves, SettingsSurvive, [Next]_vars, ~ torn'
             PROVE  OneSaves' /\ SettingsSurvive'
  BY DEF OneSaves, SettingsSurvive
<1> USE DEF OneSaves, SettingsSurvive, Saving
<1>1. ASSUME NEW p \in Procs, NEW r \in Requests, Config(p, r)
      PROVE  OneSaves' /\ SettingsSurvive'
  <2>1. /\ ~ torn /\ Saving = {} /\ UNCHANGED cfile
        /\ text' = [text EXCEPT ![p] = Updated(LoadConfig, r)]
        /\ pc' = [pc EXCEPT ![p] = "save"] /\ expected' = Updated(expected, r)
    BY <1>1 DEF Config
  <2>2. LoadConfig = expected
    BY <2>1 DEF LoadConfig
  <2>3. Saving' = {p} /\ text'[p] = expected' /\ pc'[p] = "save"
    BY <2>1, <2>2 DEF TypeOK
  <2> HIDE DEF Saving
  <2> QED
    BY <2>3
<1>2. ASSUME NEW p \in Procs, Truncate(p) PROVE OneSaves' /\ SettingsSurvive'
  <2>1. /\ p \in Saving /\ ~ torn /\ UNCHANGED <<text, expected>> /\ cfile' = Empty
        /\ pc' = [pc EXCEPT ![p] = "write"]
    BY <1>2 DEF Truncate
  <2>2. Saving = {p} /\ Saving' = {p}
    BY <2>1 DEF TypeOK
  <2> HIDE DEF Saving
  <2> QED
    BY <2>1, <2>2
<1>3. ASSUME NEW p \in Procs, Write(p) PROVE OneSaves' /\ SettingsSurvive'
  <2>1. /\ p \in Saving /\ ~ torn /\ UNCHANGED expected /\ pc' = [pc EXCEPT ![p] = "idle"]
        /\ cfile = Empty /\ text[p] = expected
    BY <1>3 DEF Write
  <2>2. cfile' = Json(expected)
    BY <1>3, <2>1 DEF Write
  <2>3. Saving = {p} /\ Saving' = {}
    BY <2>1 DEF TypeOK
  <2> HIDE DEF Saving
  <2> QED
    BY <2>1, <2>2, <2>3, FileKinds
<1>4. ASSUME NEW p \in Procs, SaveFails(p) PROVE FALSE
  BY <1>4 DEF SaveFails
<1>5. ASSUME NEW p \in Procs, Crash(p) PROVE OneSaves' /\ SettingsSurvive'
  <2>1. /\ ~ torn /\ p \notin Saving /\ UNCHANGED <<cfile, expected>>
        /\ text' = [text EXCEPT ![p] = Defaults] /\ pc' = [pc EXCEPT ![p] = "idle"]
    BY <1>5 DEF Crash
  <2>2. /\ Saving' = Saving
        /\ \A q \in Saving : text'[q] = text[q] /\ pc'[q] = pc[q]
    BY <2>1 DEF TypeOK
  <2> HIDE DEF Saving
  <2> QED
    BY <2>1, <2>2
<1>6. ASSUME UNCHANGED conf,
             \A q \in Procs : \/ pc'[q] = pc[q]
                              \/ /\ pc[q] \notin {"save", "write"}
                                 /\ pc'[q] \notin {"save", "write"}
      PROVE  OneSaves' /\ SettingsSurvive'
  <2>1. Saving' = Saving /\ \A q \in Saving : pc'[q] = pc[q]
    BY <1>6
  <2> HIDE DEF Saving
  <2> QED
    BY <1>6, <2>1 DEF conf
<1>7. CASE UNCHANGED vars
  BY <1>6, <1>7 DEF vars
<1> QED
  BY <1>1, <1>2, <1>3, <1>4, <1>5, <1>6, <1>7, SetupLeavesConfig DEF Next
-----------------------------------------------------------------------------
(***************************************************************************)
(* The model files.                                                        *)
(***************************************************************************)
\* No step of config(), and no end of a process, touches the model files.
LEMMA ConfigLeavesSetup ==
  ASSUME TypeOK, NEW p \in Procs,
         \/ \E r \in Requests : Config(p, r)
         \/ Truncate(p) \/ Write(p) \/ SaveFails(p)
  PROVE  /\ UNCHANGED <<dir, setup>>
         /\ \A q \in Procs : \/ pc'[q] = pc[q]
                             \/ pc'[q] \notin {"next", "get", "fetch"}
BY DEF Config, Truncate, Write, SaveFails, TypeOK

\* The end of a process leaves the files and the other processes as they are.
LEMMA CrashStep ==
  ASSUME TypeOK, NEW p \in Procs, Crash(p)
  PROVE  /\ UNCHANGED <<tmp, target, setUp, shared>> /\ pc'[p] = "idle"
         /\ \A q \in Procs \ {p} : /\ pc'[q] = pc[q] /\ at'[q] = at[q]
                                   /\ pos'[q] = pos[q] /\ handle'[q] = handle[q]
BY DEF Crash, Closed, TypeOK

\* What a failed download leaves.
LEMMA DownloadFailsStep ==
  ASSUME TypeOK, NEW p \in Procs, DownloadFails(p)
  PROVE  /\ UNCHANGED <<target, setUp, shared>> /\ pc'[p] = "idle"
         /\ pc[p] \in {"get", "fetch"}
         /\ tmp' = [tmp EXCEPT ![at[p]] = None]
         /\ \A q \in Procs \ {p} :
              /\ pc'[q] = pc[q] /\ at'[q] = at[q] /\ pos'[q] = pos[q]
              /\ handle'[q] = IF pc[q] = "fetch" /\ at[q] = at[p] /\ handle[q] = "tmp"
                              THEN "gone" ELSE handle[q]
BY DEF DownloadFails, Closed, Moved, TypeOK

\* What the renaming of a .tmp file does.
LEMMA ReplaceStep ==
  ASSUME TypeOK, NEW p \in Procs, Replace(p)
  PROVE  /\ UNCHANGED <<setUp, shared>> /\ pc[p] = "fetch" /\ pos[p] > Chunks
         /\ pc'[p] = "next" /\ at'[p] = at[p] + 1 /\ tmp[at[p]] # None
         /\ target' = [target EXCEPT ![at[p]] = tmp[at[p]]]
         /\ tmp' = [tmp EXCEPT ![at[p]] = None]
         /\ \A q \in Procs \ {p} :
              /\ pc'[q] = pc[q] /\ at'[q] = at[q] /\ pos'[q] = pos[q]
              /\ (pc[q] = "fetch" /\ at[q] # at[p]) => handle'[q] = handle[q]
              /\ (pc[q] = "fetch" /\ at[q] = at[p]) =>
                   handle'[q] = IF handle[q] = "tmp" THEN "target" ELSE "gone"
<1>1. \A q \in Procs \ {p} : handle'[q] =
            CASE pc[q] = "fetch" /\ at[q] = at[p] /\ handle[q] = "target" -> "gone"
              [] pc[q] = "fetch" /\ at[q] = at[p] /\ handle[q] = "tmp" -> "target"
              [] OTHER -> handle[q]
  BY DEF Replace, Closed, Moved
<1>2. \A q \in Procs : pc[q] = "fetch" => handle[q] \in {"tmp", "target", "gone"}
  BY DEF TypeOK
<1>3. /\ UNCHANGED <<setUp, shared>> /\ pc[p] = "fetch" /\ pos[p] > Chunks
      /\ pc' = [pc EXCEPT ![p] = "next"] /\ at' = [at EXCEPT ![p] = @ + 1]
      /\ tmp[at[p]] # None
      /\ target' = [target EXCEPT ![at[p]] = tmp[at[p]]]
      /\ tmp' = [tmp EXCEPT ![at[p]] = None]
      /\ pos' = [pos EXCEPT ![p] = 1]
  BY DEF Replace, Closed
<1> QED
  BY <1>1, <1>2, <1>3 DEF TypeOK

\* What a piece that arrives does: it goes to the file that was opened,
\* wherever that is now.
LEMMA WriteChunkStep ==
  ASSUME TypeOK, InOrder, Linked, NEW p \in Procs, WriteChunk(p)
  PROVE  /\ UNCHANGED <<handle, at, setUp, shared, pc>>
         /\ pc[p] = "fetch" /\ at[p] \in DOMAIN Names
         /\ pos' = [pos EXCEPT ![p] = @ + 1]
         /\ tmp' = IF handle[p] = "tmp"
                   THEN [tmp EXCEPT ![at[p]] = @ \cup {pos[p]}] ELSE tmp
         /\ target' = IF handle[p] = "target"
                      THEN [target EXCEPT ![at[p]] = @ \cup {pos[p]}] ELSE target
         /\ \A n \in DOMAIN Names : /\ tmp[n] # None => tmp'[n] # None
                                    /\ target[n] # None => target'[n] # None
<1>1. /\ UNCHANGED <<handle, at, setUp, shared, pc>>
      /\ pc[p] = "fetch" /\ at[p] \in DOMAIN Names
      /\ pos' = [pos EXCEPT ![p] = @ + 1]
      /\ tmp' = IF handle[p] = "tmp"
                THEN [tmp EXCEPT ![at[p]] = @ \cup {pos[p]}] ELSE tmp
      /\ target' = IF handle[p] = "target"
                   THEN [target EXCEPT ![at[p]] = @ \cup {pos[p]}] ELSE target
  BY DEF WriteChunk, InOrder
<1>2. pos[p] \in Pieces
  BY GlobalDirAssumption DEF WriteChunk, TypeOK, Pieces
<1>3. handle[p] = "tmp" => tmp[at[p]] \cup {pos[p]} \in SUBSET Pieces
  BY <1>1, <1>2 DEF TypeOK, Linked
<1>4. handle[p] = "target" => target[at[p]] \cup {pos[p]} \in SUBSET Pieces
  BY <1>1, <1>2 DEF TypeOK, Linked
<1>5. \A n \in DOMAIN Names : tmp[n] # None => tmp'[n] # None
  BY <1>1, <1>3, PiecesAreFiles DEF TypeOK
<1>6. \A n \in DOMAIN Names : target[n] # None => target'[n] # None
  BY <1>1, <1>4, PiecesAreFiles DEF TypeOK
<1> QED
  BY <1>1, <1>5, <1>6

\* No step ever takes a model file away.
LEMMA TargetStays ==
  ASSUME TypeOK, InOrder, Linked, [Next]_vars
  PROVE  \A n \in DOMAIN Names : target[n] # None => target'[n] # None
<1> DEFINE Stays == \A n \in DOMAIN Names : target[n] # None => target'[n] # None
<1>1. UNCHANGED target => Stays
  OBVIOUS
<1>2. ASSUME NEW p \in Procs, Replace(p) PROVE Stays
  BY <1>2, ReplaceStep DEF TypeOK
<1>3. ASSUME NEW p \in Procs, WriteChunk(p) PROVE Stays
  BY <1>3, WriteChunkStep
<1>4. ASSUME NEW p \in Procs,
             \/ \E f \in BOOLEAN : Setup(p, f)
             \/ NextFile(p) \/ SetupDone(p) \/ OpenTmp(p) \/ DownloadFails(p) \/ Crash(p)
      PROVE  Stays
  BY <1>1, <1>4 DEF Setup, NextFile, SetupDone, OpenTmp, DownloadFails, Crash, dir
<1>5. CASE UNCHANGED vars
  BY <1>1, <1>5 DEF vars, dir
<1>6. ASSUME NEW p \in Procs,
             \/ \E r \in Requests : Config(p, r)
             \/ Truncate(p) \/ Write(p) \/ SaveFails(p)
      PROVE  Stays
  BY <1>1, <1>6, ConfigLeavesSetup DEF dir
<1> QED
  BY <1>2, <1>3, <1>4, <1>5, <1>6 DEF Next

\* A setup goes through MODEL_FILES one after the other.
LEMMA OrderStep ==
  TypeOK /\ InOrder /\ Linked /\ Complete /\ [Next]_vars => InOrder' /\ Complete'
<1> SUFFICES ASSUME TypeOK, InOrder, Linked, Complete, [Next]_vars
             PROVE  InOrder' /\ Complete'
  OBVIOUS
<1> USE DEF InOrder, Complete
<1>0. /\ DOMAIN Names = 1..Len(Names) /\ Len(Names) \in Nat
      /\ \A n \in DOMAIN Names : target[n] # None => target'[n] # None
  BY GlobalDirAssumption, TargetStays
<1>1. ASSUME NEW p \in Procs, UNCHANGED setUp,
             \A q \in Procs \ {p} : pc'[q] = pc[q] /\ at'[q] = at[q],
             pc'[p] \in {"next", "get", "fetch"} =>
                /\ pc'[p] # "next" => at'[p] \in DOMAIN Names
                /\ \A n \in DOMAIN Names : n < at'[p] => target'[n] # None
      PROVE  InOrder' /\ Complete'
  BY <1>0, <1>1
<1>2. ASSUME NEW p \in Procs, NEW f \in BOOLEAN, Setup(p, f) PROVE InOrder' /\ Complete'
  <2>1. /\ pc' = [pc EXCEPT ![p] = "next"] /\ at' = [at EXCEPT ![p] = 1] /\ UNCHANGED setUp
    BY <1>2 DEF Setup
  <2> QED
    BY <2>1, <1>0, <1>1 DEF TypeOK
<1>3. ASSUME NEW p \in Procs, NextFile(p) PROVE InOrder' /\ Complete'
  <2>1. pc[p] = "next" /\ at[p] \in DOMAIN Names /\ UNCHANGED <<target, setUp>>
    BY <1>0, <1>3 DEF NextFile, TypeOK, dir
  <2>2. CASE target[at[p]] # None /\ ~ force[p]
    <3>1. at' = [at EXCEPT ![p] = @ + 1] /\ UNCHANGED pc
      BY <1>3, <2>2 DEF NextFile
    <3>2. \A n \in DOMAIN Names : n < at'[p] => n < at[p] \/ n = at[p]
      BY <1>0, <2>1, <3>1 DEF TypeOK
    <3>3. \A n \in DOMAIN Names : n < at'[p] => target'[n] # None
      BY <2>1, <2>2, <3>2
    <3> QED
      BY <1>1, <2>1, <3>1, <3>3 DEF TypeOK
  <2>3. CASE ~ (target[at[p]] # None /\ ~ force[p])
    <3>1. pc' = [pc EXCEPT ![p] = "get"] /\ UNCHANGED at
      BY <1>3, <2>3 DEF NextFile
    <3> QED
      BY <1>1, <2>1, <3>1 DEF TypeOK
  <2> QED
    BY <2>2, <2>3
<1>4. ASSUME NEW p \in Procs, SetupDone(p) PROVE InOrder' /\ Complete'
  <2>1. /\ pc[p] = "next" /\ at[p] > Len(Names) /\ UNCHANGED target
        /\ pc' = [pc EXCEPT ![p] = "idle"] /\ at' = [at EXCEPT ![p] = 1]
    BY <1>4 DEF SetupDone, dir
  <2>2. \A n \in DOMAIN Names : n < at[p]
    BY <1>0, <2>1 DEF TypeOK
  <2> QED
    BY <2>1, <2>2 DEF TypeOK
<1>5. ASSUME NEW p \in Procs, OpenTmp(p) PROVE InOrder' /\ Complete'
  BY <1>0, <1>1, <1>5 DEF OpenTmp, TypeOK
<1>6. ASSUME NEW p \in Procs, WriteChunk(p) PROVE InOrder' /\ Complete'
  BY <1>0, <1>6, WriteChunkStep
<1>7. ASSUME NEW p \in Procs, DownloadFails(p) PROVE InOrder' /\ Complete'
  BY <1>1, <1>7, DownloadFailsStep
<1>8. ASSUME NEW p \in Procs, Crash(p) PROVE InOrder' /\ Complete'
  BY <1>1, <1>8, CrashStep
<1>9. ASSUME NEW p \in Procs, Replace(p) PROVE InOrder' /\ Complete'
  <2>1. at[p] \in DOMAIN Names /\ at'[p] = at[p] + 1 /\ target'[at[p]] # None
    BY <1>9, ReplaceStep DEF TypeOK
  <2>2. \A n \in DOMAIN Names : n < at'[p] => n < at[p] \/ n = at[p]
    BY <1>0, <2>1
  <2>3. pc[p] = "fetch" /\ pc'[p] = "next" /\ UNCHANGED setUp
    BY <1>9, ReplaceStep
  <2>4. \A n \in DOMAIN Names : n < at'[p] => target'[n] # None
    BY <1>0, <2>1, <2>2, <2>3
  <2> QED
    BY <1>1, <1>9, <2>3, <2>4, ReplaceStep
<1>10. CASE UNCHANGED vars
  BY <1>10 DEF vars, dir, setup
<1>11. ASSUME NEW p \in Procs,
              \/ \E r \in Requests : Config(p, r)
              \/ Truncate(p) \/ Write(p) \/ SaveFails(p)
       PROVE  InOrder' /\ Complete'
  BY <1>11, ConfigLeavesSetup DEF dir, setup
<1> QED
  BY <1>2, <1>3, <1>4, <1>5, <1>6, <1>7, <1>8, <1>9, <1>10, <1>11 DEF Next

\* A process that writes under a name writes a file that is there.
LEMMA LinkedStep == TypeOK /\ InOrder /\ Linked /\ [Next]_vars => Linked'
<1> SUFFICES ASSUME TypeOK, InOrder, Linked, [Next]_vars PROVE Linked'
  OBVIOUS
<1>1. ASSUME UNCHANGED <<tmp, target>>,
             \A q \in Procs : pc'[q] = "fetch" =>
                pc[q] = "fetch" /\ at'[q] = at[q] /\ handle'[q] = handle[q]
      PROVE  Linked'
  BY <1>1 DEF Linked
<1>2. ASSUME NEW p \in Procs,
             \/ \E f \in BOOLEAN : Setup(p, f)
             \/ NextFile(p) \/ SetupDone(p)
      PROVE  Linked'
  <2>1. /\ UNCHANGED <<tmp, target, handle>> /\ pc'[p] # "fetch"
        /\ \A q \in Procs \ {p} : pc'[q] = pc[q] /\ at'[q] = at[q]
    BY <1>2 DEF Setup, NextFile, SetupDone, dir, TypeOK
  <2> QED
    BY <2>1, <1>1
<1>3. ASSUME NEW p \in Procs, OpenTmp(p) PROVE Linked'
  <2>1. /\ at[p] \in DOMAIN Names /\ UNCHANGED <<target, at>>
        /\ tmp' = [tmp EXCEPT ![at[p]] = {}] /\ handle' = [handle EXCEPT ![p] = "tmp"]
        /\ pc' = [pc EXCEPT ![p] = "fetch"]
    BY <1>3 DEF OpenTmp, InOrder
  <2>2. tmp'[at[p]] # None /\ \A n \in DOMAIN Names : tmp[n] # None => tmp'[n] # None
    BY <2>1, PiecesAreFiles DEF TypeOK
  <2>3. \A q \in Procs : pc[q] = "fetch" => at[q] \in DOMAIN Names
    BY DEF InOrder
  <2> QED
    BY <2>1, <2>2, <2>3 DEF Linked, TypeOK
<1>4. ASSUME NEW p \in Procs, WriteChunk(p) PROVE Linked'
  <2>1. \A q \in Procs : pc[q] = "fetch" => at[q] \in DOMAIN Names
    BY DEF InOrder
  <2> QED
    BY <1>4, <2>1, WriteChunkStep DEF Linked
<1>5. ASSUME NEW p \in Procs, DownloadFails(p) PROVE Linked'
  <2> SUFFICES ASSUME NEW q \in Procs, pc'[q] = "fetch"
               PROVE  /\ handle'[q] = "tmp" => tmp'[at'[q]] # None
                      /\ handle'[q] = "target" => target'[at'[q]] # None
    BY DEF Linked
  <2>1. q # p /\ pc[q] = "fetch" /\ at'[q] = at[q] /\ UNCHANGED target
    BY <1>5, DownloadFailsStep
  <2>2. at[p] \in DOMAIN Names /\ at[q] \in DOMAIN Names
    BY <1>5, <2>1, DownloadFailsStep DEF InOrder
  <2>3. handle'[q] = "tmp" => at[q] # at[p] /\ handle[q] = "tmp"
    BY <1>5, <2>1, DownloadFailsStep
  <2>4. handle'[q] = "target" => handle[q] = "target"
    BY <1>5, <2>1, DownloadFailsStep
  <2>5. at[q] # at[p] => tmp'[at[q]] = tmp[at[q]]
    BY <1>5, <2>2, DownloadFailsStep DEF TypeOK
  <2> QED
    BY <2>1, <2>3, <2>4, <2>5 DEF Linked
<1>6. ASSUME NEW p \in Procs, Replace(p) PROVE Linked'
  <2> SUFFICES ASSUME NEW q \in Procs, pc'[q] = "fetch"
               PROVE  /\ handle'[q] = "tmp" => tmp'[at'[q]] # None
                      /\ handle'[q] = "target" => target'[at'[q]] # None
    BY DEF Linked
  <2>1. q # p /\ pc[q] = "fetch" /\ at'[q] = at[q]
    BY <1>6, ReplaceStep
  <2>2. at[p] \in DOMAIN Names /\ at[q] \in DOMAIN Names
    BY <1>6, <2>1, ReplaceStep DEF InOrder
  <2>3. CASE at[q] = at[p]
    <3>1. target'[at[p]] = tmp[at[p]] /\ tmp[at[p]] # None
      BY <1>6, <2>2, ReplaceStep DEF TypeOK
    <3> QED
      BY <1>6, <2>1, <2>3, <3>1, ReplaceStep
  <2>4. CASE at[q] # at[p]
    <3>1. tmp'[at[q]] = tmp[at[q]] /\ target'[at[q]] = target[at[q]] /\ handle'[q] = handle[q]
      BY <1>6, <2>1, <2>2, <2>4, ReplaceStep DEF TypeOK
    <3> QED
      BY <2>1, <3>1 DEF Linked
  <2> QED
    BY <2>3, <2>4
<1>7. ASSUME NEW p \in Procs, Crash(p) PROVE Linked'
  BY <1>1, <1>7, CrashStep
<1>8. CASE UNCHANGED vars
  BY <1>1, <1>8 DEF vars, dir, setup
<1>9. ASSUME NEW p \in Procs,
             \/ \E r \in Requests : Config(p, r)
             \/ Truncate(p) \/ Write(p) \/ SaveFails(p)
      PROVE  Linked'
  BY <1>1, <1>9, ConfigLeavesSetup DEF dir, setup
<1> QED
  BY <1>2, <1>3, <1>4, <1>5, <1>6, <1>7, <1>8, <1>9 DEF Next

\* A download that nobody else shares is renamed when it is all there.
LEMMA FetchStep ==
  TypeOK /\ InOrder /\ Linked /\ OneFetches /\ DamagedOnlyIfShared /\ [Next]_vars
    => OneFetches' /\ DamagedOnlyIfShared'
<1> SUFFICES ASSUME TypeOK, InOrder, Linked, OneFetches, DamagedOnlyIfShared, [Next]_vars,
                    ~ shared'
             PROVE  OneFetches' /\ DamagedOnlyIfShared'
  BY DEF OneFetches, DamagedOnlyIfShared
<1>0. ~ shared
  <2>1. shared' = shared \/ \E p \in Procs : OpenTmp(p)
    BY WriteChunkStep, DownloadFailsStep, ReplaceStep, CrashStep, ConfigLeavesSetup
       DEF Next, Setup, NextFile, SetupDone, vars, setup
  <2> QED
    BY <2>1 DEF OpenTmp, TypeOK
<1> USE <1>0 DEF OneFetches, DamagedOnlyIfShared, Fetched
<1>1. ASSUME UNCHANGED <<tmp, target>>,
             \A q \in Procs : pc'[q] = "fetch" =>
                /\ pc[q] = "fetch" /\ at'[q] = at[q] /\ pos'[q] = pos[q]
                /\ handle'[q] = handle[q]
      PROVE  OneFetches' /\ DamagedOnlyIfShared'
  BY <1>1
<1>2. ASSUME NEW p \in Procs,
             \/ \E f \in BOOLEAN : Setup(p, f)
             \/ NextFile(p) \/ SetupDone(p)
      PROVE  OneFetches' /\ DamagedOnlyIfShared'
  <2>1. /\ UNCHANGED <<tmp, target, handle, pos>> /\ pc'[p] # "fetch"
        /\ \A q \in Procs \ {p} : pc'[q] = pc[q] /\ at'[q] = at[q]
    BY <1>2 DEF Setup, NextFile, SetupDone, dir, TypeOK
  <2> QED
    BY <2>1, <1>1
<1>3. ASSUME NEW p \in Procs, OpenTmp(p) PROVE OneFetches' /\ DamagedOnlyIfShared'
  <2>1. /\ pc[p] = "get" /\ at[p] \in DOMAIN Names /\ UNCHANGED <<target, at>>
        /\ tmp' = [tmp EXCEPT ![at[p]] = {}] /\ handle' = [handle EXCEPT ![p] = "tmp"]
        /\ pos' = [pos EXCEPT ![p] = 1] /\ pc' = [pc EXCEPT ![p] = "fetch"]
        /\ \A q \in Procs : pc[q] = "fetch" => at[q] # at[p]
    BY <1>3 DEF OpenTmp, InOrder
  <2>2. handle'[p] = "tmp" /\ tmp'[at'[p]] = {} /\ pos'[p] = 1
    BY <2>1 DEF TypeOK
  <2>3. Fetched(p)'
    BY <2>2
  <2>4. ASSUME NEW q \in Procs \ {p}, pc'[q] = "fetch" PROVE Fetched(q)' /\ at'[q] # at'[p]
    <3>1. pc[q] = "fetch" /\ at[q] # at[p] /\ at[q] \in DOMAIN Names
      BY <2>1, <2>4 DEF TypeOK, InOrder
    <3>2. tmp'[at[q]] = tmp[at[q]] /\ handle'[q] = handle[q] /\ pos'[q] = pos[q]
      BY <2>1, <3>1 DEF TypeOK
    <3> QED
      BY <2>1, <3>1, <3>2
  <2>5. \A q, r \in Procs \ {p} : pc'[q] = "fetch" /\ pc'[r] = "fetch" /\ at'[q] = at'[r] => q = r
    BY <2>1 DEF TypeOK
  <2> HIDE DEF Fetched
  <2> QED
    BY <2>1, <2>3, <2>4, <2>5
<1>4. ASSUME NEW p \in Procs, WriteChunk(p) PROVE OneFetches' /\ DamagedOnlyIfShared'
  <2>1. /\ UNCHANGED <<handle, at, pc>> /\ pc[p] = "fetch" /\ at[p] \in DOMAIN Names
        /\ pos' = [pos EXCEPT ![p] = @ + 1]
        /\ tmp' = IF handle[p] = "tmp" THEN [tmp EXCEPT ![at[p]] = @ \cup {pos[p]}] ELSE tmp
    BY <1>4, WriteChunkStep
  <2>2. UNCHANGED target
    BY <1>4, <2>1, WriteChunkStep
  <2>3. Fetched(p)'
    <3>1. CASE handle[p] = "tmp" /\ tmp[at[p]] = 1..(pos[p] - 1)
      <4>1. tmp'[at[p]] = 1..(pos[p] - 1) \cup {pos[p]}
        BY <2>1, <3>1 DEF TypeOK
      <4>2. pos[p] \in Nat \ {0} /\ pos'[p] = pos[p] + 1
        BY <2>1, GlobalDirAssumption DEF TypeOK
      <4>3. 1..(pos[p] - 1) \cup {pos[p]} = 1..(pos'[p] - 1)
        BY <4>2
      <4> QED
        BY <2>1, <3>1, <4>1, <4>3
    <3>2. CASE handle[p] = "gone" /\ tmp[at[p]] = None
      BY <2>1, <3>2
    <3> QED
      BY <2>1, <3>1, <3>2
  <2>4. ASSUME NEW q \in Procs \ {p}, pc[q] = "fetch" PROVE Fetched(q)'
    <3>1. at[q] # at[p] /\ at[q] \in DOMAIN Names
      BY <2>1, <2>4 DEF InOrder
    <3>2. tmp'[at[q]] = tmp[at[q]] /\ pos'[q] = pos[q]
      BY <2>1, <3>1 DEF TypeOK
    <3> QED
      BY <2>1, <2>4, <3>2
  <2> HIDE DEF Fetched
  <2> QED
    BY <2>1, <2>2, <2>3, <2>4
<1>5. ASSUME NEW p \in Procs, DownloadFails(p) PROVE OneFetches' /\ DamagedOnlyIfShared'
  <2>1. ASSUME NEW q \in Procs, pc'[q] = "fetch" PROVE Fetched(q)'
    <3>1. q # p /\ pc[q] = "fetch" /\ Fetched(q) /\ at'[q] = at[q] /\ pos'[q] = pos[q]
      BY <1>5, <2>1, DownloadFailsStep
    <3>2. at[p] \in DOMAIN Names /\ at[q] \in DOMAIN Names
      BY <1>5, <3>1, DownloadFailsStep DEF InOrder
    <3>3. CASE at[q] = at[p]
      <4>1. tmp'[at[q]] = None /\ handle'[q] = "gone"
        BY <1>5, <3>1, <3>2, <3>3, DownloadFailsStep DEF TypeOK
      <4> QED
        BY <3>1, <4>1
    <3>4. CASE at[q] # at[p]
      <4>1. tmp'[at[q]] = tmp[at[q]] /\ handle'[q] = handle[q]
        BY <1>5, <3>1, <3>2, <3>4, DownloadFailsStep DEF TypeOK
      <4> QED
        BY <3>1, <4>1
    <3> QED
      BY <3>3, <3>4
  <2> HIDE DEF Fetched
  <2> QED
    BY <1>5, <2>1, DownloadFailsStep
<1>6. ASSUME NEW p \in Procs, Replace(p) PROVE OneFetches' /\ DamagedOnlyIfShared'
  <2>1. at[p] \in DOMAIN Names /\ pc[p] = "fetch"
    BY <1>6, ReplaceStep DEF InOrder
  <2>2. target'[at[p]] = Pieces
    <3>1. tmp[at[p]] = 1..(pos[p] - 1) /\ pos[p] > Chunks
      BY <1>6, <2>1, ReplaceStep
    <3>2. pos[p] = Chunks + 1
      BY <3>1, GlobalDirAssumption DEF TypeOK
    <3>3. tmp[at[p]] = Pieces
      BY <3>1, <3>2, GlobalDirAssumption DEF Pieces
    <3> QED
      BY <1>6, <2>1, <3>3, ReplaceStep DEF TypeOK
  <2>3. \A n \in DOMAIN Names \ {at[p]} : target'[n] = target[n]
    BY <1>6, <2>1, ReplaceStep DEF TypeOK
  <2>4. ASSUME NEW q \in Procs, pc'[q] = "fetch" PROVE Fetched(q)'
    <3>1. q # p /\ pc[q] = "fetch" /\ Fetched(q) /\ at'[q] = at[q] /\ pos'[q] = pos[q]
      BY <1>6, <2>4, ReplaceStep
    <3>2. at[q] # at[p] /\ at[q] \in DOMAIN Names
      BY <2>1, <3>1 DEF InOrder
    <3>3. tmp'[at[q]] = tmp[at[q]] /\ handle'[q] = handle[q]
      BY <1>6, <2>1, <3>1, <3>2, ReplaceStep DEF TypeOK
    <3> QED
      BY <3>1, <3>3
  <2> HIDE DEF Fetched
  <2> QED
    BY <1>6, <2>2, <2>3, <2>4, ReplaceStep
<1>7. ASSUME NEW p \in Procs, Crash(p) PROVE OneFetches' /\ DamagedOnlyIfShared'
  BY <1>1, <1>7, CrashStep
<1>8. CASE UNCHANGED vars
  BY <1>1, <1>8 DEF vars, dir, setup
<1>9. ASSUME NEW p \in Procs,
             \/ \E r \in Requests : Config(p, r)
             \/ Truncate(p) \/ Write(p) \/ SaveFails(p)
      PROVE  OneFetches' /\ DamagedOnlyIfShared'
  BY <1>1, <1>9, ConfigLeavesSetup DEF dir, setup
<1> QED
  BY <1>2, <1>3, <1>4, <1>5, <1>6, <1>7, <1>8, <1>9 DEF Next
-----------------------------------------------------------------------------
(***************************************************************************)
(* The theorems.                                                           *)
(***************************************************************************)
\* The invariant holds of an empty directory.
LEMMA InitGInv == Init => GInv
<1> SUFFICES ASSUME Init PROVE GInv
  OBVIOUS
<1>1. TypeOK
  BY InitType
<1>2. TextIsWhole /\ PairIsWhole /\ OneSaves /\ SettingsSurvive
  BY FileKinds, DefaultsWhole
     DEF Init, TextIsWhole, PairIsWhole, OneSaves, SettingsSurvive, Saving
<1>3. InOrder /\ Linked /\ Complete /\ OneFetches /\ DamagedOnlyIfShared
  BY DEF Init, InOrder, Linked, Complete, OneFetches, DamagedOnlyIfShared
<1> QED
  BY <1>1, <1>2, <1>3 DEF GInv

\* Every step keeps it.
LEMMA NextGInv == GInv /\ [Next]_vars => GInv'
<1> SUFFICES ASSUME GInv, [Next]_vars PROVE GInv'
  OBVIOUS
<1>1. TypeOK' /\ TextIsWhole' /\ PairIsWhole' /\ OneSaves' /\ SettingsSurvive'
  BY TypeStep, WholeStep, SavesStep DEF GInv
<1>2. InOrder' /\ Complete' /\ Linked'
  BY OrderStep, LinkedStep DEF GInv
<1>3. OneFetches' /\ DamagedOnlyIfShared'
  BY FetchStep DEF GInv
<1> QED
  BY <1>1, <1>2, <1>3 DEF GInv

\* So it holds whatever any number of processes do.
LEMMA Invariant == Spec => []GInv
BY InitGInv, NextGInv, PTL DEF Spec

\* config.json, the model files and the downloads keep their types, and a
\* process has a file open exactly while it downloads.
THEOREM DirectoryTypes == Spec => []TypeOK
<1>1. GInv => TypeOK
  BY DEF GInv
<1> QED
  BY <1>1, Invariant, PTL

\* Whatever calls of config() overlap, fail or are killed, config.json never
\* has one half of a remote embedder: every text that is saved is whole, and a
\* torn file reads as the defaults.
THEOREM WholePair == Spec => []PairIsWhole
<1>1. GInv => PairIsWhole
  BY DEF GInv
<1> QED
  BY <1>1, Invariant, PTL

\* Calls of config() that do not overlap and do not fail add up.
THEOREM NothingLost == Spec => []SettingsSurvive
<1>1. GInv => SettingsSurvive
  BY DEF GInv
<1> QED
  BY <1>1, Invariant, PTL

\* Unless two downloads of one file overlap, a model file is there whole or
\* not at all, wherever a setup fails or is killed.
THEOREM WholeFiles == Spec => []DamagedOnlyIfShared
<1>1. GInv => DamagedOnlyIfShared
  BY DEF GInv
<1> QED
  BY <1>1, Invariant, PTL

\* After a setup that reported success every embedder can embed, unless two
\* downloads of one file overlapped.
THEOREM SetupSuffices == Spec => []SetupIsEnough
<1>1. GInv => SetupIsEnough
  <2> SUFFICES ASSUME GInv, setUp, ~ shared PROVE CreateStack \in {"ready", "remote"}
    BY DEF SetupIsEnough
  <2>1. PairOk(LoadConfig)
    BY DEF GInv, PairIsWhole, LoadConfig
  <2>2. \A n \in DOMAIN Names : target[n] # None /\ target[n] = Pieces
    BY DEF GInv, Complete, DamagedOnlyIfShared
  <2>3. target[1] # None
    BY <2>2, GlobalDirAssumption
  <2>4. LocalEmbedder = "ready"
    BY <2>2, <2>3 DEF LocalEmbedder
  <2> QED
    BY <2>1, <2>4 DEF CreateStack
<1> QED
  BY <1>1, Invariant, PTL
=============================================================================
