---------------------------- MODULE PathMigration ----------------------------
(***************************************************************************)
(* The rewrite of an index that holds absolute paths onto paths relative   *)
(* to the project root (services/path_migration.py), as run_sync drives it *)
(* before every sync until the index carries the done mark.                *)
(*                                                                         *)
(* The rows of one stored path are the set of code bodies under it; a unit *)
(* id is the path and the body's qualified name, so two bodies of one name *)
(* under one path are a primary key violation.  Each rewrite, and the      *)
(* removal of orphans, is one transaction that takes the embeddings and    *)
(* relations of a unit along with it: they are not told apart from the row *)
(* here.  The process may stop between any two of these transactions.      *)
(***************************************************************************)
EXTENDS Naturals, Sequences, Functions, FiniteSets

CONSTANTS
    Abs,        \* absolute stored paths of the older index
    Rel,        \* project-relative paths
    Walk,       \* the relative paths _indexable_under walks, in its order
    Under,      \* path relative to root of each absolute path, or Outside
    Suffix,     \* file suffix of every stored path
    Codes,      \* code bodies
    NameOf,     \* qualified name of each body
    Contents,   \* what a source file may hold: sets of bodies
    Outside,    \* the absolute path is not under the present root
    Unread,     \* the file could not be read or parsed
    Gone,       \* there is no such file
    MaxEdits,   \* bound: changes of files on disk
    MaxFaults   \* bound: injected failures of files and of the database

Files == Range(Walk)

\* The bodies one path can hold: their names are part of the primary key.
Distinct == {c \in SUBSET Codes : IsInjective(Restrict(NameOf, c))}

ASSUME WalkAssumption ==
    /\ Walk \in Seq(Rel) /\ Walk # << >> /\ IsInjective(Walk)
    /\ Abs \cap Rel = {}
    /\ Under \in [Abs -> Rel \cup {Outside}]
    /\ Outside \notin Rel
    /\ DOMAIN Suffix = Abs \cup Rel
    /\ \A a \in Abs : Under[a] # Outside => Suffix[a] = Suffix[Under[a]]
    /\ DOMAIN NameOf = Codes
    /\ Contents \subseteq Distinct /\ {} \in Contents
    /\ Unread # Gone /\ \A c \in SUBSET Codes : c \notin {Unread, Gone}
    /\ MaxEdits \in Nat /\ MaxFaults \in Nat

VARIABLES
    rows,       \* table units: the bodies stored under each path
    done,       \* index_meta[PATHS_MIGRATED_KEY] = "1"
    disk,       \* contents of each project file
    pc,
    next,       \* position in the walk
    groups,     \* _groups: the absolute paths listed when the run began
    seen,       \* outcome of parsing each file in this run
    mapping,    \* claim_relative_paths: absolute path -> relative path
    todo,       \* claims not committed yet
    failed,     \* failed_commits
    faulted,    \* history: a failure was injected into this run
    edits, faults

run  == <<next, groups, seen, mapping, todo, failed>>
vars == <<rows, done, disk, pc, run, faulted, edits, faults>>

Steps == {"idle", "list", "parse", "direct", "claim", "commit", "orphans",
          "mark", "sync"}

NoMap == [a \in {} |-> a]

NoRun ==
    /\ next = 1 /\ groups = {} /\ mapping = NoMap /\ todo = {} /\ failed = {}
    /\ seen = [f \in Files |-> Gone]

Init ==
    /\ rows \in [Abs \cup Rel -> Contents]
    /\ \A r \in Rel : rows[r] = {}
    /\ done = FALSE
    /\ disk \in [Files -> Contents \cup {Gone}]
    /\ pc = "idle" /\ NoRun
    /\ faulted = FALSE /\ edits = 0 /\ faults = 0
-----------------------------------------------------------------------------
Images   == Range(mapping)
Skipped  == {Suffix[f] : f \in {g \in Files : seen[g] = Unread}}
Pending  == {a \in groups : Under[a] = Outside}

\* Faulty variant of Incomplete: only a parse failure counts.
IncompleteIfSkipped == Skipped # {}

\* migrate_absolute_paths: incomplete.
Incomplete == Skipped # {} \/ failed # {}

\* Faulty variant of Orphans: the suffixes that failed to parse are ignored.
AllUnmapped == groups \ DOMAIN mapping

\* migrate_absolute_paths: orphans (a failed commit has a mapping).
Orphans == {a \in groups \ DOMAIN mapping : Suffix[a] \notin Skipped}

\* An injected failure, within the bound.
Fault ==
    /\ faults < MaxFaults
    /\ faults' = faults + 1 /\ faulted' = TRUE

NoFault == UNCHANGED <<faulted, faults>>

\* A file is edited, created or removed while a run is in progress or not.
Edit(f, c) ==
    /\ edits < MaxEdits
    /\ disk[f] # c
    /\ disk' = [disk EXCEPT ![f] = c]
    /\ edits' = edits + 1
    /\ UNCHANGED <<rows, done, pc, run, faulted, faults>>

EndRun ==
    /\ pc' = "idle"
    /\ next' = 1 /\ groups' = {} /\ mapping' = NoMap /\ todo' = {}
    /\ failed' = {} /\ seen' = [f \in Files |-> Gone]

\* The process stops, or the sync after the migration raises or is done.
Stop ==
    /\ pc # "idle"
    /\ EndRun
    /\ UNCHANGED <<rows, done, disk, edits>> /\ NoFault

\* run_sync, up to paths_migration_done.
Start ==
    /\ pc = "idle"
    /\ pc' = IF done THEN "sync" ELSE "list"
    /\ faulted' = FALSE
    /\ UNCHANGED <<rows, done, disk, run, edits, faults>>

\* _groups(list_units); an index without absolute paths is marked at once.
ListGroups ==
    /\ pc = "list"
    /\ groups' = {a \in Abs : rows[a] # {}}
    /\ IF groups' = {}
       THEN done' = TRUE /\ pc' = "sync"
       ELSE pc' = "parse" /\ UNCHANGED done
    /\ UNCHANGED <<rows, disk, next, seen, mapping, todo, failed, edits>>
    /\ NoFault

\* Faulty variant of Advance: the walk runs past its end.
AdvancePast(after) ==
    IF next <= Len(Walk) THEN next' = next + 1 /\ UNCHANGED pc
                         ELSE next' = 1 /\ pc' = after

\* The next file of the walk, or the phase after the walk.
Advance(after) ==
    IF next < Len(Walk) THEN next' = next + 1 /\ UNCHANGED pc
                        ELSE next' = 1 /\ pc' = after

\* distill_file with raise_on_failure.
Parse ==
    /\ pc = "parse"
    /\ \/ seen' = [seen EXCEPT ![Walk[next]] = disk[Walk[next]]] /\ NoFault
       \/ /\ disk[Walk[next]] # Gone
          /\ seen' = [seen EXCEPT ![Walk[next]] = Unread]
          /\ Fault
    /\ Advance("direct")
    /\ UNCHANGED <<rows, done, disk, groups, mapping, todo, failed, edits>>

\* claim_relative_paths, first loop: a path under root keeps its place, and
\* of several that resolve to one place the first listed does.
ClaimDirect ==
    /\ pc = "direct"
    /\ \E S \in SUBSET (groups \ Pending) :
        /\ {Under[a] : a \in S} = {Under[a] : a \in groups \ Pending}
        /\ \A a, b \in S : Under[a] = Under[b] => a = b
        /\ mapping' = [a \in S |-> Under[a]]
    /\ pc' = "claim"
    /\ UNCHANGED <<rows, done, disk, next, groups, seen, todo, failed, edits>>
    /\ NoFault

\* Faulty variant of Matches: the set of taken places is not consulted.
MatchesTaken(f) == {a \in Pending \ DOMAIN mapping : rows[a] = seen[f]}

\* Absolute paths outside root that file f may claim.
Matches(f) ==
    IF f \in Images THEN {}
    ELSE {a \in Pending \ DOMAIN mapping : rows[a] = seen[f]}

\* claim_relative_paths, second loop: the file takes an absolute path whose
\* stored hashes are those just parsed.
ClaimFile ==
    /\ pc = "claim"
    /\ LET f == Walk[next] IN
       IF Matches(f) = {} THEN UNCHANGED mapping
       ELSE \E a \in Matches(f) :
              mapping' = [b \in DOMAIN mapping \cup {a} |->
                             IF b = a THEN f ELSE mapping[b]]
    /\ Advance("commit")
    /\ todo' = DOMAIN mapping'
    /\ UNCHANGED <<rows, done, disk, groups, seen, failed, edits>>
    /\ NoFault

\* A row of the relative path already has an id of the rewritten rows.
Collides(a) ==
    \E c \in rows[a], d \in rows[mapping[a]] : NameOf[c] = NameOf[d]

\* commit_rewritten_path: UPDATE units, unit_embeddings and relations.
Commit(a) ==
    /\ pc = "commit" /\ a \in todo
    /\ ~Collides(a)
    /\ rows' = [rows EXCEPT ![a] = {}, ![mapping[a]] = @ \cup rows[a]]
    /\ todo' = todo \ {a}
    /\ UNCHANGED <<done, disk, pc, next, groups, seen, mapping, failed, edits>>
    /\ NoFault

\* commit_rewritten_path rolls back: a duplicate key, or any other error.
CommitFails(a) ==
    /\ pc = "commit" /\ a \in todo
    /\ IF Collides(a) THEN NoFault ELSE Fault
    /\ failed' = failed \cup {a} /\ todo' = todo \ {a}
    /\ UNCHANGED <<rows, done, disk, pc, next, groups, seen, mapping, edits>>

Committed ==
    /\ pc = "commit" /\ todo = {}
    /\ pc' = IF Orphans = {} THEN "mark" ELSE "orphans"
    /\ UNCHANGED <<rows, done, disk, run, edits>> /\ NoFault

\* delete_absolute_paths, one transaction; run_sync goes on when it raises.
DeleteOrphans ==
    /\ pc = "orphans"
    /\ \/ /\ rows' = [p \in Abs \cup Rel |->
                         IF p \in Orphans THEN {} ELSE rows[p]]
          /\ pc' = "mark" /\ NoFault
       \/ pc' = "sync" /\ Fault /\ UNCHANGED rows
    /\ UNCHANGED <<done, disk, run, edits>>

MarkMigrated ==
    /\ pc = "mark"
    /\ done' = (done \/ ~Incomplete)
    /\ pc' = "sync"
    /\ UNCHANGED <<rows, disk, run, edits>> /\ NoFault

\* sync_file for a file of the sync that follows (IndexSync has its steps):
\* its rows become what is on disk; a path that does not parse loses its
\* rows, or fails when its grammar is missing.
SyncFile(f) ==
    /\ pc = "sync"
    /\ disk[f] # Gone
    /\ \/ rows' = [rows EXCEPT ![f] = disk[f]] /\ NoFault
       \/ rows' = [rows EXCEPT ![f] = {}] /\ Fault
    /\ UNCHANGED <<done, disk, pc, run, edits>>

Next ==
    \/ \E f \in Files, c \in Contents \cup {Gone} : Edit(f, c)
    \/ Start \/ Stop \/ ListGroups \/ Parse \/ ClaimDirect \/ ClaimFile
    \/ \E a \in Abs : Commit(a) \/ CommitFails(a)
    \/ Committed \/ DeleteOrphans \/ MarkMigrated
    \/ \E f \in Files : SyncFile(f)

Spec == Init /\ [][Next]_vars
-----------------------------------------------------------------------------
(***************************************************************************)
(* Properties.                                                             *)
(***************************************************************************)
\* The index maps every stored path to bodies of distinct names (the primary
\* key), the claims map absolute paths of the run to relative ones.
TypeOK ==
    /\ rows \in [Abs \cup Rel -> Distinct]
    /\ done \in BOOLEAN /\ faulted \in BOOLEAN
    /\ disk \in [Files -> Contents \cup {Gone}]
    /\ seen \in [Files -> Contents \cup {Gone, Unread}]
    /\ pc \in Steps /\ next \in 1..Len(Walk)
    /\ groups \in SUBSET Abs
    /\ DOMAIN mapping \subseteq groups /\ Images \subseteq Rel
    /\ todo \subseteq DOMAIN mapping /\ failed \subseteq DOMAIN mapping
    /\ edits \in 0..MaxEdits /\ faults \in 0..MaxFaults

\* Once index_meta carries the done mark no absolute path is left behind,
\* whatever failed, stopped or was edited in the runs before: nothing would
\* ever look at it again.
DoneMeansRelative == done => \A a \in Abs : rows[a] = {}

\* No two absolute paths are rewritten onto one relative path by one run:
\* the second would fail on the first one's rows in every run after.
ClaimsAreOneToOne == IsInjective(mapping)

\* What an older index paid for is not thrown away: an absolute path from
\* outside the root is removed as an orphan only if no project file of its
\* suffix that was left without a claim still holds its code, or was
\* unreadable when the run looked.
UnchangedIsKept ==
    [][\A a \in Abs, f \in Files :
         /\ pc = "orphans" /\ rows[a] # {} /\ rows'[a] = {}
         /\ Under[a] = Outside
         /\ f \notin Images /\ Suffix[f] = Suffix[a]
         => seen[f] \notin {Unread, rows[a]}]_vars

\* path_migration.py calls itself a "One-time rewrite": a run in which every
\* file parsed and the database raised no error of its own finishes the
\* migration, also after a run that stopped between its rewrites and the
\* removal of the orphans.
CleanRunFinishes == (pc = "mark" /\ ~faulted) => ~Incomplete
=============================================================================
