------------------------------- MODULE ApiWalk -------------------------------
(***************************************************************************)
(* The walk that reports the API of a library (discovery/providers,        *)
(* javascript.py and rust.py): from the entry points it follows exports,   *)
(* or submodules, from file to file.  The calls of _recursive_extract nest *)
(* like the frames of a stack and share one set of visited paths.          *)
(*                                                                         *)
(* The walk knows paths, not files.  The JavaScript provider takes an      *)
(* entry point as it finds it under node_modules and resolves symbolic     *)
(* links in what it follows; the Rust provider resolves nothing.  So in a  *)
(* package that is a symbolic link, as npm link, pnpm and workspaces make  *)
(* them, one file is two paths: the entry point, and what a cycle back to  *)
(* it leads to.  Both are parsed, and its units are reported twice.        *)
(*                                                                         *)
(* The library is any graph of paths: what the file read under each one    *)
(* exports from or declares as a submodule, in the order of the paths'     *)
(* numbers.  Two paths may be of one file.                                 *)
(***************************************************************************)
EXTENDS Naturals, Sequences, FiniteSets

CONSTANTS
    NPaths,       \* paths of the library's files, as the walk meets them
    EntryPoints,  \* the sequences of paths _get_target_files may return
    MaxDepth,     \* max_depth: 3 in the code
    MaxFailures   \* bound on the paths at which something fails

Paths == 1..NPaths

ASSUME WalkAssumption ==
    /\ NPaths \in Nat /\ MaxDepth \in Nat /\ MaxFailures \in Nat
    /\ EntryPoints \subseteq Seq(Paths)

VARIABLES
    links,      \* the paths that the units of the file at a path lead to
    entries,    \* target_files
    started,    \* how many of them have been started
    stack,      \* calls in progress: their path and the links still to follow
    visited,    \* the set all calls share
    results,    \* the paths whose units are in the report, in their order
    depthOf,    \* history: the depth at which a path was visited
    cut         \* history: paths with an exception, whose links are not all followed

library == <<links, entries>>
vars == <<library, started, stack, visited, results, depthOf, cut>>

Init ==
    /\ links \in [Paths -> SUBSET Paths]
    /\ entries \in EntryPoints
    /\ started = 0 /\ stack = <<>> /\ visited = {} /\ results = <<>>
    /\ depthOf = [f \in Paths |-> 0]
    /\ cut = {}
-----------------------------------------------------------------------------
Running   == stack # <<>>
Top       == stack[Len(stack)]
Returned  == SubSeq(stack, 1, Len(stack) - 1)
Frame(p, rest) == [path |-> p, rest |-> rest]

First(s) == CHOOSE f \in s : \A g \in s : f <= g

TooDeep(depth) == depth > MaxDepth

\* Faulty variant of Enter: a path is marked when its call returns.
EnterUnmarked(f, depth, callers) ==
    \E parsed \in BOOLEAN :
        /\ ~parsed => Cardinality(cut) < MaxFailures
        /\ stack' = Append(callers, Frame(f, IF parsed THEN links[f] ELSE {}))
        /\ results' = IF parsed THEN Append(results, f) ELSE results
        /\ cut' = IF parsed THEN cut ELSE cut \cup {f}
        /\ depthOf' = [depthOf EXCEPT ![f] = depth]
        /\ UNCHANGED visited

\* _recursive_extract of a path it has not seen: mark it, parse its file, keep
\* the units.  A failure yields no units and no links.
Enter(f, depth, callers) ==
    \E parsed \in BOOLEAN :
        /\ ~parsed => Cardinality(cut) < MaxFailures
        /\ visited' = visited \cup {f}
        /\ stack' = Append(callers, Frame(f, IF parsed THEN links[f] ELSE {}))
        /\ results' = IF parsed THEN Append(results, f) ELSE results
        /\ cut' = IF parsed THEN cut ELSE cut \cup {f}
        /\ depthOf' = [depthOf EXCEPT ![f] = depth]

\* _recursive_extract up to its early return.
Call(f, depth, callers) ==
    IF TooDeep(depth) \/ f \in visited
    THEN stack' = callers /\ UNCHANGED <<visited, results, depthOf, cut>>
    ELSE Enter(f, depth, callers)

\* extract_api starts with the next entry point.
Start ==
    /\ ~Running /\ started < Len(entries)
    /\ started' = started + 1
    /\ Call(entries[started + 1], 0, <<>>)
    /\ UNCHANGED library

\* Faulty variant of Follow: the first link is followed, the others are not.
FollowFirst ==
    /\ Running /\ Top.rest # {}
    /\ Call(First(Top.rest), Len(stack), Append(Returned, Frame(Top.path, {})))
    /\ UNCHANGED <<library, started>>

\* _follow_exports, _parse_submodule: the next unit that leads to a file.
Follow ==
    /\ Running /\ Top.rest # {}
    /\ LET f == First(Top.rest)
       IN  Call(f, Len(stack), Append(Returned, Frame(Top.path, Top.rest \ {f})))
    /\ UNCHANGED <<library, started>>

\* An exception while a link is resolved ends the file's loop; the except
\* clause of its own call logs it, and the caller goes on.
FollowFails ==
    /\ Running /\ Top.rest # {}
    /\ Cardinality(cut) < MaxFailures
    /\ stack' = Returned
    /\ cut' = cut \cup {Top.path}
    /\ UNCHANGED <<library, started, visited, results, depthOf>>

Return ==
    /\ Running /\ Top.rest = {}
    /\ stack' = Returned
    /\ UNCHANGED <<library, started, visited, results, depthOf, cut>>

\* All entry points are done: extract_api writes its report.
Done == ~Running /\ started = Len(entries)

Report == Done /\ UNCHANGED vars

Next == Start \/ Follow \/ FollowFails \/ Return \/ Report

Spec == Init /\ [][Next]_vars
-----------------------------------------------------------------------------
(***************************************************************************)
(* Properties.                                                             *)
(***************************************************************************)
\* Every call in progress and every result is of a visited path, a call has
\* only links of its own file left, and whatever cycles and diamonds there are
\* among the exports, nothing is reported twice under one path.
TypeOK ==
    /\ entries \in Seq(Paths) /\ started \in 0..Len(entries)
    /\ visited \subseteq Paths /\ cut \subseteq visited
    /\ depthOf \in [Paths -> Nat]
    /\ \A i, j \in 1..Len(results) :
        results[i] \in visited /\ (results[i] = results[j] => i = j)
    /\ \A i \in 1..Len(stack) :
        /\ stack[i].path \in visited
        /\ stack[i].rest \subseteq links[stack[i].path]

\* A way along links from an entry point, over paths where nothing failed.
Way(p) ==
    /\ \E i \in 1..Len(entries) : entries[i] = p[1]
    /\ \A i \in 1..(Len(p) - 1) : p[i] \notin cut /\ p[i + 1] \in links[p[i]]

\* What the report is complete for.  A path within MaxDepth links is missing
\* for one reason only: on every way to it there is a path that the walk met
\* first by a detour, at the last depth, and that was marked as visited there,
\* so that coming to it again by the shorter way went no further.
MissingOnlyByDetour ==
    Done => \A n \in 1..(MaxDepth + 1) : \A p \in [1..n -> Paths] :
        Way(p) /\ p[n] \notin visited =>
            \E i \in 1..(n - 1) : p[i] \in visited /\ depthOf[p[i]] = MaxDepth
=============================================================================
