---------------------------- MODULE Dependencies ----------------------------
(***************************************************************************)
(* The dependency sync of agent-coderag (services/dependencies.py): a sync *)
(* of a Java project starts Maven or Gradle, waits for it with a timeout   *)
(* and caches the path of every jar it resolved, from which the api report *)
(* of a Java library is made.                                              *)
(*                                                                         *)
(* The build is a process of its own.  wait_for does not end it, and what  *)
(* passes between the two lies in the project: the classpath file Maven    *)
(* writes, the script Gradle is started with.  The syncs of one index file *)
(* exclude each other (IndexAccess), those of two index files do not.      *)
(***************************************************************************)
EXTENDS Naturals, Sequences, FiniteSets

CONSTANTS
    Runs,       \* calls of sync_dependencies, in the order they are made
    Indexes,    \* index files of the project
    IndexOf,    \* the index each call is about
    Libs,       \* names of libraries, as _cache_jar_path makes them
    Odd,        \* libraries whose jar name makes it raise: it ends in a dash
    Classpath,  \* what the build resolves for each version of the build file
    Tools       \* "maven": there is a pom.xml; "gradle": only build.gradle

Versions == 1..Len(Classpath)

ASSUME BuildAssumption ==
    /\ Runs \subseteq Nat \ {0} /\ IsFiniteSet(Runs)
    /\ IndexOf \in [Runs -> Indexes]
    /\ Odd \subseteq Libs
    /\ Classpath \in Seq(Seq(Libs)) /\ Classpath # <<>>
    /\ Tools \subseteq {"maven", "gradle"}

VARIABLES
    \* the project
    tool,       \* which build file it has
    pom,        \* its version
    cpBy,       \* .coderag_cp.txt: the run whose build wrote it, 0 if absent
    cpWhole,    \* and whether it is all of the classpath
    script,     \* .coderag_init.gradle exists
    \* the calls and their builds
    pc,
    build,      \* the state of the build process
    ver,        \* the version it resolves
    todo,       \* the jars still to be cached, each <<library, version>>
    result,     \* how the call ended
    \* durable: table dependencies
    cache,      \* the version of each library's jar, 0 if none
    \* history
    alone,      \* no other build, no other call met this one
    last        \* the last call on each index

project == <<tool, pom>>
shared  == <<cpBy, cpWhole, script>>
vars == <<project, shared, pc, build, ver, todo, result, cache, alone, last>>

Active(r) == pc[r] \notin {"idle", "done"}
Alive(r)  == build[r] \in {"started", "writing"}

Init ==
    /\ tool \in Tools /\ pom = 1
    /\ cpBy = 0 /\ cpWhole = FALSE /\ script = FALSE
    /\ pc = [r \in Runs |-> "idle"] /\ build = [r \in Runs |-> "none"]
    /\ ver = [r \in Runs |-> 1] /\ todo = [r \in Runs |-> <<>>]
    /\ result = [r \in Runs |-> "none"]
    /\ cache = [i \in Indexes |-> [l \in Libs |-> 0]]
    /\ alone = [r \in Runs |-> TRUE] /\ last = [i \in Indexes |-> 0]
-----------------------------------------------------------------------------
Jars(v) == [i \in 1..Len(Classpath[v]) |-> <<Classpath[v][i], v>>]

Goto(r, step) == pc' = [pc EXCEPT ![r] = step]

\* The build is over for this call: Maven's branch returns, Gradle's goes to
\* its finally clause.
Finish(r, how) ==
    /\ result' = [result EXCEPT ![r] = how]
    /\ todo' = [todo EXCEPT ![r] = <<>>]
    /\ Goto(r, IF tool = "gradle" THEN "cleanup" ELSE "done")

\* The user edits the build file.
Edit ==
    /\ pom < Len(Classpath)
    /\ pom' = pom + 1
    /\ UNCHANGED <<tool, shared, pc, build, ver, todo, result, cache, alone, last>>

\* sync_dependencies is called.  Of the calls on one index, one runs at a time.
Call(r) ==
    LET others == {q \in Runs \ {r} : Active(q) \/ Alive(q)} IN
    /\ pc[r] = "idle" /\ \A q \in Runs : q < r => pc[q] # "idle"
    /\ \A q \in others : IndexOf[q] = IndexOf[r] => ~Active(q)
    /\ alone' = [q \in Runs |-> alone[q] /\ ~(q \in others \/ (q = r /\ others # {}))]
    /\ last' = [last EXCEPT ![IndexOf[r]] = r]

\* Builds may be executed: Gradle's script is written, the tool is started.
Start(r) ==
    /\ Call(r)
    /\ script' = (script \/ tool = "gradle")
    /\ build' = [build EXCEPT ![r] = "started"]
    /\ Goto(r, "wait")
    /\ UNCHANGED <<project, cpBy, cpWhole, ver, todo, result, cache>>

\* The script cannot be opened or written to its end, or the tool cannot be
\* started: inside the try.
StartFails(r) ==
    /\ Call(r)
    /\ \E opened \in BOOLEAN : script' = (script \/ (opened /\ tool = "gradle"))
    /\ Finish(r, "failed")
    /\ UNCHANGED <<project, cpBy, cpWhole, build, ver, cache>>

\* The error leaves the call, and with it the sync.
Refuse(r) ==
    /\ result' = [result EXCEPT ![r] = "refused"]
    /\ Goto(r, "done")

\* The look for build files, or validate_path, raises: outside the try.
ProjectRefused(r) ==
    /\ Call(r) /\ Refuse(r)
    /\ UNCHANGED <<project, shared, build, ver, todo, cache>>

-----------------------------------------------------------------------------
(***************************************************************************)
(* The build processes, with or without somebody waiting for them.         *)
(***************************************************************************)
\* The build resolves the dependencies; Maven opens the file it was given,
\* Gradle has read its script.
Resolve(r) ==
    /\ build[r] = "started"
    /\ tool = "gradle" => script
    /\ ver' = [ver EXCEPT ![r] = pom]
    /\ build' = [build EXCEPT ![r] = "writing"]
    /\ IF tool = "maven" THEN cpBy' = r /\ cpWhole' = FALSE
                         ELSE UNCHANGED <<cpBy, cpWhole>>
    /\ UNCHANGED <<project, script, pc, todo, result, cache, alone, last>>

\* It writes all of the classpath and exits with 0.  What another build has
\* opened since is left with a part of each; what was unlinked stays away.
Succeed(r) ==
    /\ build[r] = "writing"
    /\ build' = [build EXCEPT ![r] = "ok"]
    /\ cpWhole' = IF tool = "maven" THEN cpBy = r ELSE cpWhole
    /\ UNCHANGED <<project, cpBy, script, pc, ver, todo, result, cache, alone, last>>

\* It fails or is killed, before or while it writes.
Break(r) ==
    /\ Alive(r)
    /\ build' = [build EXCEPT ![r] = "failed"]
    /\ UNCHANGED <<project, shared, pc, ver, todo, result, cache, alone, last>>

-----------------------------------------------------------------------------
(***************************************************************************)
(* The call.                                                               *)
(***************************************************************************)
\* Faulty variant of Timeout: wait_for without a timeout.
TimeoutNever(r) == FALSE /\ UNCHANGED vars

\* Faulty variant of Timeout: what the build has written is used.
TimeoutReads(r) ==
    /\ pc[r] = "wait" /\ Alive(r)
    /\ IF tool = "maven" THEN Goto(r, "read") /\ UNCHANGED <<todo, result>>
                         ELSE Finish(r, "failed")
    /\ UNCHANGED <<project, shared, build, ver, cache, alone, last>>

\* wait_for raises after its minute or two; nobody ends the process.
Timeout(r) ==
    /\ pc[r] = "wait" /\ Alive(r)
    /\ Finish(r, "failed")
    /\ UNCHANGED <<project, shared, build, ver, cache, alone, last>>

\* Faulty variant of Exited: the exit status is not looked at.
ExitedUnchecked(r) ==
    /\ pc[r] = "wait" /\ build[r] \in {"ok", "failed"}
    /\ IF tool = "gradle"
       THEN todo' = [todo EXCEPT ![r] = Jars(ver[r])] /\ Goto(r, "cache")
       ELSE Goto(r, "read") /\ UNCHANGED todo
    /\ UNCHANGED <<project, shared, build, ver, result, cache, alone, last>>

\* communicate() returns.  Gradle's classpath is in the output it read.
Exited(r) ==
    /\ pc[r] = "wait" /\ build[r] \in {"ok", "failed"}
    /\ IF build[r] = "failed" THEN Finish(r, "failed")
       ELSE IF tool = "gradle"
       THEN /\ todo' = [todo EXCEPT ![r] = Jars(ver[r])]
            /\ Goto(r, "cache") /\ UNCHANGED result
       ELSE Goto(r, "read") /\ UNCHANGED <<todo, result>>
    /\ UNCHANGED <<project, shared, build, ver, cache, alone, last>>

\* The classpath file is read as it is then: of a torn one, some jars.
ReadFile(r) ==
    /\ pc[r] = "read"
    /\ IF cpBy = 0 THEN Finish(r, "failed")
       ELSE \E jars \in {SubSeq(Jars(ver[cpBy]), 1, n) : n \in 0..Len(Jars(ver[cpBy]))} :
            /\ cpWhole => jars = Jars(ver[cpBy])
            /\ todo' = [todo EXCEPT ![r] = jars]
            /\ Goto(r, "unlink") /\ UNCHANGED result
    /\ UNCHANGED <<project, shared, build, ver, cache, alone, last>>

\* cp_file.unlink(): another call may have been faster.
Unlink(r) ==
    /\ pc[r] = "unlink"
    /\ IF cpBy = 0 THEN Finish(r, "failed")
       ELSE Goto(r, "cache") /\ UNCHANGED <<todo, result>>
    /\ cpBy' = 0 /\ cpWhole' = FALSE
    /\ UNCHANGED <<project, script, build, ver, cache, alone, last>>

\* What the build wrote cannot be read or decoded, or its file not be removed.
FileFails(r) ==
    /\ pc[r] \in {"read", "unlink"} \/ (pc[r] = "wait" /\ build[r] = "ok")
    /\ Finish(r, "failed")
    /\ UNCHANGED <<project, shared, build, ver, cache, alone, last>>

\* Faulty variant of CacheJar: the caching stands outside the try.
CacheJarRaises(r) ==
    /\ pc[r] = "cache" /\ todo[r] # <<>>
    /\ LET lib == Head(todo[r])[1] IN
       IF lib \in Odd THEN Finish(r, "raised") /\ UNCHANGED cache
       ELSE /\ cache' = [cache EXCEPT ![IndexOf[r]][lib] = Head(todo[r])[2]]
            /\ todo' = [todo EXCEPT ![r] = Tail(@)]
            /\ UNCHANGED <<pc, result>>
    /\ UNCHANGED <<project, shared, build, ver, alone, last>>

\* _cache_jar_path of the next jar: an IndexError for an odd name.
CacheJar(r) ==
    /\ pc[r] = "cache" /\ todo[r] # <<>>
    /\ LET lib == Head(todo[r])[1] IN
       IF lib \in Odd THEN Finish(r, "failed") /\ UNCHANGED cache
       ELSE /\ cache' = [cache EXCEPT ![IndexOf[r]][lib] = Head(todo[r])[2]]
            /\ todo' = [todo EXCEPT ![r] = Tail(@)]
            /\ UNCHANGED <<pc, result>>
    /\ UNCHANGED <<project, shared, build, ver, alone, last>>

\* Faulty variant of CacheFails: a jar that cannot be stored is passed over.
CacheFailsQuietly(r) ==
    /\ pc[r] = "cache" /\ todo[r] # <<>>
    /\ todo' = [todo EXCEPT ![r] = Tail(@)]
    /\ UNCHANGED <<project, shared, pc, build, ver, result, cache, alone, last>>

\* set_dependency_path raises: the jars before it stay, the others are left.
CacheFails(r) ==
    /\ pc[r] = "cache" /\ todo[r] # <<>>
    /\ Finish(r, "failed")
    /\ UNCHANGED <<project, shared, build, ver, cache, alone, last>>

Cached(r) ==
    /\ pc[r] = "cache" /\ todo[r] = <<>>
    /\ Finish(r, "cached")
    /\ UNCHANGED <<project, shared, build, ver, cache, alone, last>>

\* Gradle's finally clause: init_script.exists().
Cleanup(r) ==
    /\ pc[r] = "cleanup"
    /\ Goto(r, IF script THEN "remove" ELSE "done")
    /\ UNCHANGED <<project, shared, build, ver, todo, result, cache, alone, last>>

\* init_script.unlink(): outside the try, so that its error ends the sync, the
\* one of a script that is gone since exists()
RemoveScript(r) ==
    /\ pc[r] = "remove"
    /\ result' = IF script THEN result ELSE [result EXCEPT ![r] = "raised"]
    /\ script' = FALSE
    /\ Goto(r, "done")
    /\ UNCHANGED <<project, cpBy, cpWhole, build, ver, todo, cache, alone, last>>

\* and any other that exists() or unlink() meets: the script stays.
ScriptRefused(r) ==
    /\ pc[r] \in {"cleanup", "remove"}
    /\ Refuse(r)
    /\ UNCHANGED <<project, shared, build, ver, todo, cache, alone, last>>

\* The process of the sync stops; its build may go on.
Stop(r) ==
    /\ Active(r)
    /\ result' = [result EXCEPT ![r] = "stopped"]
    /\ todo' = [todo EXCEPT ![r] = <<>>]
    /\ Goto(r, "done")
    /\ UNCHANGED <<project, shared, build, ver, cache, alone, last>>

Step(r) ==
    \/ Timeout(r) \/ Exited(r) \/ ReadFile(r) \/ Unlink(r) \/ FileFails(r)
    \/ CacheJar(r) \/ CacheFails(r) \/ Cached(r)
    \/ Cleanup(r) \/ RemoveScript(r) \/ ScriptRefused(r)

\* All calls are made and all builds are over.
Rest ==
    /\ \A r \in Runs : pc[r] = "done" /\ ~Alive(r)
    /\ UNCHANGED vars

Next ==
    \/ Edit \/ Rest
    \/ \E r \in Runs :
        \/ Start(r) \/ StartFails(r) \/ ProjectRefused(r)
        \/ Step(r) \/ Stop(r)
        \/ Resolve(r) \/ Succeed(r) \/ Break(r)

\* The event loop goes on with a call, and its timers expire; of a build
\* nothing is assumed.
Spec == Init /\ [][Next]_vars /\ \A r \in Runs : WF_vars(Step(r))
-----------------------------------------------------------------------------
(***************************************************************************)
(* Properties.                                                             *)
(***************************************************************************)
\* Every variable holds a value of its kind; only a call whose own build has
\* succeeded has jars in hand.
TypeOK ==
    /\ tool \in Tools /\ pom \in Versions
    /\ cpBy \in Runs \cup {0} /\ cpWhole \in BOOLEAN /\ script \in BOOLEAN
    /\ pc \in [Runs -> {"idle", "wait", "read", "unlink", "cache", "cleanup",
                        "remove", "done"}]
    /\ build \in [Runs -> {"none", "started", "writing", "ok", "failed"}]
    /\ ver \in [Runs -> Versions]
    /\ todo \in [Runs -> Seq(Libs \X Versions)]
    /\ \A r \in Runs : todo[r] # <<>> => pc[r] \in {"unlink", "cache"} /\ build[r] = "ok"
    /\ result \in [Runs -> {"none", "failed", "cached", "raised", "refused", "stopped"}]
    /\ cache \in [Indexes -> [Libs -> Versions \cup {0}]]
    /\ alone \in [Runs -> BOOLEAN] /\ last \in [Indexes -> Runs \cup {0}]

IsSuffix(s, t) == \E n \in 0..Len(t) : s = SubSeq(t, n + 1, Len(t))

\* What a call caches is what its own build has resolved, all of it and in
\* its order, although the file between them may be left over from a call
\* before.  Only a build that outlived its call, or a sync of the same project
\* into another index, can put something else there.
CachesItsOwnBuild ==
    \A r \in Runs :
        pc[r] = "cache" /\ alone[r] => IsSuffix(todo[r], Jars(ver[r]))

\* After a call that logs "dependencies cached" the index has the jars of that
\* build for all of its libraries.  The jars of two builds are mixed only by
\* a call that failed or stopped, or that was not alone.
CachedIsComplete ==
    \A i \in Indexes : \A r \in Runs :
        last[i] = r /\ result[r] = "cached" /\ alone[r] =>
            \A n \in 1..Len(Classpath[ver[r]]) : cache[i][Classpath[ver[r]][n]] = ver[r]

\* Whatever a build does and leaves behind, the trouble is logged and does not
\* end the sync.  Two things do: Gradle's script, removed by two syncs of the
\* project at a time, and an operating system that refuses to look at the
\* project before the build, or to look at or remove the script after it.
RaisesOnlyIfShared ==
    \A r \in Runs :
        /\ result[r] = "raised" => tool = "gradle" /\ ~alone[r]
        /\ result[r] = "refused" => tool = "gradle" \/ build[r] = "none"

\* A sync gets past its dependencies, though a build may hang.
SyncGoesOn == \A r \in Runs : Active(r) ~> pc[r] = "done"
=============================================================================
