------------------------ MODULE Dependencies_proofs ------------------------
(***************************************************************************)
(* Proofs about Dependencies, for every number of calls, index files and   *)
(* versions of the build file, and whatever the builds resolve.            *)
(***************************************************************************)
EXTENDS Dependencies, SequenceTheorems, TLAPS

(***************************************************************************)
(* The inductive invariant.  A call that is alone has the files in the     *)
(* project for itself, from its start to its end; so its build's file and  *)
(* its script are what it finds, and what it caches nobody overwrites.     *)
(***************************************************************************)
\* Which steps belong to which tool, and what the build has done by then.
Shape ==
    \A r \in Runs :
        /\ pc[r] \in {"read", "unlink"} => tool = "maven"
        /\ pc[r] \in {"cleanup", "remove"} => tool = "gradle"
        /\ pc[r] \in {"read", "unlink", "cache"} => build[r] = "ok"
        /\ pc[r] \in {"idle", "wait", "read", "unlink", "cache"} => result[r] = "none"
        /\ result[r] = "cached" => build[r] = "ok"
        /\ pc[r] = "idle" => build[r] = "none"

\* A call is made.
Begins(r) == Start(r) \/ StartFails(r) \/ ProjectRefused(r)

\* While a call that is alone is in progress there is no other call and no
\* other build.
Sole ==
    \A r \in Runs : Active(r) /\ alone[r] =>
        \A q \in Runs \ {r} : ~Active(q) /\ ~Alive(q)

\* The classpath file is that of the own build, and whole when it is read.
FileOf(r) ==
    /\ (pc[r] = "wait" /\ build[r] = "writing") => cpBy = r
    /\ ((pc[r] = "wait" /\ build[r] = "ok") \/ pc[r] = "read") => cpBy = r /\ cpWhole
    /\ pc[r] = "unlink" => cpBy = r

OwnFile == \A r \in Runs : tool = "maven" /\ alone[r] => FileOf(r)

\* Gradle's script stays where it is within the own finally clause.
OwnScript == \A r \in Runs : alone[r] /\ pc[r] = "remove" => script

\* The last call on an index is the only one that can be in progress.
Latest ==
    /\ \A r \in Runs : Active(r) => last[IndexOf[r]] = r
    /\ \A i \in Indexes : last[i] # 0 => IndexOf[last[i]] = i

\* The first n jars of the own build are in the table, the rest is in hand.
CachedTo(r, n) ==
    /\ todo[r] = SubSeq(Jars(ver[r]), n + 1, Len(Jars(ver[r])))
    /\ \A k \in 1..n : cache[IndexOf[r]][Classpath[ver[r]][k]] = ver[r]

JarsOf(r) ==
    /\ pc[r] = "unlink" => todo[r] = Jars(ver[r])
    /\ pc[r] = "cache" => \E n \in 0..Len(Jars(ver[r])) : CachedTo(r, n)

OwnJars == \A r \in Runs : alone[r] => JarsOf(r)

DInv ==
    /\ TypeOK
    /\ Shape
    /\ Sole
    /\ OwnFile
    /\ OwnScript
    /\ Latest
    /\ OwnJars
    /\ CachedIsComplete
    /\ RaisesOnlyIfShared
-----------------------------------------------------------------------------
(***************************************************************************)
(* Jars.                                                                   *)
(***************************************************************************)
\* What _cache_jar_path is called with is a sequence of libraries, each in
\* the version of the build.
LEMMA JarsType ==
  ASSUME NEW v \in Versions
  PROVE  /\ Classpath[v] \in Seq(Libs)
         /\ Jars(v) \in Seq(Libs \X Versions)
         /\ Len(Jars(v)) = Len(Classpath[v])
         /\ \A i \in 1..Len(Jars(v)) : Jars(v)[i] = <<Classpath[v][i], v>>
<1>1. Classpath[v] \in Seq(Libs)
  BY BuildAssumption DEF Versions
<1>2. \A i \in 1..Len(Classpath[v]) : Classpath[v][i] \in Libs
  BY <1>1
<1> QED
  BY <1>1, <1>2 DEF Jars

\* A part of them has the same type.
LEMMA PartType ==
  ASSUME NEW v \in Versions, NEW m \in 1..(Len(Jars(v)) + 1), NEW n \in 0..Len(Jars(v))
  PROVE  SubSeq(Jars(v), m, n) \in Seq(Libs \X Versions)
<1>1. \A i \in m..n : Jars(v)[i] \in Libs \X Versions
  BY JarsType
<1> QED
  BY <1>1, JarsType, SubSeqProperties

-----------------------------------------------------------------------------
(***************************************************************************)
(* Type correctness.                                                       *)
(***************************************************************************)
\* The build file has a first version.
LEMMA FirstVersion == 1 \in Versions
<1>1. Len(Classpath) \in Nat \ {0}
  BY BuildAssumption, EmptySeq
<1> QED
  BY <1>1 DEF Versions

\* Before the first call everything has its type.
LEMMA InitType == Init => TypeOK
<1> SUFFICES ASSUME Init PROVE TypeOK
  OBVIOUS
<1>1. tool \in Tools /\ pom \in Versions /\ ver \in [Runs -> Versions]
  BY FirstVersion DEF Init
<1>2. /\ pc = [r \in Runs |-> "idle"] /\ build = [r \in Runs |-> "none"]
      /\ result = [r \in Runs |-> "none"] /\ alone \in [Runs -> BOOLEAN]
  BY DEF Init
<1>3. todo = [r \in Runs |-> <<>>] /\ todo \in [Runs -> Seq(Libs \X Versions)]
  BY DEF Init
<1>4. /\ cpBy = 0 /\ cpWhole = FALSE /\ script = FALSE
      /\ cache \in [Indexes -> [Libs -> Versions \cup {0}]]
      /\ last \in [Indexes -> Runs \cup {0}]
  BY DEF Init
<1> QED
  BY <1>1, <1>2, <1>3, <1>4 DEF TypeOK

\* The end of the wait keeps the types of what it assigns.
LEMMA FinishType ==
  ASSUME TypeOK, NEW r \in Runs, NEW how \in {"failed", "cached", "raised"}, Finish(r, how)
  PROVE  /\ pc' \in [Runs -> {"idle", "wait", "read", "unlink", "cache", "cleanup",
                              "remove", "done"}]
         /\ todo' \in [Runs -> Seq(Libs \X Versions)]
         /\ result' \in [Runs -> {"none", "failed", "cached", "raised", "refused", "stopped"}]
         /\ \A q \in Runs : todo'[q] # <<>> => pc'[q] \in {"unlink", "cache"} /\ build[q] = "ok"
<1>1. todo' = [todo EXCEPT ![r] = <<>>] /\ <<>> \in Seq(Libs \X Versions)
  BY DEF Finish
<1>2. /\ result' = [result EXCEPT ![r] = how]
      /\ pc' = [pc EXCEPT ![r] = IF tool = "gradle" THEN "cleanup" ELSE "done"]
  BY DEF Finish, Goto
<1> QED
  BY <1>1, <1>2 DEF TypeOK

\* Every step of a call, of a build and of the user keeps the types.
LEMMA TypeStep == TypeOK /\ Shape /\ [Next]_vars => TypeOK'
<1> SUFFICES ASSUME TypeOK, Shape, [Next]_vars PROVE TypeOK'
  OBVIOUS
<1> USE DEF TypeOK, project, shared, Goto
<1>1. ASSUME Edit PROVE TypeOK'
  BY <1>1, BuildAssumption DEF Edit, Versions
<1>2. ASSUME NEW r \in Runs, Begins(r) PROVE TypeOK'
  <2>1. last' \in [Indexes -> Runs \cup {0}] /\ alone' \in [Runs -> BOOLEAN]
    <3>1. Call(r)
      BY <1>2 DEF Begins, Start, StartFails, ProjectRefused
    <3> QED
      BY <3>1, BuildAssumption DEF Call
  <2>3. todo[r] = <<>> /\ pc[r] = "idle"
    BY <1>2 DEF Begins, Start, StartFails, ProjectRefused, Call
  <2>4. CASE Start(r)
    <3>1. /\ pc' \in [Runs -> {"idle", "wait", "read", "unlink", "cache", "cleanup",
                             "remove", "done"}]
        /\ build' \in [Runs -> {"none", "started", "writing", "ok", "failed"}]
        /\ script' \in BOOLEAN
      BY <2>4 DEF Start
    <3> QED
      BY <2>1, <2>3, <2>4, <3>1 DEF Start
  <2>5. CASE StartFails(r)
    <3>1. script' \in BOOLEAN
      BY <2>5 DEF StartFails
    <3> QED
      BY <2>1, <2>5, <3>1, FinishType DEF StartFails
  <2>6. CASE ProjectRefused(r)
    BY <2>1, <2>3, <2>6 DEF ProjectRefused, Refuse
  <2> QED
    BY <1>2, <2>4, <2>5, <2>6 DEF Begins
<1>3. ASSUME NEW r \in Runs, Resolve(r) PROVE TypeOK'
  BY <1>3 DEF Resolve
<1>4. ASSUME NEW r \in Runs, Succeed(r) PROVE TypeOK'
  BY <1>4 DEF Succeed
<1>5. ASSUME NEW r \in Runs, Break(r) PROVE TypeOK'
  BY <1>5 DEF Break, Alive
<1>6. ASSUME NEW r \in Runs, Timeout(r) PROVE TypeOK'
  BY <1>6, FinishType DEF Timeout
<1>7. ASSUME NEW r \in Runs, Exited(r) PROVE TypeOK'
  <2>1. CASE build[r] = "failed"
    BY <1>7, <2>1, FinishType DEF Exited
  <2>2. CASE build[r] = "ok" /\ tool = "gradle"
    <3>1. /\ todo' = [todo EXCEPT ![r] = Jars(ver[r])]
          /\ Jars(ver[r]) \in Seq(Libs \X Versions)
      BY <1>7, <2>2, JarsType DEF Exited
    <3> QED
      BY <1>7, <2>2, <3>1 DEF Exited
  <2>3. CASE build[r] = "ok" /\ tool # "gradle"
    BY <1>7, <2>3 DEF Exited
  <2> QED
    BY <1>7, <2>1, <2>2, <2>3 DEF Exited
<1>8. ASSUME NEW r \in Runs, ReadFile(r) PROVE TypeOK'
  <2>1. CASE cpBy = 0
    BY <1>8, <2>1, FinishType DEF ReadFile
  <2>2. CASE cpBy # 0
    <3>1. ver[cpBy] \in Versions
      BY <2>2
    <3>2. PICK n \in 0..Len(Jars(ver[cpBy])) :
            todo' = [todo EXCEPT ![r] = SubSeq(Jars(ver[cpBy]), 1, n)]
      <4>1. PICK jars \in {SubSeq(Jars(ver[cpBy]), 1, n) : n \in 0..Len(Jars(ver[cpBy]))} :
              todo' = [todo EXCEPT ![r] = jars]
        BY <1>8, <2>2 DEF ReadFile
      <4> QED
        BY <4>1
    <3>3. 1 \in 1..(Len(Jars(ver[cpBy])) + 1)
      BY <3>1, JarsType
    <3>4. SubSeq(Jars(ver[cpBy]), 1, n) \in Seq(Libs \X Versions)
      BY <3>1, <3>3, PartType
    <3>5. pc' = [pc EXCEPT ![r] = "unlink"] /\ UNCHANGED result /\ build[r] = "ok"
      BY <1>8, <2>2 DEF ReadFile, Shape
    <3> QED
      BY <1>8, <3>2, <3>4, <3>5 DEF ReadFile
  <2> QED
    BY <2>1, <2>2
<1>9. ASSUME NEW r \in Runs, Unlink(r) PROVE TypeOK'
  <2>1. CASE cpBy = 0
    BY <1>9, <2>1, FinishType DEF Unlink
  <2>2. CASE cpBy # 0
    <3>1. /\ pc[r] = "unlink" /\ pc' = [pc EXCEPT ![r] = "cache"]
          /\ cpBy' = 0 /\ cpWhole' = FALSE /\ build[r] = "ok"
          /\ UNCHANGED <<project, script, build, ver, todo, result, cache, alone, last>>
      BY <1>9, <2>2 DEF Unlink, Shape
    <3>2. pc' \in [Runs -> {"idle", "wait", "read", "unlink", "cache", "cleanup",
                            "remove", "done"}]
      BY <3>1
    <3>3. \A q \in Runs : todo'[q] # <<>> => pc'[q] \in {"unlink", "cache"} /\ build'[q] = "ok"
      BY <3>1
    <3> QED
      BY <3>1, <3>2, <3>3
  <2> QED
    BY <2>1, <2>2
<1>10. ASSUME NEW r \in Runs, CacheJar(r) PROVE TypeOK'
  <2> DEFINE jar == Head(todo[r])
  <2>1. jar \in Libs \X Versions /\ Tail(todo[r]) \in Seq(Libs \X Versions)
    BY <1>10, HeadTailProperties DEF CacheJar
  <2>2. CASE jar[1] \in Odd
    BY <1>10, <2>2, FinishType DEF CacheJar
  <2>3. CASE jar[1] \notin Odd
    <3>1. cache' = [cache EXCEPT ![IndexOf[r]][jar[1]] = jar[2]]
      BY <1>10, <2>3 DEF CacheJar
    <3>2. cache' \in [Indexes -> [Libs -> Versions \cup {0}]]
      BY <2>1, <3>1
    <3>3. todo' = [todo EXCEPT ![r] = Tail(todo[r])] /\ UNCHANGED <<pc, result>>
      BY <1>10, <2>3 DEF CacheJar
    <3>4. pc[r] = "cache" /\ build[r] = "ok"
      BY <1>10 DEF CacheJar, Shape
    <3> QED
      BY <1>10, <2>1, <3>2, <3>3, <3>4 DEF CacheJar
  <2> QED
    BY <2>2, <2>3
<1>11. ASSUME NEW r \in Runs, CacheFails(r) PROVE TypeOK'
  BY <1>11, FinishType DEF CacheFails
<1>12. ASSUME NEW r \in Runs, Cached(r) PROVE TypeOK'
  BY <1>12, FinishType DEF Cached
<1>13. ASSUME NEW r \in Runs, Cleanup(r) PROVE TypeOK'
  BY <1>13 DEF Cleanup
<1>14. ASSUME NEW r \in Runs, RemoveScript(r) PROVE TypeOK'
  BY <1>14 DEF RemoveScript
<1>17. ASSUME NEW r \in Runs, FileFails(r) PROVE TypeOK'
  BY <1>17, FinishType DEF FileFails
<1>18. ASSUME NEW r \in Runs, ScriptRefused(r) PROVE TypeOK'
  BY <1>18 DEF ScriptRefused, Refuse
<1>15. ASSUME NEW r \in Runs, Stop(r) PROVE TypeOK'
  <2>1. todo' = [todo EXCEPT ![r] = <<>>] /\ <<>> \in Seq(Libs \X Versions)
    BY <1>15 DEF Stop
  <2> QED
    BY <1>15, <2>1 DEF Stop
<1>16. CASE UNCHANGED vars
  BY <1>16 DEF vars
<1> QED
  BY <1>1, <1>2, <1>3, <1>4, <1>5, <1>6, <1>7, <1>8, <1>9, <1>10, <1>11,
     <1>12, <1>13, <1>14, <1>15, <1>16, <1>17, <1>18 DEF Next, Step, Rest, Begins

-----------------------------------------------------------------------------
(***************************************************************************)
(* The other parts of the invariant.                                       *)
(***************************************************************************)
\* What the end of a build does to its call.
LEMMA ExitedStep ==
  ASSUME TypeOK, NEW r \in Runs, Exited(r)
  PROVE  /\ pc[r] = "wait"
         /\ \A q \in Runs \ {r} : pc'[q] = pc[q] /\ result'[q] = result[q] /\ todo'[q] = todo[q]
         /\ \/ /\ build[r] = "failed" /\ result'[r] = "failed"
               /\ pc'[r] = IF tool = "gradle" THEN "cleanup" ELSE "done"
            \/ /\ build[r] = "ok" /\ result'[r] = result[r]
               /\ \/ tool # "gradle" /\ pc'[r] = "read"
                  \/ tool = "gradle" /\ pc'[r] = "cache" /\ todo'[r] = Jars(ver[r])
         /\ UNCHANGED <<tool, pom, cpBy, cpWhole, script, build, ver, cache, alone, last>>
<1>1. CASE build[r] = "failed"
  BY <1>1 DEF Exited, Finish, Goto, TypeOK, project, shared
<1>2. CASE build[r] = "ok" /\ tool = "gradle"
  BY <1>2 DEF Exited, Goto, TypeOK, project, shared
<1>3. CASE build[r] = "ok" /\ tool # "gradle"
  BY <1>3 DEF Exited, Goto, TypeOK, project, shared
<1> QED
  BY <1>1, <1>2, <1>3 DEF Exited

\* What the reading of the classpath file does.
LEMMA ReadFileStep ==
  ASSUME TypeOK, NEW r \in Runs, ReadFile(r)
  PROVE  /\ pc[r] = "read"
         /\ \A q \in Runs \ {r} : pc'[q] = pc[q] /\ result'[q] = result[q] /\ todo'[q] = todo[q]
         /\ \/ /\ cpBy = 0 /\ result'[r] = "failed"
               /\ pc'[r] = IF tool = "gradle" THEN "cleanup" ELSE "done"
            \/ /\ cpBy # 0 /\ result'[r] = result[r] /\ pc'[r] = "unlink"
               /\ cpWhole => todo'[r] = Jars(ver[cpBy])
         /\ UNCHANGED <<tool, pom, cpBy, cpWhole, script, build, ver, cache, alone, last>>
<1>1. CASE cpBy = 0
  BY <1>1 DEF ReadFile, Finish, Goto, TypeOK, project, shared
<1>2. CASE cpBy # 0
  BY <1>2 DEF ReadFile, Goto, TypeOK, project, shared
<1> QED
  BY <1>1, <1>2

\* What the removal of the classpath file does.
LEMMA UnlinkStep ==
  ASSUME TypeOK, NEW r \in Runs, Unlink(r)
  PROVE  /\ pc[r] = "unlink"
         /\ \A q \in Runs \ {r} : pc'[q] = pc[q] /\ result'[q] = result[q] /\ todo'[q] = todo[q]
         /\ \/ /\ cpBy = 0 /\ result'[r] = "failed"
               /\ pc'[r] = IF tool = "gradle" THEN "cleanup" ELSE "done"
            \/ /\ cpBy # 0 /\ result'[r] = result[r] /\ pc'[r] = "cache"
               /\ todo'[r] = todo[r]
         /\ UNCHANGED <<tool, pom, script, build, ver, cache, alone, last>>
<1>1. CASE cpBy = 0
  BY <1>1 DEF Unlink, Finish, Goto, TypeOK, project
<1>2. CASE cpBy # 0
  BY <1>2 DEF Unlink, Goto, TypeOK, project
<1> QED
  BY <1>1, <1>2

\* What a call has met it has met for good.
LEMMA AloneFalls ==
  ASSUME TypeOK, [Next]_vars
  PROVE  \A q \in Runs : alone'[q] => alone[q]
BY DEF TypeOK, Next, Step, Rest, vars, Edit, Start, StartFails, ProjectRefused, Call,
       Resolve, Succeed, Break, Timeout, Exited, ReadFile, Unlink, FileFails, CacheJar,
       CacheFails, Cached, Cleanup, RemoveScript, ScriptRefused, Stop

\* Only its beginning puts a call in progress or a build to work.
LEMMA NoneAwakes ==
  ASSUME TypeOK, [Next]_vars
  PROVE  \A q \in Runs : \/ Begins(q)
                         \/ (Active(q)' => Active(q)) /\ (Alive(q)' => Alive(q))
<1> DEFINE Quiet == \A q \in Runs :
             (Active(q)' => Active(q)) /\ (Alive(q)' => Alive(q))
<1> USE DEF TypeOK, Active, Alive, Goto
<1>1. ASSUME NEW r \in Runs, Begins(r)
      PROVE  \A q \in Runs \ {r} : (Active(q)' => Active(q)) /\ (Alive(q)' => Alive(q))
  BY <1>1 DEF Begins, Start, StartFails, ProjectRefused, Finish, Refuse
<1>2. ASSUME NEW r \in Runs, NEW how, Finish(r, how), UNCHANGED build, Active(r)
      PROVE  Quiet
  BY <1>2 DEF Finish
<1>3. ASSUME NEW r \in Runs, Resolve(r) \/ Succeed(r) \/ Break(r) PROVE Quiet
  BY <1>3 DEF Resolve, Succeed, Break
<1>4. ASSUME NEW r \in Runs, Timeout(r) \/ Exited(r) PROVE Quiet
  BY <1>4, <1>2 DEF Timeout, Exited
<1>5. ASSUME NEW r \in Runs, ReadFile(r) \/ Unlink(r) PROVE Quiet
  BY <1>5, <1>2 DEF ReadFile, Unlink
<1>6. ASSUME NEW r \in Runs, CacheJar(r) \/ CacheFails(r) \/ Cached(r) \/ FileFails(r)
      PROVE  Quiet
  BY <1>6, <1>2 DEF CacheJar, CacheFails, Cached, FileFails
<1>7. ASSUME NEW r \in Runs, Cleanup(r) \/ RemoveScript(r) \/ ScriptRefused(r) \/ Stop(r)
      PROVE  Quiet
  BY <1>7 DEF Cleanup, RemoveScript, ScriptRefused, Refuse, Stop
<1>8. CASE Edit \/ UNCHANGED vars
  BY <1>8 DEF Edit, vars
<1> HIDE DEF TypeOK, Active, Alive, Goto
<1> QED
  BY <1>1, <1>3, <1>4, <1>5, <1>6, <1>7, <1>8 DEF Next, Step, Rest, Begins

\* The steps of a call and of a build stay with their tool and in order.
LEMMA ShapeStep == TypeOK /\ Shape /\ [Next]_vars => Shape'
<1> SUFFICES ASSUME TypeOK, Shape, [Next]_vars PROVE Shape'
  OBVIOUS
<1> USE DEF Shape, project, shared, Goto, Finish
<1>1. CASE Edit
  BY <1>1 DEF TypeOK, Edit
<1>2. ASSUME NEW r \in Runs, Begins(r) PROVE Shape'
  <2>1. CASE Start(r)
    BY <2>1 DEF TypeOK, Start, Call
  <2>2. CASE StartFails(r)
    BY <2>2 DEF TypeOK, StartFails, Call
  <2>3. CASE ProjectRefused(r)
    BY <2>3 DEF TypeOK, ProjectRefused, Refuse, Call
  <2> QED
    BY <1>2, <2>1, <2>2, <2>3 DEF Begins
<1>3. ASSUME NEW r \in Runs, Resolve(r) \/ Succeed(r) \/ Break(r) PROVE Shape'
  BY <1>3 DEF TypeOK, Resolve, Succeed, Break, Alive
<1>4. ASSUME NEW r \in Runs, Timeout(r) \/ Exited(r) \/ ReadFile(r) \/ Unlink(r) PROVE Shape'
  <2>1. CASE Timeout(r)
    BY <2>1 DEF TypeOK, Timeout
  <2>2. CASE Exited(r)
    <3>1. CASE build[r] = "failed"
      BY <2>2, <3>1, ExitedStep
    <3>2. CASE build[r] = "ok"
      <4>1. tool \in {"maven", "gradle"}
        BY BuildAssumption DEF TypeOK
      <4> QED
        BY <2>2, <3>2, <4>1, ExitedStep
    <3> QED
      BY <2>2, <3>1, <3>2 DEF Exited
  <2>3. CASE ReadFile(r)
    BY <2>3, ReadFileStep
  <2>4. CASE Unlink(r)
    BY <2>4, UnlinkStep
  <2> QED
    BY <1>4, <2>1, <2>2, <2>3, <2>4
<1>5. ASSUME NEW r \in Runs, CacheJar(r) \/ CacheFails(r) \/ Cached(r) \/ FileFails(r)
      PROVE  Shape'
  BY <1>5 DEF TypeOK, CacheJar, CacheFails, Cached, FileFails
<1>6. ASSUME NEW r \in Runs, Cleanup(r) \/ RemoveScript(r) \/ ScriptRefused(r) \/ Stop(r)
      PROVE  Shape'
  BY <1>6 DEF TypeOK, Cleanup, RemoveScript, ScriptRefused, Refuse, Stop, Active
<1>7. CASE UNCHANGED vars
  BY <1>7 DEF vars
<1> QED
  BY <1>1, <1>2, <1>3, <1>4, <1>5, <1>6, <1>7 DEF Next, Step, Rest, Begins

\* A call that starts while another is in progress is seen by both.
LEMMA SoleStep == TypeOK /\ Sole /\ [Next]_vars => Sole'
<1> SUFFICES ASSUME TypeOK, Sole, [Next]_vars PROVE Sole'
  OBVIOUS
<1>1. ASSUME NEW r \in Runs, Begins(r) PROVE Sole'
  <2> DEFINE others == {q \in Runs \ {r} : Active(q) \/ Alive(q)}
  <2>1. \A q \in Runs : alone'[q] = (alone[q] /\ ~(q \in others \/ (q = r /\ others # {})))
    BY <1>1 DEF Begins, Start, StartFails, ProjectRefused, Call
  <2>2. \A q \in Runs \ {r} : Active(q)' = Active(q) /\ Alive(q)' = Alive(q)
    BY <1>1 DEF Begins, Start, StartFails, ProjectRefused, Finish, Refuse, Goto, TypeOK,
                Active, Alive
  <2>3. ASSUME NEW q \in Runs \ {r}, Active(q)', alone'[q] PROVE FALSE
    BY <2>1, <2>2, <2>3
  <2>4. ASSUME alone'[r], NEW q \in Runs \ {r} PROVE ~Active(q)' /\ ~Alive(q)'
    BY <2>1, <2>2, <2>4
  <2> QED
    BY <2>3, <2>4 DEF Sole
<1>2. CASE \A r \in Runs : ~Begins(r)
  BY <1>2, AloneFalls, NoneAwakes DEF Sole
<1> QED
  BY <1>1, <1>2

\* Nobody but the own build and the own call touches the classpath file.
LEMMA FileStep == TypeOK /\ Shape /\ Sole /\ OwnFile /\ [Next]_vars => OwnFile'
<1> SUFFICES ASSUME TypeOK, Shape, Sole, OwnFile, [Next]_vars PROVE OwnFile'
  OBVIOUS
<1>0. \A q \in Runs : alone'[q] => alone[q]
  BY AloneFalls
<1> USE <1>0 DEF Sole, OwnFile, FileOf, project, shared, Goto, Active, Alive
<1>1. CASE Edit
  BY <1>1 DEF TypeOK, Edit
<1>2. ASSUME NEW r \in Runs, Begins(r) PROVE OwnFile'
  BY <1>2 DEF TypeOK, Begins, Start, StartFails, ProjectRefused, Finish, Refuse
<1>3. ASSUME NEW r \in Runs, Resolve(r) PROVE OwnFile'
  <2>1. CASE tool = "maven"
    <3>1. /\ cpBy' = r /\ UNCHANGED <<tool, pc, alone>>
          /\ build' = [build EXCEPT ![r] = "writing"] /\ build[r] = "started"
      BY <1>3, <2>1 DEF Resolve
    <3>2. ASSUME NEW q \in Runs \ {r}, alone[q], Active(q) PROVE FALSE
      BY <3>1, <3>2
    <3>3. build'[r] = "writing"
      BY <3>1 DEF TypeOK
    <3>4. \A q \in Runs \ {r} : alone[q] => pc[q] \notin {"wait", "read", "unlink"}
      BY <3>2
    <3>5. FileOf(r)'
      BY <3>1, <3>3 DEF Shape
    <3>6. \A q \in Runs \ {r} : alone'[q] => FileOf(q)'
      BY <3>1, <3>4
    <3> HIDE DEF FileOf
    <3> QED
      BY <3>5, <3>6
  <2>2. CASE tool # "maven"
    BY <1>3, <2>2 DEF TypeOK, Resolve
  <2> QED
    BY <2>1, <2>2
<1>4. ASSUME NEW r \in Runs, Succeed(r) PROVE OwnFile'
  <2>1. /\ build[r] = "writing" /\ build' = [build EXCEPT ![r] = "ok"]
        /\ cpWhole' = IF tool = "maven" THEN cpBy = r ELSE cpWhole
        /\ UNCHANGED <<tool, pc, alone, cpBy>>
    BY <1>4 DEF Succeed
  <2>2. ASSUME NEW q \in Runs \ {r}, alone[q], tool = "maven"
        PROVE  FileOf(q)'
    <3>1. ~ Active(q)
      BY <2>1, <2>2
    <3> QED
      BY <2>1, <3>1
  <2>3. ASSUME alone[r], tool = "maven" PROVE FileOf(r)'
    <3>1. FileOf(r)
      BY <2>3
    <3> QED
      BY <2>1, <2>3, <3>1 DEF Shape
  <2> HIDE DEF FileOf
  <2> QED
    BY <2>1, <2>2, <2>3
<1>5. ASSUME NEW r \in Runs, Break(r) \/ Timeout(r) PROVE OwnFile'
  BY <1>5 DEF TypeOK, Break, Timeout, Finish
<1>6. ASSUME NEW r \in Runs, Exited(r) \/ ReadFile(r) PROVE OwnFile'
  BY <1>6, ExitedStep, ReadFileStep
<1>7. ASSUME NEW r \in Runs, Unlink(r) PROVE OwnFile'
  BY <1>7, UnlinkStep
<1>8. ASSUME NEW r \in Runs, CacheJar(r) \/ CacheFails(r) \/ Cached(r) \/ FileFails(r)
      PROVE  OwnFile'
  BY <1>8 DEF TypeOK, CacheJar, CacheFails, Cached, FileFails, Finish
<1>9. ASSUME NEW r \in Runs, Cleanup(r) \/ RemoveScript(r) \/ ScriptRefused(r) \/ Stop(r)
      PROVE  OwnFile'
  BY <1>9 DEF TypeOK, Cleanup, RemoveScript, ScriptRefused, Refuse, Stop
<1>10. CASE UNCHANGED vars
  BY <1>10 DEF vars
<1> QED
  BY <1>1, <1>2, <1>3, <1>4, <1>5, <1>6, <1>7, <1>8, <1>9, <1>10 DEF Next, Step, Rest,
     Begins

\* Nobody but the own finally clause removes the script.
LEMMA ScriptStep == TypeOK /\ Sole /\ OwnScript /\ [Next]_vars => OwnScript'
<1> SUFFICES ASSUME TypeOK, Sole, OwnScript, [Next]_vars PROVE OwnScript'
  OBVIOUS
<1>0. \A q \in Runs : alone'[q] => alone[q]
  BY AloneFalls
<1>1. ASSUME script => script', \A q \in Runs : pc'[q] = "remove" => pc[q] = "remove"
      PROVE  OwnScript'
  BY <1>0, <1>1 DEF OwnScript
<1>2. CASE Edit \/ UNCHANGED vars
  BY <1>1, <1>2 DEF Edit, vars, shared
<1>3. ASSUME NEW r \in Runs, NEW how, Finish(r, how), script => script' PROVE OwnScript'
  BY <1>1, <1>3 DEF Finish, Goto, TypeOK
<1>4. ASSUME NEW r \in Runs, Begins(r) PROVE OwnScript'
  <2>1. CASE Start(r)
    BY <1>1, <2>1 DEF Start, Goto, TypeOK
  <2>2. CASE StartFails(r)
    BY <1>3, <2>2 DEF StartFails
  <2>3. CASE ProjectRefused(r)
    BY <1>1, <2>3 DEF ProjectRefused, Refuse, Goto, shared, TypeOK
  <2> QED
    BY <1>4, <2>1, <2>2, <2>3 DEF Begins
<1>5. ASSUME NEW r \in Runs, Resolve(r) \/ Succeed(r) \/ Break(r) PROVE OwnScript'
  <2>1. script' = script
    BY <1>5 DEF Resolve, Succeed, Break, shared
  <2>2. pc' = pc
    BY <1>5 DEF Resolve, Succeed, Break
  <2> QED
    BY <1>1, <2>1, <2>2
<1>6. ASSUME NEW r \in Runs, Exited(r) \/ ReadFile(r) \/ Unlink(r) PROVE OwnScript'
  BY <1>1, <1>6, ExitedStep, ReadFileStep, UnlinkStep
<1>7. ASSUME NEW r \in Runs, Timeout(r) \/ FileFails(r) \/ CacheFails(r) \/ Cached(r)
      PROVE  OwnScript'
  BY <1>3, <1>7 DEF Timeout, FileFails, CacheFails, Cached, shared
<1>8. ASSUME NEW r \in Runs, CacheJar(r) PROVE OwnScript'
  BY <1>1, <1>3, <1>8 DEF CacheJar, shared
<1>9. ASSUME NEW r \in Runs, Cleanup(r) PROVE OwnScript'
  <2>1. UNCHANGED <<script, alone>> /\ pc'[r] = (IF script THEN "remove" ELSE "done")
        /\ \A q \in Runs \ {r} : pc'[q] = pc[q]
    BY <1>9 DEF Cleanup, Goto, shared, TypeOK
  <2> QED
    BY <2>1 DEF OwnScript
<1>10. ASSUME NEW r \in Runs, RemoveScript(r) PROVE OwnScript'
  <2>1. /\ Active(r) /\ pc'[r] = "done" /\ UNCHANGED alone
        /\ \A q \in Runs \ {r} : pc'[q] = pc[q]
    BY <1>10 DEF RemoveScript, Goto, Active, TypeOK
  <2>2. ASSUME NEW q \in Runs \ {r}, alone[q], pc[q] = "remove" PROVE FALSE
    BY <2>1, <2>2 DEF Sole, Active
  <2> QED
    BY <2>1, <2>2 DEF OwnScript
<1>11. ASSUME NEW r \in Runs, ScriptRefused(r) \/ Stop(r) PROVE OwnScript'
  BY <1>1, <1>11 DEF ScriptRefused, Refuse, Stop, Goto, shared, TypeOK
<1> QED
  BY <1>2, <1>4, <1>5, <1>6, <1>7, <1>8, <1>9, <1>10, <1>11 DEF Next, Step, Rest, Begins

\* The calls on one index exclude each other.
LEMMA LatestStep == TypeOK /\ Latest /\ [Next]_vars => Latest'
<1> SUFFICES ASSUME TypeOK, Latest, [Next]_vars PROVE Latest'
  OBVIOUS
<1>1. ASSUME NEW r \in Runs, Begins(r) PROVE Latest'
  <2>1. last' = [last EXCEPT ![IndexOf[r]] = r] /\ IndexOf \in [Runs -> Indexes]
    BY <1>1, BuildAssumption DEF Begins, Start, StartFails, ProjectRefused, Call
  <2>2. \A q \in Runs \ {r} : Active(q)' = Active(q)
    BY <1>1 DEF Begins, Start, StartFails, ProjectRefused, Finish, Refuse, Goto, TypeOK, Active
  <2>3. \A q \in Runs \ {r} : Active(q) => IndexOf[q] # IndexOf[r]
    BY <1>1 DEF Begins, Start, StartFails, ProjectRefused, Call
  <2> QED
    BY <2>1, <2>2, <2>3 DEF Latest, TypeOK
<1>2. CASE \A r \in Runs : ~Begins(r)
  <2>1. UNCHANGED last
    BY <1>2 DEF Next, Step, Rest, Begins, vars, Edit, Resolve, Succeed, Break, Timeout,
                Exited, ReadFile, Unlink, FileFails, CacheJar, CacheFails, Cached, Cleanup,
                RemoveScript, ScriptRefused, Stop
  <2> QED
    BY <1>2, <2>1, NoneAwakes DEF Latest
<1> QED
  BY <1>1, <1>2

\* A classpath just resolved is in hand from its first jar.
LEMMA AllLeft ==
  ASSUME NEW v \in Versions
  PROVE  0 \in 0..Len(Jars(v)) /\ SubSeq(Jars(v), 0 + 1, Len(Jars(v))) = Jars(v)
<1>1. Jars(v) \in Seq(Libs \X Versions)
  BY JarsType
<1> QED
  BY <1>1, SubSeqFull

\* One jar more is cached, and the ones before stay: the table has one version
\* of a library, and a build resolves them all in its own.
LEMMA OneMore ==
  ASSUME TypeOK, NEW r \in Runs, todo[r] # <<>>,
         NEW n \in 0..Len(Jars(ver[r])), CachedTo(r, n),
         todo' = [todo EXCEPT ![r] = Tail(@)], UNCHANGED ver,
         cache' = [cache EXCEPT ![IndexOf[r]][Head(todo[r])[1]] = Head(todo[r])[2]]
  PROVE  n + 1 \in 0..Len(Jars(ver[r])) /\ CachedTo(r, n + 1)'
<1> DEFINE jars == Jars(ver[r])
           libs == Classpath[ver[r]]
<1>1. ver[r] \in Versions
  BY DEF TypeOK
<1>2. /\ jars \in Seq(Libs \X Versions) /\ libs \in Seq(Libs) /\ Len(jars) = Len(libs)
      /\ \A i \in 1..Len(jars) : jars[i] = <<libs[i], ver[r]>>
  BY <1>1, JarsType
<1>3. todo[r] = SubSeq(jars, n + 1, Len(jars))
  BY DEF CachedTo
<1>4. n + 1 \in 1..Len(jars) /\ Len(jars) \in (n + 1)..Len(jars)
  <2>1. CASE n + 1 \in 1..Len(jars)
    BY <2>1, <1>2
  <2>2. CASE n + 1 \notin 1..Len(jars)
    BY <2>2, <1>2, <1>3, SubSeqEmpty
  <2> QED
    BY <2>1, <2>2
<1>5. Head(todo[r]) = jars[n + 1] /\ Tail(todo[r]) = SubSeq(jars, (n + 1) + 1, Len(jars))
  BY <1>2, <1>3, <1>4, HeadTailOfSubSeq
<1>6. IndexOf[r] \in Indexes /\ libs[n + 1] \in Libs
  BY <1>2, <1>4, BuildAssumption
<1>7. cache' = [cache EXCEPT ![IndexOf[r]][libs[n + 1]] = ver[r]]
  <2>1. Head(todo[r])[1] = libs[n + 1] /\ Head(todo[r])[2] = ver[r]
    <3>1. jars[n + 1] = <<libs[n + 1], ver[r]>>
      BY <1>2, <1>4
    <3>2. Head(todo[r]) = <<libs[n + 1], ver[r]>>
      BY <1>5, <3>1
    <3> QED
      BY <3>2
  <2> QED
    BY <2>1
<1>8. \A lib \in Libs : cache'[IndexOf[r]][lib]
                          = IF lib = libs[n + 1] THEN ver[r] ELSE cache[IndexOf[r]][lib]
  BY <1>6, <1>7 DEF TypeOK
<1>9. \A k \in 1..n : cache[IndexOf[r]][libs[k]] = ver[r] /\ libs[k] \in Libs
  <2>1. \A k \in 1..n : libs[k] \in Libs
    BY <1>2, <1>4
  <2> QED
    BY <2>1 DEF CachedTo
<1>10. \A k \in 1..(n + 1) : cache'[IndexOf[r]][libs[k]] = ver[r]
  <2> TAKE k \in 1..(n + 1)
  <2>1. CASE k = n + 1
    BY <2>1, <1>6, <1>8
  <2>2. CASE k # n + 1
    <3>1. k \in 1..n
      BY <2>2
    <3> QED
      BY <3>1, <1>8, <1>9
  <2> QED
    BY <2>1, <2>2
<1>11. todo'[r] = SubSeq(jars, (n + 1) + 1, Len(jars))
  BY <1>5 DEF TypeOK
<1>12. CachedTo(r, n + 1)'
  BY <1>10, <1>11 DEF CachedTo, Jars
<1> QED
  BY <1>2, <1>4, <1>12

\* What is in hand comes from the own build and from nowhere else.
LEMMA JarsStep == TypeOK /\ Shape /\ Sole /\ OwnFile /\ OwnJars /\ [Next]_vars => OwnJars'
<1> SUFFICES ASSUME TypeOK, Shape, Sole, OwnFile, OwnJars, [Next]_vars PROVE OwnJars'
  OBVIOUS
<1>0. \A q \in Runs : alone'[q] => alone[q]
  BY AloneFalls
<1>1. ASSUME NEW q \in Runs, alone'[q], pc'[q] = pc[q], todo'[q] = todo[q],
             pc[q] \in {"unlink", "cache"} => ver'[q] = ver[q], UNCHANGED cache
      PROVE  JarsOf(q)'
  <2>1. JarsOf(q)
    BY <1>0, <1>1 DEF OwnJars
  <2>2. CASE pc[q] = "unlink"
    BY <1>1, <2>1, <2>2 DEF JarsOf, Jars
  <2>3. CASE pc[q] = "cache"
    <3>1. PICK n \in 0..Len(Jars(ver[q])) : CachedTo(q, n)
      BY <2>1, <2>3 DEF JarsOf
    <3>2. CachedTo(q, n)' /\ n \in 0..Len(Jars(ver[q]))'
      BY <1>1, <2>3, <3>1 DEF CachedTo, Jars
    <3> QED
      BY <1>1, <2>3, <3>2 DEF JarsOf
  <2>4. CASE pc[q] \notin {"unlink", "cache"}
    BY <1>1, <2>4 DEF JarsOf
  <2> QED
    BY <2>2, <2>3, <2>4
<1>2. ASSUME NEW q \in Runs, pc'[q] \notin {"unlink", "cache"} PROVE JarsOf(q)'
  BY <1>2 DEF JarsOf
<1>3. CASE Edit \/ UNCHANGED vars
  BY <1>1, <1>3 DEF Edit, vars, OwnJars
<1>4. ASSUME NEW r \in Runs, Begins(r) PROVE OwnJars'
  <2>1. /\ UNCHANGED <<ver, cache>> /\ pc'[r] \in {"wait", "cleanup", "done"}
        /\ \A q \in Runs \ {r} : pc'[q] = pc[q] /\ todo'[q] = todo[q]
    BY <1>4 DEF Begins, Start, StartFails, ProjectRefused, Finish, Refuse, Goto, TypeOK
  <2> QED
    BY <2>1, <1>1, <1>2 DEF OwnJars
<1>5. ASSUME NEW r \in Runs, Resolve(r) \/ Succeed(r) \/ Break(r) PROVE OwnJars'
  <2>1. UNCHANGED <<pc, todo, cache>>
        /\ \A q \in Runs : pc[q] \in {"unlink", "cache"} => ver'[q] = ver[q]
    BY <1>5 DEF Resolve, Succeed, Break, Shape, TypeOK
  <2> QED
    BY <2>1, <1>1 DEF OwnJars
<1>6. ASSUME NEW r \in Runs, NEW how, Finish(r, how), UNCHANGED <<ver, cache>> PROVE OwnJars'
  <2>1. /\ pc'[r] \notin {"unlink", "cache"}
        /\ \A q \in Runs \ {r} : pc'[q] = pc[q] /\ todo'[q] = todo[q]
    BY <1>6 DEF Finish, Goto, TypeOK
  <2> QED
    BY <2>1, <1>1, <1>2, <1>6 DEF OwnJars
<1>7. ASSUME NEW r \in Runs, pc'[r] = "cache", todo'[r] = Jars(ver[r]), UNCHANGED ver
      PROVE  JarsOf(r)'
  <2>1. ver[r] \in Versions
    BY DEF TypeOK
  <2>2. CachedTo(r, 0)'
    BY <1>7, <2>1, AllLeft DEF CachedTo, Jars
  <2>3. 0 \in 0..Len(Jars(ver[r]))'
    BY <1>7, <2>1, AllLeft DEF Jars
  <2> QED
    BY <1>7, <2>2, <2>3 DEF JarsOf
<1>8. ASSUME NEW r \in Runs, Exited(r) PROVE OwnJars'
  <2>1. JarsOf(r)'
    BY <1>8, <1>2, <1>7, ExitedStep
  <2> QED
    BY <1>8, <2>1, <1>1, ExitedStep DEF OwnJars
<1>9. ASSUME NEW r \in Runs, ReadFile(r) PROVE OwnJars'
  <2>1. \A q \in Runs \ {r} : alone'[q] => JarsOf(q)'
    BY <1>9, <1>1, ReadFileStep
  <2>2. CASE cpBy = 0
    <3>1. pc'[r] \notin {"unlink", "cache"}
      BY <1>9, <2>2, ReadFileStep
    <3> QED
      BY <2>1, <3>1, <1>2 DEF OwnJars
  <2>3. CASE cpBy # 0
    <3>1. pc'[r] = "unlink" /\ pc[r] = "read" /\ UNCHANGED ver
          /\ (cpWhole => todo'[r] = Jars(ver[cpBy]))
      BY <1>9, <2>3, ReadFileStep
    <3>2. alone'[r] => cpBy = r /\ cpWhole
      BY <3>1, <1>0 DEF Shape, OwnFile, FileOf
    <3>3. alone'[r] => JarsOf(r)'
      BY <3>1, <3>2 DEF JarsOf, Jars
    <3> QED
      BY <2>1, <3>3 DEF OwnJars
  <2> QED
    BY <2>2, <2>3
<1>10. ASSUME NEW r \in Runs, Unlink(r) PROVE OwnJars'
  <2>1. \A q \in Runs \ {r} : alone'[q] => JarsOf(q)'
    BY <1>10, <1>1, UnlinkStep
  <2>2. CASE cpBy = 0
    <3>1. pc'[r] \notin {"unlink", "cache"}
      BY <1>10, <2>2, UnlinkStep
    <3> QED
      BY <2>1, <3>1, <1>2 DEF OwnJars
  <2>3. CASE cpBy # 0
    <3>1. pc'[r] = "cache" /\ pc[r] = "unlink" /\ UNCHANGED ver /\ todo'[r] = todo[r]
      BY <1>10, <2>3, UnlinkStep
    <3>2. alone'[r] => todo'[r] = Jars(ver[r])
      BY <3>1, <1>0 DEF OwnJars, JarsOf
    <3>3. alone'[r] => JarsOf(r)'
      BY <3>1, <3>2, <1>7
    <3> QED
      BY <2>1, <3>3 DEF OwnJars
  <2> QED
    BY <2>2, <2>3
<1>11. ASSUME NEW r \in Runs, CacheJar(r) PROVE OwnJars'
  <2>1. CASE Head(todo[r])[1] \in Odd
    BY <1>11, <2>1, <1>6 DEF CacheJar
  <2>2. CASE Head(todo[r])[1] \notin Odd
    <3>1. /\ cache' = [cache EXCEPT ![IndexOf[r]][Head(todo[r])[1]] = Head(todo[r])[2]]
          /\ todo' = [todo EXCEPT ![r] = Tail(@)]
          /\ UNCHANGED <<pc, ver, alone>> /\ pc[r] = "cache" /\ todo[r] # <<>>
      BY <1>11, <2>2 DEF CacheJar
    <3>2. ASSUME NEW q \in Runs \ {r}, alone'[q] PROVE JarsOf(q)'
      <4>1. ~Active(q)
        BY <3>1, <3>2 DEF Sole, Active
      <4> QED
        BY <3>1, <4>1, <1>2 DEF Active
    <3>3. ASSUME alone'[r] PROVE JarsOf(r)'
      <4>1. PICK n \in 0..Len(Jars(ver[r])) : CachedTo(r, n)
        BY <3>1, <3>3 DEF OwnJars, JarsOf
      <4>2. n + 1 \in 0..Len(Jars(ver[r])) /\ CachedTo(r, n + 1)'
        BY <3>1, <4>1, OneMore
      <4>3. n + 1 \in 0..Len(Jars(ver[r]))'
        BY <3>1, <4>2 DEF Jars
      <4> QED
        BY <3>1, <4>2, <4>3 DEF JarsOf
    <3> QED
      BY <3>2, <3>3 DEF OwnJars
  <2> QED
    BY <2>1, <2>2
<1>12. ASSUME NEW r \in Runs, Timeout(r) \/ FileFails(r) \/ CacheFails(r) \/ Cached(r)
       PROVE  OwnJars'
  BY <1>12, <1>6 DEF Timeout, FileFails, CacheFails, Cached
<1>13. ASSUME NEW r \in Runs,
              Cleanup(r) \/ RemoveScript(r) \/ ScriptRefused(r) \/ Stop(r)
       PROVE  OwnJars'
  <2>1. /\ pc'[r] \notin {"unlink", "cache"} /\ UNCHANGED <<ver, cache>>
        /\ \A q \in Runs \ {r} : pc'[q] = pc[q] /\ todo'[q] = todo[q]
    BY <1>13 DEF Cleanup, RemoveScript, ScriptRefused, Refuse, Stop, Goto, TypeOK
  <2> QED
    BY <2>1, <1>1, <1>2 DEF OwnJars
<1> QED
  BY <1>3, <1>4, <1>5, <1>8, <1>9, <1>10, <1>11, <1>12, <1>13 DEF Next, Step, Rest,
     Begins

\* A complete cache stays complete until the next call on its index.
LEMMA CompleteStep ==
  TypeOK /\ Shape /\ Latest /\ OwnJars /\ CachedIsComplete /\ [Next]_vars => CachedIsComplete'
<1> SUFFICES ASSUME TypeOK, Shape, Latest, OwnJars, CachedIsComplete, [Next]_vars
             PROVE  CachedIsComplete'
  OBVIOUS
<1> DEFINE All(i, r) == \A n \in 1..Len(Classpath[ver[r]]) :
                            cache[i][Classpath[ver[r]][n]] = ver[r]
<1>0. \A q \in Runs : alone'[q] => alone[q]
  BY AloneFalls
<1>1. ASSUME NEW i \in Indexes, NEW r \in Runs, last[i] = r, result[r] = "cached", alone'[r],
             ver'[r] = ver[r], cache'[i] = cache[i]
      PROVE  All(i, r)'
  <2>1. All(i, r)
    BY <1>0, <1>1 DEF CachedIsComplete
  <2> QED
    BY <1>1, <2>1
<1>2. ASSUME UNCHANGED <<result, last, cache>>,
             \A r \in Runs : result[r] = "cached" => ver'[r] = ver[r]
      PROVE  CachedIsComplete'
  BY <1>1, <1>2 DEF CachedIsComplete
<1>3. ASSUME NEW r \in Runs, result'[r] # "cached", UNCHANGED <<ver, last, cache>>,
             \A q \in Runs \ {r} : result'[q] = result[q]
      PROVE  CachedIsComplete'
  <2> SUFFICES ASSUME NEW i \in Indexes, NEW q \in Runs,
                      last'[i] = q, result'[q] = "cached", alone'[q]
               PROVE  All(i, q)'
    BY DEF CachedIsComplete
  <2>1. q # r /\ result[q] = "cached"
    BY <1>3
  <2> QED
    BY <1>1, <1>3, <2>1
<1>4. ASSUME NEW r \in Runs, Begins(r) PROVE CachedIsComplete'
  <2>1. /\ result'[r] # "cached" /\ UNCHANGED <<ver, cache>>
        /\ \A q \in Runs \ {r} : result'[q] = result[q]
    BY <1>4 DEF Begins, Start, StartFails, ProjectRefused, Call, Finish, Refuse, Shape, TypeOK
  <2>2. last' = [last EXCEPT ![IndexOf[r]] = r]
    BY <1>4 DEF Begins, Start, StartFails, ProjectRefused, Call
  <2>3. \A i \in Indexes : last'[i] = last[i] \/ last'[i] = r
    BY <2>2 DEF TypeOK
  <2> QED
    BY <2>1, <2>3, <1>1 DEF CachedIsComplete
<1>5. ASSUME NEW r \in Runs, Resolve(r) \/ Succeed(r) \/ Break(r) PROVE CachedIsComplete'
  <2>1. \A q \in Runs : result[q] = "cached" => ver'[q] = ver[q]
    BY <1>5 DEF Resolve, Succeed, Break, Shape, TypeOK
  <2>2. UNCHANGED <<result, last, cache>>
    BY <1>5 DEF Resolve, Succeed, Break
  <2> QED
    BY <2>1, <2>2, <1>2
<1>6. ASSUME NEW r \in Runs, NEW how \in {"failed", "raised"}, Finish(r, how),
             UNCHANGED <<ver, last, cache>>
      PROVE  CachedIsComplete'
  <2>1. result'[r] = how /\ \A q \in Runs \ {r} : result'[q] = result[q]
    BY <1>6 DEF Finish, TypeOK
  <2> QED
    BY <1>6, <2>1, <1>3
<1>7. ASSUME NEW r \in Runs, Exited(r) \/ ReadFile(r) \/ Unlink(r) PROVE CachedIsComplete'
  <2>1. result[r] = "none"
    BY <1>7 DEF Exited, ReadFile, Unlink, Shape
  <2>2. /\ result'[r] # "cached" /\ UNCHANGED <<ver, last, cache>>
        /\ \A q \in Runs \ {r} : result'[q] = result[q]
    BY <1>7, <2>1, ExitedStep, ReadFileStep, UnlinkStep
  <2> QED
    BY <2>2, <1>3
<1>8. ASSUME NEW r \in Runs, CacheJar(r) PROVE CachedIsComplete'
  <2>1. CASE Head(todo[r])[1] \in Odd
    BY <1>8, <2>1, <1>6 DEF CacheJar
  <2>2. CASE Head(todo[r])[1] \notin Odd
    <3>1. /\ pc[r] = "cache" /\ result[r] = "none" /\ last[IndexOf[r]] = r
          /\ UNCHANGED <<ver, last, result>>
          /\ cache' = [cache EXCEPT ![IndexOf[r]][Head(todo[r])[1]] = Head(todo[r])[2]]
      BY <1>8, <2>2 DEF CacheJar, Shape, Latest, Active
    <3>2. \A i \in Indexes \ {IndexOf[r]} : cache'[i] = cache[i]
      BY <3>1 DEF TypeOK
    <3> QED
      BY <3>1, <3>2, <1>1 DEF CachedIsComplete
  <2> QED
    BY <2>1, <2>2
<1>9. ASSUME NEW r \in Runs, Timeout(r) \/ FileFails(r) \/ CacheFails(r)
      PROVE  CachedIsComplete'
  BY <1>9, <1>6 DEF Timeout, FileFails, CacheFails
<1>10. ASSUME NEW r \in Runs, Cached(r) PROVE CachedIsComplete'
  <2>1. /\ pc[r] = "cache" /\ todo[r] = <<>> /\ UNCHANGED <<ver, last, cache, alone>>
        /\ \A q \in Runs \ {r} : result'[q] = result[q]
    BY <1>10 DEF Cached, Finish, TypeOK
  <2>2. ASSUME NEW i \in Indexes, last[i] = r, alone[r] PROVE All(i, r)
    <3>1. i = IndexOf[r]
      BY <2>2, BuildAssumption DEF Latest
    <3>2. PICK n \in 0..Len(Jars(ver[r])) : CachedTo(r, n)
      BY <2>1, <2>2 DEF OwnJars, JarsOf
    <3>3. Jars(ver[r]) \in Seq(Libs \X Versions) /\ Len(Jars(ver[r])) = Len(Classpath[ver[r]])
      BY JarsType DEF TypeOK
    <3>4. n = Len(Jars(ver[r]))
      <4>1. CASE n + 1 \in 1..Len(Jars(ver[r]))
        <5>1. \A k \in (n + 1)..Len(Jars(ver[r])) : Jars(ver[r])[k] \in Libs \X Versions
          BY <3>3
        <5>2. Len(todo[r]) = Len(Jars(ver[r])) - (n + 1) + 1
          BY <3>2, <3>3, <4>1, <5>1, SubSeqProperties DEF CachedTo
        <5> QED
          BY <2>1, <3>3, <4>1, <5>2
      <4>2. CASE n + 1 \notin 1..Len(Jars(ver[r]))
        BY <3>3, <4>2
      <4> QED
        BY <4>1, <4>2
    <3> QED
      BY <3>1, <3>2, <3>3, <3>4 DEF CachedTo
  <2>3. ASSUME NEW i \in Indexes, NEW q \in Runs, last'[i] = q, result'[q] = "cached", alone'[q]
        PROVE  All(i, q)'
    <3>1. CASE q = r
      BY <3>1, <2>1, <2>2, <2>3
    <3>2. CASE q # r
      BY <3>2, <2>1, <2>3, <1>1
    <3> QED
      BY <3>1, <3>2
  <2> QED
    BY <2>3 DEF CachedIsComplete
<1>11. ASSUME NEW r \in Runs, RemoveScript(r) \/ ScriptRefused(r) \/ Stop(r)
       PROVE  CachedIsComplete'
  <2>1. /\ result' = result \/ result'[r] # "cached"
        /\ UNCHANGED <<ver, last, cache>>
        /\ \A q \in Runs \ {r} : result'[q] = result[q]
    BY <1>11 DEF RemoveScript, ScriptRefused, Refuse, Stop, TypeOK
  <2> QED
    BY <2>1, <1>2, <1>3
<1>12. ASSUME NEW r \in Runs, Cleanup(r) PROVE CachedIsComplete'
  BY <1>12, <1>2 DEF Cleanup
<1>13. CASE Edit \/ UNCHANGED vars
  BY <1>13, <1>2 DEF Edit, vars
<1> QED
  BY <1>4, <1>5, <1>7, <1>8, <1>9, <1>10, <1>11, <1>12, <1>13 DEF Next, Step, Rest,
     Begins

\* The errors that leave the sync are those of the look at the project, before
\* there is a build, and of the removal of Gradle's script; the script is gone
\* only if somebody else has removed it.
LEMMA RaisesStep ==
  TypeOK /\ Shape /\ OwnScript /\ RaisesOnlyIfShared /\ [Next]_vars => RaisesOnlyIfShared'
<1> SUFFICES ASSUME TypeOK, Shape, OwnScript, RaisesOnlyIfShared, [Next]_vars
             PROVE  RaisesOnlyIfShared'
  OBVIOUS
<1>0. \A q \in Runs : alone'[q] => alone[q]
  BY AloneFalls
<1>1. tool' = tool
  BY DEF Next, Step, Rest, vars, Edit, Start, StartFails, ProjectRefused, Resolve, Succeed,
         Break, Timeout, Exited, ReadFile, Unlink, FileFails, CacheJar, CacheFails, Cached,
         Cleanup, RemoveScript, ScriptRefused, Stop, project
<1> DEFINE Fine(q) ==
             /\ result[q] = "raised" => tool = "gradle" /\ ~alone[q]
             /\ result[q] = "refused" => tool = "gradle" \/ build[q] = "none"
<1>2. ASSUME NEW q \in Runs, result'[q] = result[q], build[q] = "none" => build'[q] = "none"
      PROVE  Fine(q)'
  BY <1>0, <1>1, <1>2 DEF RaisesOnlyIfShared, TypeOK
<1>3. ASSUME NEW r \in Runs, Fine(r)', \A q \in Runs \ {r} : result'[q] = result[q],
             UNCHANGED build
      PROVE  RaisesOnlyIfShared'
  <2>1. \A q \in Runs \ {r} : Fine(q)'
    BY <1>2, <1>3
  <2> QED
    BY <1>3, <2>1 DEF RaisesOnlyIfShared
<1>4. ASSUME UNCHANGED result, \A q \in Runs : build[q] = "none" => build'[q] = "none"
      PROVE  RaisesOnlyIfShared'
  <2>1. \A q \in Runs : Fine(q)'
    BY <1>2, <1>4
  <2> QED
    BY <2>1 DEF RaisesOnlyIfShared
<1>5. ASSUME NEW r \in Runs, NEW how \in {"failed", "cached"}, Finish(r, how), UNCHANGED build
      PROVE  RaisesOnlyIfShared'
  <2>1. result'[r] = how /\ \A q \in Runs \ {r} : result'[q] = result[q]
    BY <1>5 DEF Finish, TypeOK
  <2> QED
    BY <1>3, <1>5, <2>1
<1>6. ASSUME NEW r \in Runs,
             Timeout(r) \/ FileFails(r) \/ CacheJar(r) \/ CacheFails(r) \/ Cached(r)
      PROVE  RaisesOnlyIfShared'
  BY <1>6, <1>4, <1>5 DEF Timeout, FileFails, CacheJar, CacheFails, Cached
<1>7. ASSUME NEW r \in Runs, Exited(r) \/ ReadFile(r) \/ Unlink(r) PROVE RaisesOnlyIfShared'
  <2>1. result[r] = "none"
    BY <1>7 DEF Exited, ReadFile, Unlink, Shape
  <2> QED
    BY <1>7, <2>1, <1>3, ExitedStep, ReadFileStep, UnlinkStep
<1>8. ASSUME NEW r \in Runs, RemoveScript(r) PROVE RaisesOnlyIfShared'
  <2>1. CASE script
    BY <1>8, <2>1, <1>4 DEF RemoveScript
  <2>2. CASE ~script
    <3>1. tool = "gradle" /\ ~alone[r] /\ UNCHANGED <<alone, build>>
      BY <1>8, <2>2 DEF RemoveScript, Shape, OwnScript
    <3>2. result'[r] = "raised" /\ \A q \in Runs \ {r} : result'[q] = result[q]
      BY <1>8, <2>2 DEF RemoveScript, TypeOK
    <3> QED
      BY <3>1, <3>2, <1>1, <1>3
  <2> QED
    BY <2>1, <2>2
<1>9. ASSUME NEW r \in Runs, ScriptRefused(r) PROVE RaisesOnlyIfShared'
  <2>1. tool = "gradle" /\ UNCHANGED build
    BY <1>9 DEF ScriptRefused, Shape
  <2>2. result'[r] = "refused" /\ \A q \in Runs \ {r} : result'[q] = result[q]
    BY <1>9 DEF ScriptRefused, Refuse, TypeOK
  <2> QED
    BY <2>1, <2>2, <1>1, <1>3
<1>10. ASSUME NEW r \in Runs, Stop(r) PROVE RaisesOnlyIfShared'
  BY <1>10, <1>3 DEF Stop, TypeOK
<1>11. ASSUME NEW r \in Runs, Begins(r) PROVE RaisesOnlyIfShared'
  <2>1. CASE Start(r)
    <3>1. UNCHANGED result /\ result[r] = "none"
      BY <2>1 DEF Start, Call, Shape
    <3>2. \A q \in Runs \ {r} : build'[q] = build[q]
      BY <2>1 DEF Start, TypeOK
    <3>3. Fine(r)'
      BY <3>1
    <3>4. \A q \in Runs \ {r} : Fine(q)'
      BY <3>1, <3>2, <1>2
    <3> QED
      BY <3>3, <3>4 DEF RaisesOnlyIfShared
  <2>2. CASE StartFails(r)
    BY <2>2, <1>5 DEF StartFails
  <2>3. CASE ProjectRefused(r)
    <3>1. build[r] = "none" /\ UNCHANGED build
      BY <2>3 DEF ProjectRefused, Call, Shape
    <3>2. result'[r] = "refused" /\ \A q \in Runs \ {r} : result'[q] = result[q]
      BY <2>3 DEF ProjectRefused, Refuse, TypeOK
    <3> QED
      BY <3>1, <3>2, <1>3
  <2> QED
    BY <1>11, <2>1, <2>2, <2>3 DEF Begins
<1>12. ASSUME NEW r \in Runs, Resolve(r) \/ Succeed(r) \/ Break(r) \/ Cleanup(r)
       PROVE  RaisesOnlyIfShared'
  BY <1>12, <1>4 DEF Resolve, Succeed, Break, Alive, Cleanup, TypeOK
<1>13. CASE Edit \/ UNCHANGED vars
  BY <1>13, <1>4 DEF Edit, vars
<1> QED
  BY <1>6, <1>7, <1>8, <1>9, <1>10, <1>11, <1>12, <1>13 DEF Next, Step, Rest, Begins
-----------------------------------------------------------------------------
(***************************************************************************)
(* The theorems.                                                           *)
(***************************************************************************)
\* The invariant holds before the first call.
LEMMA InitDInv == Init => DInv
<1> SUFFICES ASSUME Init PROVE DInv
  OBVIOUS
<1>1. /\ pc = [r \in Runs |-> "idle"] /\ result = [r \in Runs |-> "none"]
      /\ build = [r \in Runs |-> "none"] /\ last = [i \in Indexes |-> 0]
  BY DEF Init
<1>2. Shape /\ Sole /\ OwnFile /\ OwnScript
  BY <1>1 DEF Shape, Sole, OwnFile, FileOf, OwnScript, Active
<1>3. Latest /\ OwnJars /\ CachedIsComplete /\ RaisesOnlyIfShared
  BY <1>1 DEF Latest, Active, OwnJars, JarsOf, CachedIsComplete, RaisesOnlyIfShared
<1> QED
  BY <1>2, <1>3, InitType DEF DInv

\* Every step keeps it.
LEMMA NextDInv == DInv /\ [Next]_vars => DInv'
<1> SUFFICES ASSUME DInv, [Next]_vars PROVE DInv'
  OBVIOUS
<1>1. TypeOK' /\ Shape' /\ Sole'
  BY TypeStep, ShapeStep, SoleStep DEF DInv
<1>2. OwnFile' /\ OwnScript' /\ Latest'
  BY FileStep, ScriptStep, LatestStep DEF DInv
<1>3. OwnJars' /\ CachedIsComplete' /\ RaisesOnlyIfShared'
  BY JarsStep, CompleteStep, RaisesStep DEF DInv
<1> QED
  BY <1>1, <1>2, <1>3 DEF DInv

\* So it holds of the calls and builds of every project.
LEMMA Invariant == Spec => []DInv
BY InitDInv, NextDInv, PTL DEF Spec

\* The calls of sync_dependencies, their builds and the table of dependencies
\* keep their types; only a call whose build has succeeded has jars in hand.
THEOREM DependencyTypes == Spec => []TypeOK
<1>1. DInv => TypeOK
  BY DEF DInv
<1> QED
  BY <1>1, Invariant, PTL

\* The jars a call of sync_dependencies goes through are a final part of what
\* its own build resolved, unless another build or another call met it:
\* whatever a build that failed, timed out or was left over has written.
THEOREM OwnBuild == Spec => []CachesItsOwnBuild
<1>1. DInv => CachesItsOwnBuild
  <2> SUFFICES ASSUME DInv, NEW r \in Runs, pc[r] = "cache", alone[r]
               PROVE  IsSuffix(todo[r], Jars(ver[r]))
    BY DEF CachesItsOwnBuild
  <2>1. PICK n \in 0..Len(Jars(ver[r])) : CachedTo(r, n)
    BY DEF DInv, OwnJars, JarsOf
  <2> QED
    BY <2>1 DEF CachedTo, IsSuffix
<1> QED
  BY <1>1, Invariant, PTL

\* After "dependencies cached" the table has all the jars of that build, until
\* the next call on the index, unless another build or another call met it.
THEOREM CompleteCache == Spec => []CachedIsComplete
<1>1. DInv => CachedIsComplete
  BY DEF DInv
<1> QED
  BY <1>1, Invariant, PTL

\* An error leaves sync_dependencies in three ways: the look at the project or
\* the removal of Gradle's script is refused, or the script is gone, which it is
\* only when another build or another call met this one.  A build's failure,
\* its hanging and what it leaves behind never end the sync.
THEOREM RaisesShared == Spec => []RaisesOnlyIfShared
<1>1. DInv => RaisesOnlyIfShared
  BY DEF DInv
<1> QED
  BY <1>1, Invariant, PTL
-----------------------------------------------------------------------------
(***************************************************************************)
(* What SyncGoesOn rests on: a call always has a next step, each of them   *)
(* brings it nearer its end, and no build and no other call sets it back.  *)
(***************************************************************************)
Left(step) ==
    CASE step = "wait" -> 6 [] step = "read" -> 5 [] step = "unlink" -> 4
      [] step = "cache" -> 3 [] step = "cleanup" -> 2 [] step = "remove" -> 1
      [] OTHER -> 0

Nearer(r) ==
    \/ Left(pc'[r]) < Left(pc[r])
    \/ Left(pc'[r]) = Left(pc[r]) /\ Len(todo'[r]) < Len(todo[r])

GoesOn(r) ==
    /\ Step(r) => Nearer(r)
    /\ Nearer(r) \/ UNCHANGED <<pc[r], todo[r]>>

\* The guards of the steps of a call, but for the failures.
HasStep(r) ==
    \/ pc[r] = "wait" /\ Alive(r)
    \/ pc[r] = "wait" /\ build[r] \in {"ok", "failed"}
    \/ pc[r] = "read" /\ cpBy = 0
    \/ /\ pc[r] = "read" /\ cpBy # 0
       /\ \E n \in 0..Len(Jars(ver[cpBy])) :
            cpWhole => SubSeq(Jars(ver[cpBy]), 1, n) = Jars(ver[cpBy])
    \/ pc[r] \in {"unlink", "cache", "cleanup", "remove"}

NeverStuck == \A r \in Runs : Active(r) => HasStep(r)

\* A call that waits has started a build.
Started == \A r \in Runs : pc[r] = "wait" => build[r] # "none"

\* Every step keeps it.
LEMMA StartedStep == TypeOK /\ Started /\ [Next]_vars => Started'
<1> SUFFICES ASSUME TypeOK, Started, [Next]_vars PROVE Started'
  OBVIOUS
<1>1. ASSUME NEW r \in Runs, Start(r) \/ Resolve(r) \/ Succeed(r) \/ Break(r)
      PROVE  Started'
  BY <1>1 DEF Start, Resolve, Succeed, Break, Alive, Goto, TypeOK, Started
<1>2. ASSUME NEW r \in Runs, Step(r) \/ Stop(r) \/ StartFails(r) \/ ProjectRefused(r)
      PROVE  Started'
  <2>1. build' = build /\ pc'[r] # "wait" /\ \A q \in Runs \ {r} : pc'[q] = pc[q]
    <3>1. ASSUME NEW how, Finish(r, how) PROVE pc'[r] # "wait"
                                               /\ \A q \in Runs \ {r} : pc'[q] = pc[q]
      BY <3>1 DEF Finish, Goto, TypeOK
    <3>2. CASE Step(r)
      BY <3>1, <3>2 DEF Step, Timeout, Exited, ReadFile, Unlink, FileFails, CacheJar,
                CacheFails, Cached, Cleanup, RemoveScript, ScriptRefused, Refuse, Goto, TypeOK
    <3>3. CASE Stop(r) \/ StartFails(r) \/ ProjectRefused(r)
      BY <3>1, <3>3 DEF Stop, StartFails, ProjectRefused, Refuse, Goto, TypeOK
    <3> QED
      BY <1>2, <3>2, <3>3
  <2> QED
    BY <2>1 DEF Started
<1>3. CASE Edit \/ UNCHANGED vars
  BY <1>3 DEF Edit, vars, Started
<1> QED
  BY <1>1, <1>2, <1>3 DEF Next, Rest

\* The end of the wait, of the reading or of the caching is nearer the end.
LEMMA FinishNearer ==
  ASSUME TypeOK, NEW r \in Runs, NEW how, Finish(r, how),
         pc[r] \in {"wait", "read", "unlink", "cache"}
  PROVE  Nearer(r)
<1>1. pc'[r] \in {"cleanup", "done"}
  BY DEF Finish, Goto, TypeOK
<1> QED
  BY <1>1 DEF Nearer, Left

\* Each step of a call is nearer its end.
LEMMA StepNearer ==
  ASSUME TypeOK, NEW r \in Runs, Step(r)
  PROVE  Nearer(r)
<1>1. ASSUME NEW how, Finish(r, how), pc[r] \in {"wait", "read", "unlink", "cache"}
      PROVE  Nearer(r)
  BY <1>1, FinishNearer
<1>2. CASE Timeout(r) \/ FileFails(r) \/ CacheFails(r) \/ Cached(r)
  BY <1>1, <1>2 DEF Timeout, FileFails, CacheFails, Cached
<1>3. CASE Exited(r)
  <2>1. pc[r] = "wait" /\ pc'[r] \in {"read", "cache", "cleanup", "done"}
    BY <1>3, ExitedStep
  <2> QED
    BY <2>1 DEF Nearer, Left
<1>4. CASE ReadFile(r)
  <2>1. pc[r] = "read" /\ pc'[r] \in {"unlink", "cleanup", "done"}
    BY <1>4, ReadFileStep
  <2> QED
    BY <2>1 DEF Nearer, Left
<1>5. CASE Unlink(r)
  <2>1. pc[r] = "unlink" /\ pc'[r] \in {"cache", "cleanup", "done"}
    BY <1>5, UnlinkStep
  <2> QED
    BY <2>1 DEF Nearer, Left
<1>6. CASE CacheJar(r)
  <2>1. CASE Head(todo[r])[1] \in Odd
    BY <1>1, <1>6, <2>1 DEF CacheJar
  <2>2. CASE Head(todo[r])[1] \notin Odd
    <3>1. todo[r] # <<>> /\ todo[r] \in Seq(Libs \X Versions)
          /\ todo'[r] = Tail(todo[r]) /\ pc' = pc
      BY <1>6, <2>2 DEF CacheJar, TypeOK
    <3>2. Len(todo'[r]) < Len(todo[r])
      BY <3>1
    <3> QED
      BY <3>1, <3>2 DEF Nearer
  <2> QED
    BY <2>1, <2>2
<1>7. CASE Cleanup(r) \/ RemoveScript(r) \/ ScriptRefused(r)
  <2>1. \/ pc[r] = "cleanup" /\ pc'[r] \in {"remove", "done"}
        \/ pc[r] = "remove" /\ pc'[r] = "done"
    BY <1>7 DEF Cleanup, RemoveScript, ScriptRefused, Refuse, Goto, TypeOK
  <2> QED
    BY <2>1 DEF Nearer, Left
<1> QED
  BY <1>2, <1>3, <1>4, <1>5, <1>6, <1>7 DEF Step

\* A step of somebody else, or of a build, leaves a call where it is.
LEMMA OthersLeave ==
  ASSUME TypeOK, NEW r \in Runs, NEW q \in Runs \ {r}, Step(q) \/ Begins(q) \/ Stop(q)
  PROVE  UNCHANGED <<pc[r], todo[r]>>
BY DEF Step, Timeout, Exited, ReadFile, Unlink, FileFails, CacheJar, CacheFails, Cached,
       Cleanup, RemoveScript, ScriptRefused, Begins, Start, StartFails, ProjectRefused,
       Refuse, Stop, Finish, Goto, TypeOK

\* From its start to its end a call has a step to take, whatever its build and
\* the other calls do: none of them waits for a build without a timeout.
THEOREM CallHasStep == Spec => []NeverStuck
<1>1. TypeOK /\ Started => NeverStuck
  <2> SUFFICES ASSUME TypeOK, Started, NEW r \in Runs, Active(r) PROVE HasStep(r)
    BY DEF NeverStuck
  <2>1. CASE pc[r] = "read" /\ cpBy # 0
    <3>1. ver[cpBy] \in Versions
      BY <2>1 DEF TypeOK
    <3>2. Jars(ver[cpBy]) \in Seq(Libs \X Versions)
      BY <3>1, JarsType
    <3>3. Len(Jars(ver[cpBy])) \in 0..Len(Jars(ver[cpBy]))
          /\ SubSeq(Jars(ver[cpBy]), 1, Len(Jars(ver[cpBy]))) = Jars(ver[cpBy])
      BY <3>2
    <3> QED
      BY <2>1, <3>3 DEF HasStep
  <2>2. CASE pc[r] # "read" \/ cpBy = 0
    BY <2>2 DEF Active, Started, Alive, HasStep, TypeOK
  <2> QED
    BY <2>1, <2>2
<1>2. Init => Started
  BY DEF Init, Started
<1>3. DInv => TypeOK
  BY DEF DInv
<1> QED
  BY <1>1, <1>2, <1>3, StartedStep, Invariant, PTL DEF Spec

\* Every step of a call brings it nearer its end, and nothing else that
\* happens sets it back: after finitely many it is over.
THEOREM CallGoesOn == Spec => [][\A r \in Runs : Active(r) => GoesOn(r)]_vars
<1>1. ASSUME TypeOK, Next, NEW r \in Runs, Active(r)
      PROVE  GoesOn(r)
  <2>1. Step(r) => Nearer(r)
    BY <1>1, StepNearer
  <2>2. CASE Step(r)
    BY <2>1, <2>2 DEF GoesOn
  <2>3. ASSUME ~Step(r) PROVE Nearer(r) \/ UNCHANGED <<pc[r], todo[r]>>
    <3>1. CASE Begins(r)
      BY <1>1, <3>1 DEF Begins, Start, StartFails, ProjectRefused, Call, Active
    <3>2. CASE Stop(r)
      <4>1. Active(r) /\ pc'[r] = "done" /\ Left(pc'[r]) = 0
        BY <1>1, <3>2 DEF Stop, Goto, TypeOK, Left
      <4>2. Left(pc[r]) > 0
        BY <1>1 DEF Active, TypeOK, Left
      <4> QED
        BY <4>1, <4>2 DEF Nearer
    <3>3. ASSUME NEW q \in Runs, Resolve(q) \/ Succeed(q) \/ Break(q)
          PROVE  UNCHANGED <<pc[r], todo[r]>>
      BY <3>3 DEF Resolve, Succeed, Break
    <3>4. CASE Edit \/ Rest
      BY <3>4 DEF Edit, Rest, vars
    <3>5. ASSUME NEW q \in Runs \ {r}, Step(q) \/ Begins(q) \/ Stop(q)
          PROVE  UNCHANGED <<pc[r], todo[r]>>
      BY <1>1, <3>5, OthersLeave
    <3> QED
      BY <1>1, <2>3, <3>1, <3>2, <3>3, <3>4, <3>5 DEF Next, Begins
  <2> QED
    BY <2>1, <2>2, <2>3 DEF GoesOn
<1>2. TypeOK /\ [Next]_vars => [\A r \in Runs : Active(r) => GoesOn(r)]_vars
  BY <1>1
<1>3. DInv => TypeOK
  BY DEF DInv
<1> QED
  BY <1>2, <1>3, Invariant, PTL DEF Spec
=============================================================================
