--------------------------- MODULE ApiWalk_proofs ---------------------------
(***************************************************************************)
(* Proofs about ApiWalk, for any library, any entry points, any depth and  *)
(* as many failures as one likes.                                          *)
(***************************************************************************)
EXTENDS ApiWalk, SequenceTheorems, WellFoundedInduction, TLAPS

(***************************************************************************)
(* The inductive invariant.  Depth is where a call is on the stack; what   *)
(* a path's links lead to has been visited or is still to be followed.     *)
(***************************************************************************)
Calls == [path : Paths, rest : SUBSET Paths]

Types ==
    /\ TypeOK
    /\ links \in [Paths -> SUBSET Paths]
    /\ stack \in Seq(Calls) /\ results \in Seq(Paths)

\* A call is at its depth on the stack, and no call is deeper than MaxDepth.
Depths ==
    /\ \A i \in 1..Len(stack) : depthOf[stack[i].path] = i - 1
    /\ \A f \in visited : depthOf[f] <= MaxDepth

\* Some call in progress has still to follow f's link to g.
ToFollow(f, g) ==
    \E i \in 1..Len(stack) : stack[i].path = f /\ g \in stack[i].rest

\* Entry points are visited when they are started; the links of a path above
\* the last depth, in which nothing failed, are visited or will be.
Followed ==
    /\ \A i \in 1..started : entries[i] \in visited
    /\ \A f \in visited \ cut : depthOf[f] < MaxDepth =>
         \A g \in links[f] : g \in visited \/ ToFollow(f, g)

WInv == Types /\ Depths /\ Followed
-----------------------------------------------------------------------------
(***************************************************************************)
(* The stack.                                                              *)
(***************************************************************************)
\* The call on top is one of a visited path, and the least of its links is
\* one of them.
LEMMA TopCall ==
  ASSUME Types, Running
  PROVE  /\ Len(stack) \in Nat \ {0} /\ Top = stack[Len(stack)]
         /\ Top \in Calls /\ Top.path \in visited /\ Top.rest \subseteq links[Top.path]
         /\ Returned \in Seq(Calls) /\ Len(Returned) = Len(stack) - 1
         /\ \A i \in 1..Len(Returned) : Returned[i] = stack[i]
<1>1. Len(stack) \in Nat \ {0} /\ stack[Len(stack)] \in Calls
  BY DEF Types, Running
<1>2. Top.path \in visited /\ Top.rest \subseteq links[Top.path]
  BY <1>1 DEF Types, TypeOK, Top
<1>3. /\ Returned \in Seq(Calls) /\ Len(Returned) = Len(stack) - 1
      /\ \A i \in 1..Len(Returned) : Returned[i] = stack[i]
  <2>1. Len(stack) - 1 \in Nat /\ 1 \in Int
    BY <1>1
  <2>2. \A i \in 1..(Len(stack) - 1) : stack[i] \in Calls
    BY <1>1 DEF Types
  <2>3. PICK n \in Nat : n = Len(stack) - 1 /\ \A i \in 1..n : stack[i] \in Calls
    BY <2>1, <2>2
  <2>4. /\ SubSeq(stack, 1, n) \in Seq(Calls)
        /\ Len(SubSeq(stack, 1, n)) = IF 1 <= n THEN n - 1 + 1 ELSE 0
        /\ \A i \in 1..(n - 1 + 1) : SubSeq(stack, 1, n)[i] = stack[1 + i - 1]
    BY <2>3, SubSeqProperties
  <2>5. Returned = SubSeq(stack, 1, n) /\ Len(stack) = n + 1
    BY <1>1, <2>3 DEF Returned
  <2>6. (IF 1 <= n THEN n - 1 + 1 ELSE 0) = n /\ n - 1 + 1 = n
    BY <2>3
  <2>7. \A i \in 1..n : 1 + i - 1 = i
    OBVIOUS
  <2>8. Returned \in Seq(Calls) /\ Len(Returned) = n
    BY <2>4, <2>5, <2>6
  <2>9. \A i \in 1..n : Returned[i] = stack[i]
    BY <2>4, <2>5, <2>6, <2>7
  <2> QED
    BY <2>3, <2>8, <2>9
<1> QED
  BY <1>1, <1>2, <1>3 DEF Top

\* A link to follow is one of those that are left.
LEMMA FirstLink ==
  ASSUME NEW s \in SUBSET Paths, s # {}
  PROVE  First(s) \in s
<1>1. s \subseteq Nat
  BY DEF Paths
<1>2. PICK f \in s : \A g \in s : <<g, f>> \notin OpToRel(<, Nat)
  BY <1>1, WFMin, NatLessThanWellFounded, Zenon
<1>3. \A g \in s : ~ (g < f)
  BY <1>1, <1>2, Zenon DEF OpToRel
<1>4. \A g \in s : f <= g
  BY <1>1, <1>3
<1> QED
  BY <1>4 DEF First

\* Another call on the stack is the last, the others are as before.
LEMMA Pushed ==
  ASSUME NEW s \in Seq(Calls), NEW f \in Paths, NEW r \in SUBSET Paths
  PROVE  LET t == Append(s, Frame(f, r))
         IN  /\ t \in Seq(Calls) /\ Len(t) = Len(s) + 1
             /\ \A i \in 1..Len(s) : t[i] = s[i]
             /\ t[Len(s) + 1].path = f /\ t[Len(s) + 1].rest = r
BY DEF Frame, Calls

\* What is asked of the stack that a call is made from.
Sound(callers) ==
    /\ callers \in Seq(Calls)
    /\ \A i \in 1..Len(callers) :
        /\ callers[i].path \in visited /\ depthOf[callers[i].path] = i - 1
        /\ callers[i].rest \subseteq links[callers[i].path]

\* f's links are all still to follow, or it failed.
Fresh(f) == f \notin cut => \A g \in links[f] : ToFollow(f, g)

\* A call leaves its callers as they are.  It visits its path unless that is
\* too deep or has been visited; then all its links are to follow.
LEMMA CallStep ==
  ASSUME Types, Depths, NEW f \in Paths, NEW callers, Sound(callers),
         Call(f, Len(callers), callers), UNCHANGED library,
         started' \in 0..Len(entries)
  PROVE  /\ Types' /\ Depths'
         /\ \A i \in 1..Len(callers) : i \in 1..Len(stack') /\ stack'[i] = callers[i]
         /\ visited \subseteq visited' /\ cut \subseteq cut'
         /\ \A g \in visited : depthOf'[g] = depthOf[g]
         /\ \A g \in visited' \ visited : Fresh(g)'
         /\ f \in visited' \/ TooDeep(Len(callers))
<1>0. Len(callers) \in Nat /\ MaxDepth \in Nat
  BY WalkAssumption DEF Sound
<1>1. CASE TooDeep(Len(callers)) \/ f \in visited
  <2>1. stack' = callers /\ UNCHANGED <<visited, results, depthOf, cut, library>>
    BY <1>1 DEF Call
  <2>2. Types'
    BY <2>1 DEF Types, TypeOK, Sound, library
  <2>3. Depths'
    BY <2>1 DEF Depths, Sound
  <2> QED
    BY <1>0, <1>1, <2>1, <2>2, <2>3
<1>2. CASE ~ (TooDeep(Len(callers)) \/ f \in visited)
  <2>1. PICK parsed \in BOOLEAN :
          /\ visited' = visited \cup {f}
          /\ stack' = Append(callers, Frame(f, IF parsed THEN links[f] ELSE {}))
          /\ results' = IF parsed THEN Append(results, f) ELSE results
          /\ cut' = IF parsed THEN cut ELSE cut \cup {f}
          /\ depthOf' = [depthOf EXCEPT ![f] = Len(callers)]
    BY <1>2 DEF Call, Enter
  <2>2. /\ f \notin visited /\ Len(callers) <= MaxDepth
        /\ links' = links /\ entries' = entries
    BY <1>0, <1>2 DEF TooDeep, library
  <2>3. /\ stack' \in Seq(Calls) /\ Len(stack') = Len(callers) + 1
        /\ \A i \in 1..Len(callers) : stack'[i] = callers[i]
        /\ stack'[Len(callers) + 1].path = f
        /\ stack'[Len(callers) + 1].rest = IF parsed THEN links[f] ELSE {}
    <3>1. (IF parsed THEN links[f] ELSE {}) \in SUBSET Paths
      BY DEF Types
    <3> QED
      BY <2>1, <3>1, Pushed DEF Sound
  <2>4. /\ \A g \in visited : g \in Paths /\ g # f /\ depthOf'[g] = depthOf[g]
        /\ depthOf'[f] = Len(callers) /\ depthOf' \in [Paths -> Nat]
    BY <1>0, <2>1, <2>2 DEF Types, TypeOK
  <2>5. \A i \in 1..Len(stack') :
          /\ stack'[i].path \in visited' /\ depthOf'[stack'[i].path] = i - 1
          /\ stack'[i].rest \subseteq links[stack'[i].path]
    <3> TAKE i \in 1..Len(stack')
    <3>1. CASE i \in 1..Len(callers)
      BY <3>1, <2>1, <2>3, <2>4 DEF Sound
    <3>2. CASE i = Len(callers) + 1
      BY <1>0, <3>2, <2>1, <2>3, <2>4
    <3> QED
      BY <1>0, <2>3, <3>1, <3>2
  <2>6. results' \in Seq(Paths) /\ \A i, j \in 1..Len(results') :
          results'[i] \in visited' /\ (results'[i] = results'[j] => i = j)
    <3>1. /\ results \in Seq(Paths) /\ Len(results) \in Nat
          /\ \A i, j \in 1..Len(results) :
                results[i] \in visited /\ (results[i] = results[j] => i = j)
      BY DEF Types, TypeOK
    <3>2. CASE parsed
      <4>1. /\ results' \in Seq(Paths) /\ Len(results') = Len(results) + 1
            /\ \A i \in 1..Len(results) : results'[i] = results[i]
            /\ results'[Len(results) + 1] = f
        BY <2>1, <3>1, <3>2
      <4>2. \A i \in 1..Len(results') : i \in 1..Len(results) \/ i = Len(results) + 1
        BY <3>1, <4>1
      <4> QED
        BY <2>1, <2>2, <3>1, <4>1, <4>2
    <3>3. CASE ~parsed
      BY <2>1, <3>1, <3>3
    <3> QED
      BY <3>2, <3>3
  <2>7. Types'
    <3>1. visited' \subseteq Paths /\ cut' \subseteq visited'
      BY <2>1 DEF Types, TypeOK
    <3>2. entries' \in Seq(Paths) /\ links' \in [Paths -> SUBSET Paths]
      BY <2>2 DEF Types, TypeOK
    <3>3. \A i \in 1..Len(stack') : /\ stack'[i].path \in visited'
                                   /\ stack'[i].rest \subseteq links'[stack'[i].path]
      BY <2>2, <2>5
    <3>4. started' \in 0..Len(entries')
      BY <2>2
    <3>5. TypeOK'
      BY <2>4, <2>6, <3>1, <3>2, <3>3, <3>4, Zenon DEF TypeOK
    <3> QED
      BY <2>3, <2>6, <3>2, <3>5 DEF Types
  <2>8. Depths'
    BY <1>0, <2>1, <2>2, <2>4, <2>5 DEF Depths
  <2>9. Fresh(f)'
    <3> SUFFICES ASSUME f \notin cut', NEW g \in links[f]
                 PROVE  ToFollow(f, g)'
      BY <2>2 DEF Fresh
    <3>1. stack'[Len(callers) + 1].rest = links[f]
      BY <2>1, <2>3
    <3> QED
      BY <1>0, <2>3, <3>1 DEF ToFollow
  <2> QED
    BY <1>0, <2>1, <2>3, <2>4, <2>7, <2>8, <2>9
<1> QED
  BY <1>1, <1>2
-----------------------------------------------------------------------------
(***************************************************************************)
(* Every step.                                                             *)
(***************************************************************************)
\* At the start nothing has been visited.
LEMMA InitWInv == Init => WInv
<1> SUFFICES ASSUME Init PROVE WInv
  OBVIOUS
<1>1. entries \in Seq(Paths) /\ Len(entries) \in Nat
  BY WalkAssumption DEF Init
<1>2. Types
  BY <1>1 DEF Init, Types, TypeOK
<1> QED
  BY <1>2 DEF Init, WInv, Depths, Followed

\* An entry point is called at depth 0, which is never too deep.
LEMMA StartStep == WInv /\ Start => WInv'
<1> SUFFICES ASSUME WInv, Start PROVE WInv'
  OBVIOUS
<1>0. Types /\ Depths /\ Followed /\ MaxDepth \in Nat /\ stack = <<>>
  BY WalkAssumption DEF WInv, Start, Running
<1> DEFINE f == entries[started + 1]
<1>1. /\ started' = started + 1 /\ started \in Nat /\ started + 1 \in 1..Len(entries)
      /\ started' \in 0..Len(entries)
      /\ f \in Paths /\ Call(f, 0, <<>>) /\ UNCHANGED library
  BY <1>0 DEF Start, Types, TypeOK, library
<1>2. Sound(<<>>) /\ Len(<<>>) = 0 /\ ~ TooDeep(0)
  BY <1>0 DEF Sound, TooDeep
<1> HIDE DEF f
<1>3. /\ Types' /\ Depths' /\ visited \subseteq visited' /\ cut \subseteq cut'
      /\ \A g \in visited : depthOf'[g] = depthOf[g]
      /\ \A g \in visited' \ visited : Fresh(g)'
      /\ f \in visited'
  BY <1>0, <1>1, <1>2, CallStep
<1>4. \A i \in 1..started' : entries'[i] \in visited'
  BY <1>0, <1>1, <1>3 DEF Followed, library, f
<1>5. \A h \in Paths, g \in Paths : ~ ToFollow(h, g)
  BY <1>0 DEF ToFollow
<1>6. ASSUME NEW h \in visited' \ cut', depthOf'[h] < MaxDepth, NEW g \in links'[h]
      PROVE  g \in visited' \/ ToFollow(h, g)'
  <2>1. links' = links /\ h \in Paths /\ g \in Paths
    BY <1>1, <1>3, <1>6 DEF library, Types, TypeOK
  <2>2. CASE h \in visited
    BY <1>0, <1>3, <1>5, <1>6, <2>1, <2>2 DEF Followed
  <2>3. CASE h \notin visited
    BY <1>3, <1>6, <2>3 DEF Fresh
  <2> QED
    BY <2>2, <2>3
<1> QED
  BY <1>3, <1>4, <1>6 DEF WInv, Followed

\* A link is followed one deeper than its path; at the last depth it may be
\* given up.
LEMMA FollowStep == WInv /\ Follow => WInv'
<1> SUFFICES ASSUME WInv, Follow PROVE WInv'
  OBVIOUS
<1>0. Types /\ Depths /\ Followed /\ MaxDepth \in Nat /\ Running /\ Top.rest # {}
  BY WalkAssumption DEF WInv, Follow
<1> DEFINE f == First(Top.rest)
           n == Len(stack)
           callers == Append(Returned, Frame(Top.path, Top.rest \ {f}))
<1>1. /\ n \in Nat \ {0} /\ Top = stack[n] /\ Top \in Calls
      /\ Top.path \in visited /\ Top.path \in Paths /\ Top.rest \subseteq links[Top.path]
      /\ Returned \in Seq(Calls) /\ Len(Returned) = n - 1
      /\ \A i \in 1..Len(Returned) : Returned[i] = stack[i]
  BY <1>0, TopCall DEF Calls
<1>2. f \in Top.rest /\ f \in Paths /\ Top.rest \in SUBSET Paths
  BY <1>0, <1>1, FirstLink DEF Calls
<1>3. /\ Call(f, n, callers) /\ UNCHANGED <<library, started>>
  BY DEF Follow
<1> HIDE DEF f
<1>4. /\ callers \in Seq(Calls) /\ Len(callers) = n
      /\ \A i \in 1..(n - 1) : callers[i] = stack[i]
      /\ callers[n].path = Top.path /\ callers[n].rest = Top.rest \ {f}
  BY <1>1, <1>2, Pushed
<1> HIDE DEF n, callers
<1>5. \A i \in 1..n : /\ callers[i].path = stack[i].path
                      /\ callers[i].rest \subseteq stack[i].rest
                      /\ stack[i].rest \ {f} \subseteq callers[i].rest
                      /\ i # n => callers[i].rest = stack[i].rest
  BY <1>1, <1>4
<1>6. Sound(callers)
  BY <1>0, <1>1, <1>4, <1>5 DEF Sound, Types, TypeOK, Depths, n
<1>7. started' \in 0..Len(entries) /\ UNCHANGED library
  BY <1>0, <1>3 DEF Types, TypeOK
<1>8. /\ Types' /\ Depths' /\ visited \subseteq visited' /\ cut \subseteq cut'
      /\ \A i \in 1..n : i \in 1..Len(stack') /\ stack'[i] = callers[i]
      /\ \A g \in visited : depthOf'[g] = depthOf[g]
      /\ \A g \in visited' \ visited : Fresh(g)'
      /\ f \in visited' \/ TooDeep(n)
  BY <1>0, <1>2, <1>3, <1>4, <1>6, <1>7, CallStep
<1>9. \A i \in 1..started' : entries'[i] \in visited'
  BY <1>0, <1>3, <1>8 DEF Followed, library
<1>10. ASSUME NEW h \in visited' \ cut', depthOf'[h] < MaxDepth, NEW g \in links'[h]
       PROVE  g \in visited' \/ ToFollow(h, g)'
  <2>1. links' = links /\ h \in Paths /\ g \in Paths
    BY <1>7, <1>8, <1>10 DEF library, Types, TypeOK
  <2>2. CASE h \notin visited
    BY <1>8, <1>10, <2>2 DEF Fresh
  <2>3. CASE h \in visited /\ g \notin visited
    <3>1. ToFollow(h, g)
      BY <1>0, <1>8, <1>10, <2>1, <2>3 DEF Followed
    <3>2. PICK i \in 1..n : stack[i].path = h /\ g \in stack[i].rest
      BY <3>1 DEF ToFollow, n
    <3>3. CASE g \in callers[i].rest
      BY <1>5, <1>8, <3>2, <3>3 DEF ToFollow
    <3>4. CASE g \notin callers[i].rest
      <4>1. g = f /\ i = n
        BY <1>5, <3>2, <3>4
      <4>2. depthOf'[h] = n - 1
        BY <1>0, <1>8, <2>3, <3>2, <4>1 DEF Depths, n
      <4>3. ~ TooDeep(n)
        BY <1>0, <1>1, <1>10, <4>2 DEF TooDeep
      <4> QED
        BY <1>8, <4>1, <4>3
    <3> QED
      BY <3>3, <3>4
  <2> QED
    BY <1>8, <2>2, <2>3
<1> QED
  BY <1>8, <1>9, <1>10 DEF WInv, Followed

\* A call returns when its links are followed, or it failed; the others stay.
LEMMA ReturnStep == WInv /\ (Return \/ FollowFails) => WInv'
<1> SUFFICES ASSUME WInv, Return \/ FollowFails PROVE WInv'
  OBVIOUS
<1>0. Types /\ Depths /\ Followed /\ MaxDepth \in Nat /\ Running
  BY WalkAssumption DEF WInv, Return, FollowFails
<1>1. /\ Len(stack) \in Nat \ {0} /\ Top = stack[Len(stack)] /\ Top.path \in visited
      /\ Returned \in Seq(Calls) /\ Len(Returned) = Len(stack) - 1
      /\ \A i \in 1..Len(Returned) : Returned[i] = stack[i]
  BY <1>0, TopCall
<1>2. /\ stack' = Returned /\ UNCHANGED <<links, entries, started, visited, results, depthOf>>
      /\ \/ cut' = cut /\ Top.rest = {}
         \/ cut' = cut \cup {Top.path}
  BY DEF Return, FollowFails, library
<1>3. \A i \in 1..Len(stack') : i \in 1..Len(stack) /\ stack'[i] = stack[i]
  BY <1>1, <1>2
<1>4. Types'
  BY <1>0, <1>1, <1>2, <1>3 DEF Types, TypeOK
<1>5. Depths'
  BY <1>0, <1>2, <1>3 DEF Depths
<1>6. ASSUME NEW h \in visited \ cut', depthOf[h] < MaxDepth, NEW g \in links[h],
             g \notin visited
      PROVE  ToFollow(h, g)'
  <2>1. PICK i \in 1..Len(stack) : stack[i].path = h /\ g \in stack[i].rest
    BY <1>0, <1>2, <1>6 DEF Followed, ToFollow
  <2>2. i # Len(stack)
    BY <1>1, <1>2, <1>6, <2>1
  <2> QED
    BY <1>1, <1>2, <2>1, <2>2 DEF ToFollow
<1> QED
  BY <1>0, <1>2, <1>4, <1>5, <1>6 DEF WInv, Followed

\* So every step keeps the invariant.
LEMMA NextWInv == WInv /\ [Next]_vars => WInv'
<1>1. ASSUME WInv, UNCHANGED vars PROVE WInv'
  <2>1. UNCHANGED <<links, entries, started, stack, visited, results, depthOf, cut>>
    BY <1>1 DEF vars, library
  <2>2. Types' /\ Depths'
    BY <1>1, <2>1 DEF WInv, Types, TypeOK, Depths
  <2>3. Followed'
    BY <1>1, <2>1 DEF WInv, Followed, ToFollow
  <2> QED
    BY <2>2, <2>3 DEF WInv
<1> QED
  BY <1>1, StartStep, FollowStep, ReturnStep DEF Next, Report

\* So it holds of every walk.
LEMMA Invariant == Spec => []WInv
BY InitWInv, NextWInv, PTL DEF Spec

\* Calls in progress and results are of visited paths, and no path is reported
\* twice, whatever cycles and diamonds the library has and whatever fails.  (A
\* file that has two paths can be in the report under both.)
THEOREM WalkTypes == Spec => []TypeOK
<1>1. WInv => TypeOK
  BY DEF WInv, Types
<1> QED
  BY <1>1, Invariant, PTL

\* On a way that starts at a visited path and ends at another, some path is
\* the last visited one before the first that is not.
LEMMA Border ==
  ASSUME NEW n \in Nat, NEW p \in [1..n -> Paths], n >= 1,
         p[1] \in visited, p[n] \notin visited
  PROVE  \E i \in 1..(n - 1) : p[i] \in visited /\ p[i + 1] \notin visited
<1> DEFINE T == {i \in 1..n : p[i] \notin visited}
<1>1. T \subseteq Nat /\ T # {}
  OBVIOUS
<1> HIDE DEF T
<1>2. PICK m \in T : \A k \in T : <<k, m>> \notin OpToRel(<, Nat)
  BY <1>1, WFMin, NatLessThanWellFounded, Zenon
<1>3. \A k \in T : ~ (k < m)
  BY <1>1, <1>2, Zenon DEF OpToRel
<1>4. m \in 1..n /\ p[m] \notin visited /\ m # 1
  BY <1>2 DEF T
<1>5. m - 1 \in 1..(n - 1) /\ m - 1 \in 1..n /\ m - 1 < m /\ (m - 1) + 1 = m
  BY <1>4
<1>6. p[m - 1] \in visited
  BY <1>3, <1>5 DEF T
<1> QED
  BY <1>4, <1>5, <1>6

\* Whatever the library, the entry points, the depth and the failures: what is
\* within reach and not in the report is behind a path that the walk met first
\* by a detour.
THEOREM OnlyDetours == Spec => []MissingOnlyByDetour
<1>1. ASSUME WInv PROVE MissingOnlyByDetour
  <2> SUFFICES ASSUME Done, NEW n \in 1..(MaxDepth + 1), NEW p \in [1..n -> Paths],
                      Way(p), p[n] \notin visited
               PROVE  \E i \in 1..(n - 1) : p[i] \in visited /\ depthOf[p[i]] = MaxDepth
    BY DEF MissingOnlyByDetour
  <2>0. MaxDepth \in Nat /\ n \in Nat /\ n >= 1 /\ Len(p) = n
    BY WalkAssumption
  <2>1. Types /\ Depths /\ Followed /\ stack = <<>> /\ started = Len(entries)
    BY <1>1 DEF WInv, Done, Running
  <2>2. p[1] \in visited
    BY <2>0, <2>1 DEF Way, Followed
  <2>3. PICK i \in 1..(n - 1) : p[i] \in visited /\ p[i + 1] \notin visited
    BY <2>0, <2>2, Border
  <2>4. p[i] \notin cut /\ p[i + 1] \in links[p[i]]
    BY <2>0 DEF Way
  <2>5. ~ ToFollow(p[i], p[i + 1])
    BY <2>1 DEF ToFollow
  <2>6. ~ (depthOf[p[i]] < MaxDepth)
    BY <2>1, <2>3, <2>4, <2>5 DEF Followed
  <2>7. depthOf[p[i]] \in Nat /\ depthOf[p[i]] <= MaxDepth
    BY <2>1, <2>3 DEF Types, TypeOK, Depths
  <2> QED
    BY <2>0, <2>3, <2>6, <2>7
<1> QED
  BY <1>1, Invariant, PTL
-----------------------------------------------------------------------------
(***************************************************************************)
(* The walk ends.                                                          *)
(***************************************************************************)
\* The links that calls in progress have still to follow.
LinksLeft == {l \in (1..Len(stack)) \X Paths : l[2] \in stack[l[1]].rest}

\* Every step takes the walk nearer to its end: it starts an entry point, of
\* which there are finitely many; or visits another path of the library; or
\* has a link less to follow; or ends a call.
Advances ==
    \/ started' = started + 1 /\ started' <= Len(entries)
    \/ /\ started' = started
       /\ \/ visited \subseteq visited' /\ visited' # visited
          \/ /\ visited' = visited
             /\ \/ LinksLeft' \subseteq LinksLeft /\ LinksLeft' # LinksLeft
                \/ LinksLeft' = LinksLeft /\ Len(stack') < Len(stack)

\* The Python stack is as deep as the code says: a call for an entry point and
\* MaxDepth below it, whatever cycles there are.
RecursionBounded == Len(stack) <= MaxDepth + 1

\* No call is deeper than max_depth, so the recursion is bounded for every
\* library, however long its chains of exports.
THEOREM BoundedRecursion == Spec => []RecursionBounded
<1>1. ASSUME WInv PROVE RecursionBounded
  <2>1. Len(stack) \in Nat /\ MaxDepth \in Nat
    BY <1>1, WalkAssumption DEF WInv, Types
  <2>2. CASE Len(stack) = 0
    BY <2>1, <2>2 DEF RecursionBounded
  <2>3. CASE Len(stack) # 0
    <3>1. PICK n \in 1..Len(stack) : n = Len(stack)
      BY <2>1, <2>3
    <3>2. stack[n].path \in visited /\ depthOf[stack[n].path] = n - 1
      BY <1>1 DEF WInv, Types, TypeOK, Depths
    <3>3. n - 1 <= MaxDepth
      BY <1>1, <3>2 DEF WInv, Depths
    <3> QED
      BY <2>1, <3>1, <3>3 DEF RecursionBounded
  <2> QED
    BY <2>2, <2>3
<1> QED
  BY <1>1, Invariant, PTL

\* What a call leaves to follow is as before, but for the path it visits.
LEMMA CallVisits ==
  ASSUME NEW f \in Paths, NEW depth, NEW callers, Call(f, depth, callers)
  PROVE  \/ visited \subseteq visited' /\ visited' # visited
         \/ visited' = visited /\ stack' = callers
BY DEF Call, Enter

\* A link that is followed is not left, and nothing is added to what is left
\* unless a path is visited.
LEMMA FollowAdvances == WInv /\ Follow => Advances
<1> SUFFICES ASSUME WInv, Follow PROVE Advances
  OBVIOUS
<1>0. Types /\ Running /\ Top.rest # {}
  BY DEF WInv, Follow
<1> DEFINE f == First(Top.rest)
           n == Len(stack)
           callers == Append(Returned, Frame(Top.path, Top.rest \ {f}))
<1>1. /\ n \in Nat \ {0} /\ Top = stack[n] /\ Top \in Calls /\ Top.path \in Paths
      /\ Returned \in Seq(Calls) /\ Len(Returned) = n - 1
      /\ \A i \in 1..Len(Returned) : Returned[i] = stack[i]
  BY <1>0, TopCall DEF Calls
<1>2. f \in Top.rest /\ f \in Paths /\ Top.rest \in SUBSET Paths
  BY <1>0, <1>1, FirstLink DEF Calls
<1>3. Call(f, n, callers) /\ started' = started
  BY DEF Follow
<1> HIDE DEF f
<1>4. /\ callers \in Seq(Calls) /\ Len(callers) = n
      /\ \A i \in 1..(n - 1) : callers[i] = stack[i]
      /\ callers[n].rest = Top.rest \ {f}
  BY <1>1, <1>2, Pushed
<1> HIDE DEF n, callers
<1>5. CASE visited' = visited /\ stack' = callers
  <2>1. ASSUME NEW i \in 1..n
        PROVE  callers[i].rest = IF i = n THEN stack[i].rest \ {f} ELSE stack[i].rest
    <3>1. i # n => i \in 1..(n - 1)
      BY <1>1
    <3> QED
      BY <1>1, <1>4, <3>1
  <2>2. LinksLeft' = {l \in (1..n) \X Paths : l[2] \in callers[l[1]].rest}
    BY <1>4, <1>5 DEF LinksLeft
  <2>3. LinksLeft = {l \in (1..n) \X Paths : l[2] \in stack[l[1]].rest}
    BY DEF LinksLeft, n
  <2>4. LinksLeft' \subseteq LinksLeft
    BY <2>1, <2>2, <2>3
  <2>5. PICK l \in (1..n) \X Paths : l = <<n, f>> /\ l[1] = n /\ l[2] = f
    <3>1. n \in 1..n
      BY <1>1
    <3>2. <<n, f>> \in (1..n) \X Paths
      BY <1>2, <3>1
    <3> QED
      BY <3>2
  <2>6. l \in LinksLeft /\ l \notin LinksLeft'
    BY <1>1, <1>2, <2>1, <2>2, <2>3, <2>5
  <2> QED
    BY <1>3, <1>5, <2>4, <2>6 DEF Advances
<1> QED
  BY <1>2, <1>3, <1>5, CallVisits DEF Advances

\* A call that ends takes its own links away and leaves its callers theirs.
LEMMA ReturnAdvances == WInv /\ (Return \/ FollowFails) => Advances
<1> SUFFICES ASSUME WInv, Return \/ FollowFails PROVE Advances
  OBVIOUS
<1>0. Types /\ Running
  BY DEF WInv, Return, FollowFails
<1>1. PICK n \in Nat : /\ n = Len(stack) /\ n # 0 /\ Top = stack[n]
                       /\ Top.rest \subseteq Paths
                       /\ Len(Returned) = n - 1
                       /\ \A i \in 1..Len(Returned) : Returned[i] = stack[i]
  BY <1>0, TopCall DEF Calls
<1>2. stack' = Returned /\ UNCHANGED <<started, visited>>
  BY DEF Return, FollowFails
<1>3. Len(stack') < Len(stack)
  BY <1>1, <1>2
<1>4. LinksLeft' = {l \in (1..(n - 1)) \X Paths : l[2] \in stack[l[1]].rest}
  BY <1>1, <1>2 DEF LinksLeft
<1>5. LinksLeft = {l \in (1..n) \X Paths : l[2] \in stack[l[1]].rest}
  BY <1>1 DEF LinksLeft
<1>6. LinksLeft' \subseteq LinksLeft
  BY <1>1, <1>4, <1>5
<1> QED
  BY <1>2, <1>3, <1>6 DEF Advances

\* The walk of every library ends: each step goes down an order that has no
\* infinite descent, since entry points, paths and links are finitely many.
THEOREM WalkEnds == Spec => [][Advances]_vars
<1>1. ASSUME WInv, [Next]_vars PROVE [Advances]_vars
  <2>1. CASE Start
    BY <1>1, <2>1 DEF Start, Advances, WInv, Types, TypeOK
  <2> QED
    BY <1>1, <2>1, FollowAdvances, ReturnAdvances DEF Next, Report
<1> QED
  BY <1>1, Invariant, PTL DEF Spec
=============================================================================
