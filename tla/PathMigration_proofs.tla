------------------------ MODULE PathMigration_proofs ------------------------
(***************************************************************************)
(* Proofs about PathMigration, for every set of stored paths, every walk   *)
(* and every content of the files.                                         *)
(***************************************************************************)
EXTENDS PathMigration, TLAPS

\* The part of the state that only a run of the migration is about.
Migrating == {"parse", "direct", "claim", "commit", "orphans", "mark"}

(***************************************************************************)
(* The inductive invariant.  What migrate_absolute_paths listed at its     *)
(* start stays the whole of the absolute paths, since nothing but it       *)
(* writes under one; each listed path is on its way to a rewrite, has      *)
(* failed, is rewritten, or is left for the orphans.                       *)
(***************************************************************************)
Shape ==
    /\ done \in BOOLEAN
    /\ rows \in [Abs \cup Rel -> SUBSET Codes]
    /\ disk \in [Files -> Contents \cup {Gone}]
    /\ next \in 1..Len(Walk)
    /\ groups \subseteq Abs
    /\ DOMAIN mapping \subseteq groups
    /\ Range(mapping) \subseteq Rel
    /\ todo \subseteq DOMAIN mapping

Accounted ==
    /\ pc \in Migrating \cup {"list"} => ~done
    /\ pc \in Migrating => \A a \in Abs \ groups : rows[a] = {}
    /\ pc \in {"commit", "orphans", "mark"} =>
         \A a \in DOMAIN mapping : a \in todo \cup failed \/ rows[a] = {}
    /\ pc \in {"idle", "list", "parse", "direct", "orphans", "mark"} => todo = {}
    /\ pc = "mark" => \A a \in Orphans : rows[a] = {}
    /\ pc \in {"idle", "list"} => DOMAIN mapping = {}

PInv ==
    /\ Shape
    /\ Accounted
    /\ DoneMeansRelative
    /\ ClaimsAreOneToOne
-----------------------------------------------------------------------------
\* The walk lists project files, which are relative paths.
LEMMA WalkFiles == Files \subseteq Rel /\ \A i \in 1..Len(Walk) : Walk[i] \in Files
  BY WalkAssumption DEF Files, Range

\* A position in the walk moves to a position in the walk.
LEMMA AdvanceInWalk ==
  ASSUME next \in 1..Len(Walk), NEW p, Advance(p)
  PROVE  next' \in 1..Len(Walk)
<1>1. Len(Walk) \in Nat /\ 1 \in 1..Len(Walk)
  BY WalkAssumption
<1> QED
  BY <1>1 DEF Advance

\* An index with absolute paths only, and no run begun, satisfies PInv.
LEMMA InitPInv == Init => PInv
<1> SUFFICES ASSUME Init PROVE PInv
  OBVIOUS
<1> USE DEF Init, NoRun, NoMap
<1>1. Shape
  <2>1. rows \in [Abs \cup Rel -> SUBSET Codes]
    BY WalkAssumption DEF Distinct
  <2>2. 1 \in 1..Len(Walk)
    BY WalkAssumption
  <2> QED
    BY <2>1, <2>2 DEF Shape, Range
<1>2. Accounted /\ DoneMeansRelative
  BY DEF Accounted, Migrating, DoneMeansRelative
<1>3. ClaimsAreOneToOne
  BY DEF ClaimsAreOneToOne, IsInjective
<1> QED
  BY <1>1, <1>2, <1>3 DEF PInv

\* Leaving a run, for whatever reason, keeps the invariant.
LEMMA EndRunKeeps ==
  ASSUME PInv, EndRun, UNCHANGED <<rows, done, disk>>
  PROVE  PInv'
<1> USE DEF EndRun, NoMap
<1>1. Shape'
  <2>1. 1 \in 1..Len(Walk)
    BY WalkAssumption
  <2> QED
    BY <2>1 DEF PInv, Shape, Range
<1>2. Accounted' /\ DoneMeansRelative'
  BY DEF PInv, Accounted, Migrating, DoneMeansRelative
<1>3. ClaimsAreOneToOne'
  BY DEF ClaimsAreOneToOne, IsInjective
<1> QED
  BY <1>1, <1>2, <1>3 DEF PInv

\* The places that are taken are not claimed again, by either loop of
\* claim_relative_paths.
LEMMA ClaimDirectKeeps ==
  ASSUME PInv, ClaimDirect
  PROVE  PInv'
<1> PICK S \in SUBSET (groups \ Pending) :
      /\ \A a, b \in S : Under[a] = Under[b] => a = b
      /\ mapping' = [a \in S |-> Under[a]]
  BY DEF ClaimDirect
<1>1. \A a \in S : Under[a] \in Rel
  BY WalkAssumption DEF PInv, Shape, Pending
<1>2. Shape'
  BY <1>1 DEF ClaimDirect, PInv, Shape, Accounted, Range
<1>3. Accounted' /\ DoneMeansRelative'
  BY DEF ClaimDirect, PInv, Accounted, Migrating, DoneMeansRelative
<1>4. ClaimsAreOneToOne'
  BY DEF ClaimsAreOneToOne, IsInjective
<1> QED
  BY <1>2, <1>3, <1>4 DEF PInv

\* claim_relative_paths, second loop: a file that claims a path is not the
\* place of another.
LEMMA ClaimFileKeeps ==
  ASSUME PInv, ClaimFile
  PROVE  PInv'
<1> DEFINE f == Walk[next]
<1>1. f \in Rel
  BY WalkFiles DEF PInv, Shape
<1>2. /\ DOMAIN mapping' \subseteq groups
      /\ Range(mapping') \subseteq Rel
      /\ ClaimsAreOneToOne'
  <2>1. CASE Matches(f) = {}
    BY <2>1 DEF ClaimFile, PInv, Shape, ClaimsAreOneToOne
  <2>2. CASE Matches(f) # {}
    <3>1. PICK a \in Matches(f) :
            mapping' = [b \in DOMAIN mapping \cup {a} |->
                          IF b = a THEN f ELSE mapping[b]]
      BY <2>2 DEF ClaimFile
    <3>2. f \notin Range(mapping) /\ a \in groups /\ a \notin DOMAIN mapping
      BY <2>2, <3>1 DEF Matches, Images, Pending
    <3>3. \A b \in DOMAIN mapping : mapping[b] \in Rel /\ mapping[b] # f
      BY <3>2 DEF PInv, Shape, Range
    <3>4. ClaimsAreOneToOne'
      BY <3>1, <3>2, <3>3 DEF PInv, ClaimsAreOneToOne, IsInjective
    <3> QED
      BY <1>1, <3>1, <3>2, <3>3, <3>4 DEF PInv, Shape, Range
  <2> QED
    BY <2>1, <2>2
<1>3. Shape'
  BY <1>2, AdvanceInWalk DEF ClaimFile, PInv, Shape
<1>4. Accounted' /\ DoneMeansRelative'
  BY DEF ClaimFile, Advance, PInv, Accounted, Migrating, DoneMeansRelative
<1> QED
  BY <1>2, <1>3, <1>4 DEF PInv

\* A rewrite empties the absolute path it moves, and no other.
LEMMA CommitKeeps ==
  ASSUME PInv, NEW a \in Abs, Commit(a)
  PROVE  PInv'
<1>1. a \in DOMAIN mapping /\ mapping[a] \in Rel /\ mapping[a] \notin Abs
  BY WalkAssumption DEF Commit, PInv, Shape, Range
<1>2. /\ rows' \in [Abs \cup Rel -> SUBSET Codes]
      /\ \A b \in Abs : rows'[b] = IF b = a THEN {} ELSE rows[b]
  BY <1>1 DEF Commit, PInv, Shape
<1>3. Shape'
  BY <1>2 DEF Commit, PInv, Shape
<1>4. Accounted'
  BY <1>2 DEF Commit, PInv, Shape, Accounted, Migrating
<1>5. DoneMeansRelative' /\ ClaimsAreOneToOne'
  BY <1>2 DEF Commit, PInv, DoneMeansRelative, ClaimsAreOneToOne
<1> QED
  BY <1>3, <1>4, <1>5 DEF PInv

\* The sync that follows writes under relative paths only.
LEMMA SyncFileKeeps ==
  ASSUME PInv, NEW f \in Files, SyncFile(f)
  PROVE  PInv'
<1>1. f \in Rel /\ f \notin Abs
  BY WalkFiles, WalkAssumption
<1>2. disk[f] \in SUBSET Codes
  BY WalkAssumption DEF SyncFile, PInv, Shape, Distinct
<1>3. /\ rows' \in [Abs \cup Rel -> SUBSET Codes]
      /\ \A a \in Abs : rows'[a] = rows[a]
  BY <1>1, <1>2 DEF SyncFile, PInv, Shape
<1> QED
  BY <1>3 DEF SyncFile, run, PInv, Shape, Accounted, Migrating,
              DoneMeansRelative, ClaimsAreOneToOne

\* Every action keeps the inductive invariant: one step for each.
LEMMA NextPInv == PInv /\ [Next]_vars => PInv'
<1> SUFFICES ASSUME PInv, [Next]_vars PROVE PInv'
  OBVIOUS
<1> USE DEF PInv
<1>1. ASSUME NEW f \in Files, NEW c \in Contents \cup {Gone}, Edit(f, c)
      PROVE  PInv'
  BY <1>1 DEF Edit, run, Shape, Accounted, Orphans, Skipped,
              DoneMeansRelative, ClaimsAreOneToOne
<1>2. ASSUME Start PROVE PInv'
  BY <1>2 DEF Start, run, Shape, Accounted, Migrating, DoneMeansRelative,
              ClaimsAreOneToOne
<1>3. ASSUME Stop PROVE PInv'
  BY <1>3, EndRunKeeps DEF Stop
<1>4. ASSUME ListGroups PROVE PInv'
  <2>1. \A a \in Abs \ groups' : rows'[a] = {}
    BY <1>4 DEF ListGroups
  <2>2. Shape'
    BY <1>4 DEF ListGroups, Shape, Accounted
  <2>3. Accounted'
    BY <1>4, <2>1 DEF ListGroups, Accounted, Migrating
  <2>4. DoneMeansRelative' /\ ClaimsAreOneToOne'
    BY <1>4, <2>1 DEF ListGroups, DoneMeansRelative, ClaimsAreOneToOne
  <2> QED
    BY <2>2, <2>3, <2>4
<1>5. ASSUME Parse PROVE PInv'
  <2>1. Shape'
    BY <1>5, AdvanceInWalk DEF Parse, Shape
  <2>2. Accounted' /\ DoneMeansRelative' /\ ClaimsAreOneToOne'
    BY <1>5 DEF Parse, Advance, Accounted, Migrating, DoneMeansRelative,
                ClaimsAreOneToOne
  <2> QED
    BY <2>1, <2>2
<1>6. ASSUME ClaimDirect PROVE PInv'
  BY <1>6, ClaimDirectKeeps
<1>7. ASSUME ClaimFile PROVE PInv'
  BY <1>7, ClaimFileKeeps
<1>8. ASSUME NEW a \in Abs, Commit(a) PROVE PInv'
  BY <1>8, CommitKeeps
<1>9. ASSUME NEW a \in Abs, CommitFails(a) PROVE PInv'
  BY <1>9 DEF CommitFails, Shape, Accounted, Migrating, DoneMeansRelative,
              ClaimsAreOneToOne
<1>10. ASSUME Committed PROVE PInv'
  BY <1>10 DEF Committed, run, Shape, Accounted, Migrating, Orphans, Skipped,
               DoneMeansRelative, ClaimsAreOneToOne
<1>11. ASSUME DeleteOrphans PROVE PInv'
  <2>1. /\ rows' \in [Abs \cup Rel -> SUBSET Codes]
        /\ \A a \in Abs : rows[a] = {} => rows'[a] = {}
    BY <1>11 DEF DeleteOrphans, Shape
  <2>2. Shape'
    BY <1>11, <2>1 DEF DeleteOrphans, run, Shape
  <2>3. pc' = "mark" => \A a \in Orphans : rows'[a] = {}
    BY <1>11 DEF DeleteOrphans, Orphans, Shape
  <2>4. Orphans' = Orphans
    BY <1>11 DEF DeleteOrphans, run, Orphans, Skipped
  <2>5. Accounted'
    BY <1>11, <2>1, <2>3, <2>4 DEF DeleteOrphans, run, Shape, Accounted, Migrating
  <2>6. DoneMeansRelative' /\ ClaimsAreOneToOne'
    BY <1>11, <2>1 DEF DeleteOrphans, run, DoneMeansRelative, ClaimsAreOneToOne
  <2> QED
    BY <2>2, <2>5, <2>6
<1>12. ASSUME MarkMigrated PROVE PInv'
  <2>1. ~Incomplete => \A a \in Abs : rows[a] = {}
    BY <1>12 DEF MarkMigrated, Incomplete, Orphans, Skipped, Shape, Accounted,
                 Migrating
  <2>2. Shape' /\ Accounted' /\ ClaimsAreOneToOne'
    BY <1>12 DEF MarkMigrated, run, Shape, Accounted, Migrating,
                 ClaimsAreOneToOne
  <2>3. DoneMeansRelative'
    BY <1>12, <2>1 DEF MarkMigrated, DoneMeansRelative
  <2> QED
    BY <2>2, <2>3
<1>13. ASSUME NEW f \in Files, SyncFile(f) PROVE PInv'
  BY <1>13, SyncFileKeeps
<1>14. ASSUME UNCHANGED vars PROVE PInv'
  BY <1>14 DEF vars, run, Shape, Accounted, Orphans, Skipped,
               DoneMeansRelative, ClaimsAreOneToOne
<1> QED
  BY <1>1, <1>2, <1>3, <1>4, <1>5, <1>6, <1>7, <1>8, <1>9, <1>10, <1>11,
     <1>12, <1>13, <1>14 DEF Next

\* An index that carries the done mark holds no absolute path, whatever
\* failed or stopped in the runs before the mark was set.
THEOREM MarkIsTrue == Spec => []DoneMeansRelative
<1>1. PInv => DoneMeansRelative
  BY DEF PInv
<1> QED
  BY <1>1, InitPInv, NextPInv, PTL DEF Spec

\* claim_relative_paths never gives one relative path to two absolute ones.
THEOREM OneToOne == Spec => []ClaimsAreOneToOne
<1>1. PInv => ClaimsAreOneToOne
  BY DEF PInv
<1> QED
  BY <1>1, InitPInv, NextPInv, PTL DEF Spec
-----------------------------------------------------------------------------
(***************************************************************************)
(* Types.  That the bodies under one path have distinct names is the       *)
(* primary key, which commit_rewritten_path relies on the database for.    *)
(***************************************************************************)
Typed ==
    /\ TypeOK
    /\ pc \in {"idle", "list", "parse", "direct"} => failed = {}

\* Rows of two sources without a name in common are rows one path can hold.
LEMMA DistinctUnion ==
  ASSUME NEW s \in Distinct, NEW t \in Distinct,
         \A c \in s, d \in t : NameOf[c] # NameOf[d]
  PROVE  s \cup t \in Distinct
<1>1. \A x \in SUBSET Codes :
        x \in Distinct <=> \A c, d \in x : NameOf[c] = NameOf[d] => c = d
  <2> TAKE x \in SUBSET Codes
  <2>1. IsInjective(Restrict(NameOf, x)) <=>
          \A c, d \in x : NameOf[c] = NameOf[d] => c = d
    BY DEF IsInjective, Restrict
  <2> QED
    BY <2>1 DEF Distinct
<1>2. s \in SUBSET Codes /\ t \in SUBSET Codes
  BY DEF Distinct
<1> QED
  BY <1>1, <1>2

\* Any one failure more, or none, stays within the bound.
LEMMA FaultCounts ==
  ASSUME TypeOK, Fault \/ NoFault
  PROVE  faulted' \in BOOLEAN /\ faults' \in 0..MaxFaults
<1>1. MaxFaults \in Nat
  BY WalkAssumption
<1>2. faulted \in BOOLEAN /\ faults \in 0..MaxFaults
  BY DEF TypeOK
<1>3. CASE Fault
  BY <1>1, <1>2, <1>3 DEF Fault
<1>4. CASE NoFault
  BY <1>2, <1>4 DEF NoFault
<1> QED
  BY <1>3, <1>4

\* Before anything was migrated the files and the index hold what the
\* contents are.
LEMMA InitTyped == Init => Typed
<1> SUFFICES ASSUME Init PROVE Typed
  OBVIOUS
<1>1. /\ 1 \in 1..Len(Walk) /\ 0 \in 0..MaxEdits /\ 0 \in 0..MaxFaults
      /\ Contents \subseteq Distinct
  BY WalkAssumption
<1>2. rows \in [Abs \cup Rel -> Distinct]
  BY <1>1 DEF Init
<1>3. seen \in [Files -> Contents \cup {Gone, Unread}]
  BY DEF Init, NoRun
<1>4. mapping = NoMap /\ DOMAIN mapping = {} /\ Images = {}
  BY DEF Init, NoRun, NoMap, Images, Range
<1> QED
  BY <1>1, <1>2, <1>3, <1>4 DEF Init, NoRun, Typed, TypeOK, Steps

\* Every action keeps the types: one step for each.
LEMMA NextTyped == PInv /\ Typed /\ [Next]_vars => Typed'
<1> SUFFICES ASSUME PInv, Typed, [Next]_vars PROVE Typed'
  OBVIOUS
<1>1. /\ 1 \in 1..Len(Walk) /\ MaxEdits \in Nat
      /\ Contents \subseteq Distinct /\ {} \in Distinct
      /\ Files \subseteq Rel /\ \A i \in 1..Len(Walk) : Walk[i] \in Files
  BY WalkAssumption, WalkFiles
<1>2. TypeOK /\ (pc \in {"idle", "list", "parse", "direct"} => failed = {})
  BY DEF Typed
<1>3. ASSUME NEW f \in Files, NEW c \in Contents \cup {Gone}, Edit(f, c)
      PROVE  Typed'
  <2>1. edits' \in 0..MaxEdits
    BY <1>1, <1>2, <1>3 DEF Edit, TypeOK
  <2> QED
    BY <1>2, <1>3, <2>1 DEF Edit, run, TypeOK, Typed, Images
<1>4. ASSUME Start PROVE Typed'
  BY <1>2, <1>4 DEF Start, run, TypeOK, Typed, Steps, Images
<1>5. ASSUME Stop PROVE Typed'
  <2>1. faulted' \in BOOLEAN /\ faults' \in 0..MaxFaults
    BY <1>2, <1>5, FaultCounts DEF Stop
  <2>2. mapping' = NoMap /\ DOMAIN NoMap = {} /\ Range(NoMap) = {}
    BY <1>5 DEF Stop, EndRun, NoMap, Range
  <2>3. seen' \in [Files -> Contents \cup {Gone, Unread}]
    BY <1>5 DEF Stop, EndRun
  <2> QED
    BY <1>1, <1>2, <1>5, <2>1, <2>2, <2>3
    DEF Stop, EndRun, TypeOK, Typed, Steps, Images
<1>6. ASSUME ListGroups PROVE Typed'
  <2>1. faulted' \in BOOLEAN /\ faults' \in 0..MaxFaults
    BY <1>2, <1>6, FaultCounts DEF ListGroups
  <2>2. DOMAIN mapping = {} /\ todo = {}
    BY <1>6 DEF ListGroups, PInv, Accounted
  <2> QED
    BY <1>2, <1>6, <2>1, <2>2 DEF ListGroups, TypeOK, Typed, Steps, Images
<1>7. ASSUME Parse PROVE Typed'
  <2>1. faulted' \in BOOLEAN /\ faults' \in 0..MaxFaults
    BY <1>2, <1>7, FaultCounts DEF Parse
  <2>2. next' \in 1..Len(Walk)
    BY <1>2, <1>7, AdvanceInWalk DEF Parse, TypeOK
  <2>3. seen' \in [Files -> Contents \cup {Gone, Unread}]
    BY <1>1, <1>2, <1>7 DEF Parse, TypeOK
  <2>4. pc' \in {"parse", "direct"}
    BY <1>7 DEF Parse, Advance
  <2> QED
    BY <1>2, <1>7, <2>1, <2>2, <2>3, <2>4 DEF Parse, TypeOK, Typed, Steps, Images
<1>8. ASSUME ClaimDirect PROVE Typed'
  <2>1. faulted' \in BOOLEAN /\ faults' \in 0..MaxFaults
    BY <1>2, <1>8, FaultCounts DEF ClaimDirect
  <2>2. DOMAIN mapping' \subseteq groups' /\ Images' \subseteq Rel
    BY <1>8, ClaimDirectKeeps DEF PInv, Shape, Images
  <2>3. todo = {} /\ failed = {}
    BY <1>2, <1>8 DEF ClaimDirect, PInv, Accounted
  <2> QED
    BY <1>2, <1>8, <2>1, <2>2, <2>3 DEF ClaimDirect, TypeOK, Typed, Steps
<1>9. ASSUME ClaimFile PROVE Typed'
  <2>1. faulted' \in BOOLEAN /\ faults' \in 0..MaxFaults
    BY <1>2, <1>9, FaultCounts DEF ClaimFile
  <2>2. DOMAIN mapping' \subseteq groups' /\ Images' \subseteq Rel /\ next' \in 1..Len(Walk)
    BY <1>9, ClaimFileKeeps DEF PInv, Shape, Images
  <2>3. DOMAIN mapping \subseteq DOMAIN mapping'
    BY <1>9 DEF ClaimFile
  <2>4. pc' \in {"claim", "commit"}
    BY <1>9 DEF ClaimFile, Advance
  <2> QED
    BY <1>2, <1>9, <2>1, <2>2, <2>3, <2>4 DEF ClaimFile, TypeOK, Typed, Steps
<1>10. ASSUME NEW a \in Abs, Commit(a) PROVE Typed'
  <2>1. faulted' \in BOOLEAN /\ faults' \in 0..MaxFaults
    BY <1>2, <1>10, FaultCounts DEF Commit
  <2>2. a \in DOMAIN mapping /\ mapping[a] \in Rel
    BY <1>2, <1>10 DEF Commit, TypeOK, Images, Range
  <2>3. rows[mapping[a]] \cup rows[a] \in Distinct
    <3>1. \A c \in rows[mapping[a]], d \in rows[a] : NameOf[c] # NameOf[d]
      BY <1>10 DEF Commit, Collides
    <3>2. rows[mapping[a]] \in Distinct /\ rows[a] \in Distinct
      BY <1>2, <2>2 DEF TypeOK
    <3> QED
      BY <3>1, <3>2, DistinctUnion
  <2>4. rows' \in [Abs \cup Rel -> Distinct]
    BY <1>1, <1>2, <1>10, <2>2, <2>3 DEF Commit, TypeOK
  <2> QED
    BY <1>2, <1>10, <2>1, <2>4 DEF Commit, TypeOK, Typed, Images
<1>11. ASSUME NEW a \in Abs, CommitFails(a) PROVE Typed'
  <2>1. faulted' \in BOOLEAN /\ faults' \in 0..MaxFaults
    BY <1>2, <1>11, FaultCounts DEF CommitFails
  <2> QED
    BY <1>2, <1>11, <2>1 DEF CommitFails, TypeOK, Typed, Images
<1>12. ASSUME Committed PROVE Typed'
  <2>1. faulted' \in BOOLEAN /\ faults' \in 0..MaxFaults
    BY <1>2, <1>12, FaultCounts DEF Committed
  <2> QED
    BY <1>2, <1>12, <2>1 DEF Committed, run, TypeOK, Typed, Steps, Images
<1>13. ASSUME DeleteOrphans PROVE Typed'
  <2>1. faulted' \in BOOLEAN /\ faults' \in 0..MaxFaults
    BY <1>2, <1>13, FaultCounts DEF DeleteOrphans
  <2>2. rows' \in [Abs \cup Rel -> Distinct]
    BY <1>1, <1>2, <1>13 DEF DeleteOrphans, TypeOK
  <2>3. pc' \in {"mark", "sync"}
    BY <1>13 DEF DeleteOrphans
  <2> QED
    BY <1>2, <1>13, <2>1, <2>2, <2>3 DEF DeleteOrphans, run, TypeOK, Typed, Steps, Images
<1>14. ASSUME MarkMigrated PROVE Typed'
  <2>1. faulted' \in BOOLEAN /\ faults' \in 0..MaxFaults
    BY <1>2, <1>14, FaultCounts DEF MarkMigrated
  <2> QED
    BY <1>2, <1>14, <2>1 DEF MarkMigrated, run, TypeOK, Typed, Steps, Images
<1>15. ASSUME NEW f \in Files, SyncFile(f) PROVE Typed'
  <2>1. faulted' \in BOOLEAN /\ faults' \in 0..MaxFaults
    BY <1>2, <1>15, FaultCounts DEF SyncFile
  <2>2. disk[f] \in Distinct
    BY <1>1, <1>2, <1>15 DEF SyncFile, TypeOK
  <2>3. rows' \in [Abs \cup Rel -> Distinct]
    BY <1>1, <1>2, <1>15, <2>2 DEF SyncFile, TypeOK
  <2> QED
    BY <1>2, <1>15, <2>1, <2>3 DEF SyncFile, run, TypeOK, Typed, Images
<1>16. ASSUME UNCHANGED vars PROVE Typed'
  BY <1>2, <1>16 DEF vars, run, TypeOK, Typed, Images
<1> QED
  BY <1>3, <1>4, <1>5, <1>6, <1>7, <1>8, <1>9, <1>10, <1>11, <1>12, <1>13,
     <1>14, <1>15, <1>16 DEF Next

\* Every variable keeps its type; in particular a rewrite that is committed
\* leaves no two bodies of one name under a path.
THEOREM MigrationTypes == Spec => []TypeOK
<1>1. Typed => TypeOK
  BY DEF Typed
<1> QED
  BY <1>1, InitPInv, NextPInv, InitTyped, NextTyped, PTL DEF Spec
-----------------------------------------------------------------------------
(***************************************************************************)
(* What claim_relative_paths leaves behind.                                *)
(***************************************************************************)
\* The files whose turn in the second loop is over.
Tried ==
    IF pc = "claim" THEN {Walk[i] : i \in 1..(next - 1)}
    ELSE IF pc \in {"commit", "orphans"} THEN Files ELSE {}

\* A file that has had its turn and claimed nothing was parsed to nothing
\* that a path still waiting for a claim holds.
Unmatched ==
    \A f \in Tried \ Images, a \in Pending \ DOMAIN mapping : rows[a] # seen[f]

\* A step that changes neither the run nor an absolute path outside the
\* claims leaves what was tried unmatched.
LEMMA UnmatchedStays ==
  ASSUME Unmatched, UNCHANGED <<groups, seen, mapping>>, Tried' \subseteq Tried,
         \A a \in Pending \ DOMAIN mapping : rows'[a] = rows[a]
  PROVE  Unmatched'
<1>1. Pending' = Pending /\ Images' = Images
  BY DEF Pending, Images
<1> QED
  BY <1>1 DEF Unmatched

Waiting ==
    /\ Unmatched
    /\ pc \notin {"parse", "claim"} => next = 1

\* The next file of the second loop claims a path, or none holds its code.
LEMMA ClaimFileWaits ==
  ASSUME PInv, Typed, Waiting, ClaimFile
  PROVE  Waiting'
<1> DEFINE f == Walk[next]
<1>1. next \in 1..Len(Walk) /\ Len(Walk) \in Nat
  BY WalkAssumption DEF PInv, Shape
<1>2. pc = "claim" /\ UNCHANGED <<rows, groups, seen>>
  BY DEF ClaimFile
<1>3. Pending' = Pending
  BY <1>2 DEF Pending
<1>4. DOMAIN mapping \subseteq DOMAIN mapping' /\ Images \subseteq Images'
  <2>1. CASE Matches(f) = {}
    BY <2>1 DEF ClaimFile, Images
  <2>2. CASE Matches(f) # {}
    <3>1. PICK a \in Matches(f) :
            mapping' = [b \in DOMAIN mapping \cup {a} |->
                          IF b = a THEN f ELSE mapping[b]]
      BY <2>2 DEF ClaimFile
    <3>2. a \notin DOMAIN mapping
      BY <3>1, <2>2 DEF Matches
    <3> QED
      BY <3>1, <3>2 DEF Images, Range
  <2> QED
    BY <2>1, <2>2
<1>5. \A a \in Pending \ DOMAIN mapping' : f \notin Images' => rows[a] # seen[f]
  <2>1. CASE Matches(f) = {}
    BY <1>4, <2>1 DEF ClaimFile, Matches, Images
  <2>2. CASE Matches(f) # {}
    <3>1. PICK a \in Matches(f) :
            mapping' = [b \in DOMAIN mapping \cup {a} |->
                          IF b = a THEN f ELSE mapping[b]]
      BY <2>2 DEF ClaimFile
    <3> QED
      BY <3>1 DEF Images, Range
  <2> QED
    BY <2>1, <2>2
<1>6. Tried' \subseteq Tried \cup {f} /\ (pc' \notin {"parse", "claim"} => next' = 1)
  <2>1. CASE next < Len(Walk)
    <3>1. next' = next + 1 /\ pc' = "claim"
      BY <1>2, <2>1 DEF ClaimFile, Advance
    <3>2. \A i \in 1..(next' - 1) : i \in 1..(next - 1) \/ i = next
      BY <1>1, <3>1
    <3> QED
      BY <1>2, <3>1, <3>2 DEF Tried
  <2>2. CASE ~(next < Len(Walk))
    <3>1. next' = 1 /\ pc' = "commit"
      BY <2>2 DEF ClaimFile, Advance
    <3>2. \A i \in 1..Len(Walk) : i \in 1..(next - 1) \/ i = next
      BY <1>1, <2>2
    <3>3. Files = {Walk[i] : i \in 1..Len(Walk)}
      BY WalkAssumption DEF Files, Range
    <3> QED
      BY <1>2, <3>1, <3>2, <3>3 DEF Tried
  <2> QED
    BY <2>1, <2>2
<1> QED
  BY <1>2, <1>3, <1>4, <1>5, <1>6 DEF Waiting, Unmatched

\* Before a run nothing was tried.
LEMMA InitWaiting == Init => Waiting
  BY DEF Init, NoRun, Waiting, Unmatched, Tried

\* Every action keeps it: one step for each.
LEMMA NextWaiting == PInv /\ Typed /\ Waiting /\ [Next]_vars => Waiting'
<1> SUFFICES ASSUME PInv, Typed, Waiting, [Next]_vars PROVE Waiting'
  OBVIOUS
<1> USE DEF Waiting
<1>1. ASSUME NEW f \in Files, NEW c \in Contents \cup {Gone}, Edit(f, c)
      PROVE  Waiting'
  BY <1>1, UnmatchedStays DEF Edit, run, Tried
<1>2. ASSUME Start PROVE Waiting'
  BY <1>2 DEF Start, run, Unmatched, Tried
<1>3. ASSUME Stop PROVE Waiting'
  BY <1>3 DEF Stop, EndRun, Unmatched, Tried
<1>4. ASSUME ListGroups PROVE Waiting'
  BY <1>4 DEF ListGroups, Unmatched, Tried
<1>5. ASSUME Parse PROVE Waiting'
  BY <1>5 DEF Parse, Advance, Unmatched, Tried
<1>6. ASSUME ClaimDirect PROVE Waiting'
  <2>1. pc' = "claim" /\ next' = 1
    BY <1>6 DEF ClaimDirect
  <2>2. Tried' = {}
    BY <2>1 DEF Tried
  <2> QED
    BY <2>1, <2>2 DEF Unmatched
<1>7. ASSUME ClaimFile PROVE Waiting'
  BY <1>7, ClaimFileWaits
<1>8. ASSUME NEW a \in Abs, Commit(a) PROVE Waiting'
  <2>1. a \in DOMAIN mapping /\ mapping[a] \in Rel
    BY <1>8 DEF Commit, PInv, Shape, Range
  <2>2. \A b \in Pending \ DOMAIN mapping : rows'[b] = rows[b]
    BY <1>8, <2>1, WalkAssumption DEF Commit, PInv, Shape, Pending
  <2> QED
    BY <1>8, <2>2, UnmatchedStays DEF Commit, Tried
<1>9. ASSUME NEW a \in Abs, CommitFails(a) PROVE Waiting'
  BY <1>9, UnmatchedStays DEF CommitFails, Tried
<1>10. ASSUME Committed PROVE Waiting'
  BY <1>10, UnmatchedStays DEF Committed, run, Tried
<1>11. ASSUME DeleteOrphans PROVE Waiting'
  BY <1>11 DEF DeleteOrphans, run, Unmatched, Tried
<1>12. ASSUME MarkMigrated PROVE Waiting'
  BY <1>12 DEF MarkMigrated, run, Unmatched, Tried
<1>13. ASSUME NEW f \in Files, SyncFile(f) PROVE Waiting'
  BY <1>13 DEF SyncFile, run, Unmatched, Tried
<1>14. ASSUME UNCHANGED vars PROVE Waiting'
  BY <1>14, UnmatchedStays DEF vars, run, Tried
<1> QED
  BY <1>1, <1>2, <1>3, <1>4, <1>5, <1>6, <1>7, <1>8, <1>9, <1>10, <1>11,
     <1>12, <1>13, <1>14 DEF Next

\* Only the removal of the orphans empties a path in its phase, and what it
\* removes is neither of a file that did not parse nor of one that could
\* still claim it.
LEMMA StepKeeps ==
  ASSUME PInv, Waiting, [Next]_vars,
         NEW a \in Abs, NEW f \in Files,
         pc = "orphans", rows[a] # {}, rows'[a] = {}, Under[a] = Outside,
         f \notin Images, Suffix[f] = Suffix[a]
  PROVE  seen[f] \notin {Unread, rows[a]}
<1>1. DeleteOrphans
  BY DEF Next, vars, Edit, Start, Stop, ListGroups, Parse, ClaimDirect,
         ClaimFile, Commit, CommitFails, Committed, MarkMigrated, SyncFile
<1>2. a \in Orphans
  BY <1>1 DEF DeleteOrphans, PInv, Shape
<1>3. seen[f] # Unread
  BY <1>2 DEF Orphans, Skipped
<1>4. a \in Pending \ DOMAIN mapping
  BY <1>2 DEF Orphans, Pending
<1>5. f \in Tried
  BY DEF Tried
<1> QED
  BY <1>3, <1>4, <1>5 DEF Waiting, Unmatched

\* The removal of orphans spares what an unclaimed or unreadable file of the
\* same suffix may still hold.
THEOREM OrphansOnly == Spec => UnchangedIsKept
<1>1. PInv /\ Waiting /\ [Next]_vars =>
        [\A a \in Abs, f \in Files :
           /\ pc = "orphans" /\ rows[a] # {} /\ rows'[a] = {}
           /\ Under[a] = Outside
           /\ f \notin Images /\ Suffix[f] = Suffix[a]
           => seen[f] \notin {Unread, rows[a]}]_vars
  BY StepKeeps
<1> QED
  BY <1>1, InitPInv, NextPInv, InitTyped, NextTyped, InitWaiting, NextWaiting,
     PTL DEF Spec, UnchangedIsKept
=============================================================================
