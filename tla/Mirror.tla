-------------------------------- MODULE Mirror --------------------------------
(***************************************************************************)
(* What a sync of agent-coderag promises its users: in the index, the      *)
(* files of a project change only to what they are on disk, and when the   *)
(* sync returns, those it was asked for and does not report are there as   *)
(* they are on disk.                                                       *)
(*                                                                         *)
(* Excused is a file that was changed after the sync began, or that could  *)
(* not be read: of it nothing is promised.  IndexSync implements this      *)
(* module.                                                                 *)
(***************************************************************************)
CONSTANTS
    Units,      \* ids of code units
    Files,      \* stored paths
    FileOf,     \* the file each unit's id is in
    Texts,      \* what a unit may be: its code and its comment
    None        \* no such unit

VARIABLES
    source,     \* the text of each unit on disk
    indexed,    \* its text in the index
    found,      \* the units that a search can find
    phase,      \* of a sync: "off", "on", "over" when all its work is done
    due,        \* the files it is asked for and has not failed with
    excused     \* files changed or unreadable since it began

mirrorVars == <<source, indexed, found, phase, due, excused>>

Init ==
    /\ source \in [Units -> Texts \cup {None}]
    /\ indexed = [u \in Units |-> None] /\ found = {}
    /\ phase = "off" /\ due = {} /\ excused = {}

\* The unit is in the index as it is on disk, and can be found if it is.
Current(u) ==
    /\ indexed[u] = source[u]
    /\ u \in found <=> source[u] # None

\* The user edits, deletes or locks some files.
Change(files) ==
    /\ source' \in [Units -> Texts \cup {None}]
    /\ \A u \in Units : FileOf[u] \notin files => source'[u] = source[u]
    /\ excused' = IF phase = "off" THEN excused ELSE excused \cup files
    /\ UNCHANGED <<indexed, found, phase, due>>

Begin(files) ==
    /\ phase = "off"
    /\ phase' = "on" /\ due' = files /\ excused' = {}
    /\ UNCHANGED <<source, indexed, found>>

\* What a step of the sync may do to a unit of a file that is not excused: its
\* text becomes that on disk, it is lost to searches only if it is not on disk
\* any more, and it is found only as it is there.
Refresh(u) ==
    /\ indexed'[u] \in {indexed[u], source[u]}
    /\ u \in found /\ u \notin found' => source[u] = None
    /\ u \in found' /\ u \notin found => indexed'[u] = source[u]

\* The sync works at files that are due; it may give some up, and finds some
\* unreadable.
Work ==
    /\ phase = "on" /\ phase' = "on"
    /\ due' \subseteq due
    /\ excused' \in SUBSET Files /\ excused \subseteq excused'
    /\ \A u \in Units :
         /\ FileOf[u] \notin due => UNCHANGED indexed[u] /\ (u \in found <=> u \in found')
         /\ FileOf[u] \notin excused' => Refresh(u)
    /\ UNCHANGED source

\* Its work is done: what is due and not excused is as it is on disk.
Complete ==
    /\ phase = "on" /\ phase' = "over"
    /\ \A u \in Units : FileOf[u] \in due \ excused => Current(u)
    /\ UNCHANGED <<source, indexed, found, due, excused>>

\* It returns, or the process stops before that.
End ==
    /\ phase # "off"
    /\ phase' = "off" /\ due' = {}
    /\ UNCHANGED <<source, indexed, found, excused>>

Next ==
    \/ \E files \in SUBSET Files : Change(files) \/ Begin(files)
    \/ Work \/ Complete \/ End

Spec == Init /\ [][Next]_mirrorVars
=============================================================================
