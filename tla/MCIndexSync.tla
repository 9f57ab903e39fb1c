----------------------------- MODULE MCIndexSync -----------------------------
(***************************************************************************)
(* Small instances of IndexSync for TLC: two paths of one file (a file and *)
(* a symbolic link to it) and a file of its own, two workers.              *)
(***************************************************************************)
EXTENDS IndexSync, TLC

MCPaths      == {"a.py", "link.py", "b.py"}
MCFiles      == {"a", "b"}
MCStoredPath == [p \in MCPaths |-> IF p = "b.py" THEN "b" ELSE "a"]
MCUnits      == {"a:f", "b:g"}
MCFileOf     == [u \in MCUnits |-> IF u = "b:g" THEN "b" ELSE "a"]

\* The instance of the liveness run: the link and its file only.
LinkPaths      == {"a.py", "link.py"}
LinkFiles      == {"a"}
LinkStoredPath == [p \in LinkPaths |-> "a"]
LinkUnits      == {"a:f"}
LinkFileOf     == [u \in LinkUnits |-> "a"]

\* Workers and code bodies are interchangeable (safety runs only).
Symmetry == Permutations(Workers) \cup Permutations(Codes)
=============================================================================
