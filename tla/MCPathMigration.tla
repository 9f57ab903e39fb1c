--------------------------- MODULE MCPathMigration ---------------------------
(***************************************************************************)
(* A small instance of PathMigration for TLC: two copies of one file from  *)
(* a root that was moved, a path still under the root, and files of two    *)
(* suffixes.                                                               *)
(***************************************************************************)
EXTENDS PathMigration

MCAbs    == {"/old/a.py", "/old/b.py", "/root/b.py"}
MCRel    == {"a.py", "b.py", "c.java"}
MCWalk   == <<"a.py", "b.py", "c.java">>
MCUnder  == [a \in MCAbs |-> IF a = "/root/b.py" THEN "b.py" ELSE "outside"]
MCSuffix == [p \in MCAbs \cup MCRel |-> IF p = "c.java" THEN "java" ELSE "py"]
MCCodes  == {"f", "g"}
MCNameOf == [c \in MCCodes |-> c]
MCContents == {{}, {"f"}, {"g"}}
=============================================================================
