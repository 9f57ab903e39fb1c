--------------------------- MODULE MCDependencies ---------------------------
(***************************************************************************)
(* Two calls on one index and, between them, one on another, of a project  *)
(* whose second version has an odd jar between two ordinary ones.          *)
(***************************************************************************)
EXTENDS Dependencies

MCIndexOf   == [r \in {1, 2, 3} |-> IF r = 2 THEN "other" ELSE "main"]
MCClasspath == <<<<"a", "b">>, <<"a", "odd", "b">>>>
=============================================================================
