------------------------------ MODULE MCApiWalk ------------------------------
(***************************************************************************)
(* All libraries of four paths, entered at one or at two of them.          *)
(***************************************************************************)
EXTENDS ApiWalk

MCEntryPoints == {<<1>>, <<2, 1>>}
=============================================================================
