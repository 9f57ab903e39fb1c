------------------------------ MODULE MCUnitIds ------------------------------
(***************************************************************************)
(* All syntax trees of four nodes, with two plain names and their dotted   *)
(* combination.                                                            *)
(***************************************************************************)
EXTENDS UnitIds

MCNames == {<<"a">>, <<"b">>, <<"a", "b">>}
=============================================================================
