------------------------------- MODULE MCGateway -------------------------------
(***************************************************************************)
(* Gateway for TLC. Updates are alike until they arrive, so permuting them *)
(* is sound: every checked formula is a safety property that treats all    *)
(* updates the same way.                                                   *)
(***************************************************************************)
EXTENDS Gateway, TLC

Symmetry == Permutations(Updates)
===============================================================================
