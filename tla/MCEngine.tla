----------------------------- MODULE MCEngine ------------------------------
(***************************************************************************)
(* Engine on small instances.                                              *)
(***************************************************************************)
EXTENDS Engine, TLC

Symmetric == Permutations(Callers)
=============================================================================
