------------------------- MODULE MCSessionManager --------------------------
(***************************************************************************)
(* SessionManager on small instances.                                      *)
(***************************************************************************)
EXTENDS SessionManager, TLC

Symmetric == Permutations(Names) \cup Permutations(Callers)
=============================================================================
