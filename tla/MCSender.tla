----------------------------- MODULE MCSender -------------------------------
(***************************************************************************)
(* Sender on small instances.  Callers, handlers and managers are          *)
(* interchangeable.                                                        *)
(***************************************************************************)
EXTENDS Sender, TLC

Symmetric == Permutations(Callers) \cup Permutations(Handlers) \cup Permutations(Managers)
=============================================================================
