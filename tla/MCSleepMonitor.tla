--------------------------- MODULE MCSleepMonitor ---------------------------
(***************************************************************************)
(* SleepMonitor on small instances.                                        *)
(***************************************************************************)
EXTENDS SleepMonitor, TLC

(* Every session has been paired in an earlier run of the server.          *)
SavedInit ==
    /\ dir = [n \in Names |-> "paired"]
    /\ name = [c \in Callers |-> CHOOSE n \in Names : TRUE]
    /\ SleepInit

SavedSpec == SavedInit /\ [][SleepNext]_mvars /\ SleepFairness
=============================================================================
