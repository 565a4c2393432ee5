----------------------------- MODULE EngineLife ------------------------------
(***************************************************************************)
(* What an Engine promises to its owner: Start, StartPairing and Stop have *)
(* their effect at once or none at all, and in between the device is       *)
(* linked only while it pairs, and unlinked only while it is connected.    *)
(* So it is for an owner who uses the engine from one goroutine at a time; *)
(* SessionManager lets the methods of an engine overlap.                   *)
(***************************************************************************)

VARIABLES
    life,    \* "stopped", "running" or "pairing"
    linked   \* the engine has a device

lvars == <<life, linked>>

Init == life = "stopped" /\ linked \in BOOLEAN

Start ==
    /\ life = "stopped" /\ linked
    /\ life' = "running"
    /\ UNCHANGED linked

StartPairing ==
    /\ life = "stopped" /\ ~linked
    /\ life' = "pairing"
    /\ UNCHANGED linked

Stop ==
    /\ life' = "stopped"
    /\ UNCHANGED linked

PairSuccess ==
    /\ life = "pairing" /\ ~linked
    /\ linked' = TRUE
    /\ UNCHANGED life

LoggedOut ==
    /\ life # "stopped" /\ linked
    /\ linked' = FALSE
    /\ UNCHANGED life

Next == Start \/ StartPairing \/ Stop \/ PairSuccess \/ LoggedOut

Spec == Init /\ [][Next]_lvars
=============================================================================
