---------------------------- MODULE SessionStore ----------------------------
(***************************************************************************)
(* What a SessionManager promises of its sessions, however its operations  *)
(* overlap: they are independent of each other, no more than Limit are     *)
(* open, the phone links and unlinks the device of a session only while    *)
(* that has a connection, and what is on disk follows the session that is  *)
(* open.  It makes no promise on what an engine says of its own state.     *)
(*                                                                         *)
(* The exception is a name that has gone astray: its directory could not   *)
(* be deleted when its session was closed, or the map was dropped under    *)
(* it, or a logout left a connection behind, and somebody that no longer   *)
(* belongs to the store still has that database open.  What is on disk     *)
(* under such a name may change by itself, until the directory is deleted  *)
(* or the process is restarted.                                            *)
(***************************************************************************)
EXTENDS Integers, FiniteSets

CONSTANTS
    Names,   \* the names of sessions
    Limit    \* the number of sessions that may be open

VARIABLES
    session,   \* for each name its session: open, linked to a device, connected (up)
    saved,     \* the names with the credentials of a device on disk
    astray     \* the names whose files somebody else has open

svars == <<session, saved, astray>>

Closed == [open |-> FALSE, linked |-> FALSE, up |-> FALSE]
Loaded(linked, up) == [open |-> TRUE, linked |-> linked, up |-> up]
AtRest(linked) == Loaded(linked, FALSE)

IsOpen(n) == session[n].open
OpenNames == {n \in Names : IsOpen(n)}
Becomes(n, s) == session' = [session EXCEPT ![n] = s]

Init ==
    /\ session = [n \in Names |-> Closed]
    /\ saved \in SUBSET Names
    /\ astray = {}

-----------------------------------------------------------------------------
(* A session that is opened is linked if there are credentials on disk.    *)
Open(n) ==
    /\ ~IsOpen(n) /\ Cardinality(OpenNames) < Limit
    /\ Becomes(n, AtRest(n \in saved))
    /\ UNCHANGED <<saved, astray>>

(* It is connected to the servers, or loses its connection.                *)
Dial(n) ==
    /\ IsOpen(n)
    /\ Becomes(n, Loaded(session[n].linked, TRUE))
    /\ UNCHANGED <<saved, astray>>

HangUp(n) ==
    /\ IsOpen(n)
    /\ Becomes(n, AtRest(session[n].linked))
    /\ UNCHANGED <<saved, astray>>

(* The phone links its device, or unlinks it, which ends the connection:   *)
(* each time the credentials on disk go with it.                           *)
Link(n) ==
    /\ session[n].up /\ ~session[n].linked
    /\ Becomes(n, Loaded(TRUE, TRUE))
    /\ saved' = saved \cup {n}
    /\ UNCHANGED astray

Unlink(n) ==
    /\ session[n].up /\ session[n].linked
    /\ Becomes(n, AtRest(FALSE))
    /\ saved' = saved \ {n}
    /\ UNCHANGED astray

(* A logout is two steps: it forgets what is on disk, then the session     *)
(* takes up what it finds there, with a connection of its own.             *)
Forget(n) ==
    /\ IsOpen(n)
    /\ saved' = saved \ {n}
    /\ UNCHANGED <<session, astray>>

Renew(n) ==
    /\ IsOpen(n)
    /\ Becomes(n, AtRest(n \in saved))
    /\ astray' \in {astray, astray \cup {n}}
    /\ UNCHANGED saved

(* The files go with a session that is closed, or stay where they are.     *)
Close(n) ==
    /\ IsOpen(n)
    /\ Becomes(n, Closed)
    /\ \/ saved' = saved \ {n} /\ astray' = astray \ {n}
       \/ saved' = saved /\ astray' = astray \cup {n}

-----------------------------------------------------------------------------
(* A stranger links or unlinks the device of a name that has gone astray.  *)
Stray(n) ==
    /\ n \in astray
    /\ saved' \in {saved \cup {n}, saved \ {n}}
    /\ UNCHANGED <<session, astray>>

(* A call that came too late opens the files of a name and gives up.       *)
GoAstray(n) ==
    /\ ~IsOpen(n)
    /\ astray' = astray \cup {n}
    /\ UNCHANGED <<session, saved>>

(* The store lets go of all sessions, and their engines stay behind.       *)
Drop ==
    /\ session' = [n \in Names |-> Closed]
    /\ astray' = astray \cup OpenNames
    /\ UNCHANGED saved

(* The process ends, at any time, and the next one finds some of the       *)
(* sessions that are on disk.                                              *)
Recover ==
    /\ \E found \in SUBSET Names :
        /\ Cardinality(found) <= Limit
        /\ session' = [n \in Names |-> IF n \in found THEN AtRest(n \in saved) ELSE Closed]
    /\ astray' = {}
    /\ UNCHANGED saved

Next ==
    \/ \E n \in Names :
        \/ Open(n) \/ Dial(n) \/ HangUp(n) \/ Link(n) \/ Unlink(n) \/ Forget(n) \/ Renew(n)
        \/ Close(n) \/ Stray(n) \/ GoAstray(n)
    \/ Drop
    \/ Recover

Spec == Init /\ [][Next]_svars
=============================================================================
