--------------------------- MODULE SessionOwnership ---------------------------
(***************************************************************************)
(* What moving a session between machines promises, without the messages,   *)
(* journals and writes by which it is kept: the session has one holder; only *)
(* the holder writes to it, except a machine that a person declared owner   *)
(* without the holder's confirmation (a claim); and ownership changes hands  *)
(* only while nobody writes unconditionally.                                *)
(***************************************************************************)
CONSTANTS
    Machines,
    Origin      \* the machine the session was created on

VARIABLES
    holder,     \* the machine last handed the session
    writers,    \* the machines on which the session is not read-only
    claims      \* the writers that were recovered without confirmation

vars == <<holder, writers, claims>>

Init ==
    /\ holder = Origin
    /\ writers = {Origin}
    /\ claims = {}

\* The session is frozen for a move.
Suspend(m) ==
    /\ m \in writers \ claims
    /\ writers' = writers \ {m}
    /\ UNCHANGED <<holder, claims>>

\* The move did not happen.
Resume(m) ==
    /\ m = holder
    /\ m \notin writers
    /\ writers' = writers \cup {m}
    /\ UNCHANGED <<holder, claims>>

\* The move happened: n holds the session and writes to it.
HandOver(n) ==
    /\ writers \subseteq claims
    /\ n \notin writers
    /\ holder' = n
    /\ writers' = writers \cup {n}
    /\ UNCHANGED claims

\* A person declares m the owner.
Claim(m) ==
    /\ m \notin writers
    /\ writers' = writers \cup {m}
    /\ claims' = claims \cup {m}
    /\ UNCHANGED holder

\* The claim turned out right.
Confirm(m) ==
    /\ m \in claims
    /\ m = holder
    /\ claims' = claims \ {m}
    /\ UNCHANGED <<holder, writers>>

\* The claim turned out wrong.
Withdraw(m) ==
    /\ m \in claims
    /\ m # holder
    /\ writers' = writers \ {m}
    /\ claims' = claims \ {m}
    /\ UNCHANGED holder

Next ==
    \E m \in Machines :
        Suspend(m) \/ Resume(m) \/ HandOver(m) \/ Claim(m) \/ Confirm(m) \/ Withdraw(m)

Spec == Init /\ [][Next]_vars

\* Only the holder writes to the session, and whoever claims it.
OnlyHolderWrites ==
    /\ holder \in Machines
    /\ claims \subseteq writers
    /\ writers \subseteq claims \cup {holder}

=============================================================================
