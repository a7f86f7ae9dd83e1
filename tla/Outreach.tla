------------------------------ MODULE Outreach ------------------------------
(***************************************************************************)
(* What the workspace promises to the people it writes to, whatever its    *)
(* user does with leads, imports, edits and campaigns: everybody gets at   *)
(* most one sequence of three messages, in order, the next one not before  *)
(* the follow-up delay has passed, and nothing at all once they opposed,   *)
(* which is for good.                                                      *)
(***************************************************************************)
EXTENDS Naturals

CONSTANTS
    Email,              \* the people, by their address
    FollowUpDelay,
    None

VARIABLES
    clock,
    opposed,    \* those who asked not to be contacted
    letters     \* [Email -> when each of the three messages was sent, or None]

outreachVars == <<clock, opposed, letters>>

Steps == 1..3

Init ==
    /\ clock = 0
    /\ opposed = {}
    /\ letters = [e \in Email |-> [s \in Steps |-> None]]

Write(e, s) ==
    /\ e \notin opposed
    /\ letters[e][s] = None
    /\ \A t \in Steps : t < s => letters[e][t] # None
    /\ s > 1 => clock >= letters[e][s - 1] + FollowUpDelay
    /\ letters' = [letters EXCEPT ![e][s] = clock]
    /\ UNCHANGED <<clock, opposed>>

Oppose ==
    /\ \E E \in SUBSET Email : opposed' = opposed \cup E
    /\ UNCHANGED <<clock, letters>>

Tick ==
    /\ clock' = clock + 1
    /\ UNCHANGED <<opposed, letters>>

Next == (\E e \in Email, s \in Steps : Write(e, s)) \/ Oppose \/ Tick

Spec == Init /\ [][Next]_outreachVars
=============================================================================
