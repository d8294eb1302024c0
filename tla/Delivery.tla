------------------------------ MODULE Delivery ------------------------------
(***************************************************************************)
(* What routd and an adapter together promise about a message that is to   *)
(* leave: somebody owes it until the platform has it or it is given up     *)
(* where an operator sees it; the platform gets it once, unless            *)
(* an operator has asked for it again.                                     *)
(***************************************************************************)
EXTENDS Naturals

CONSTANT Rows

VARIABLES
    lines,    \* the rows that are progress lines
    owner,    \* unborn, owed, delivered or abandoned
    shown,    \* how often the platform was given the message
    reopened  \* how often an operator has put it back

vars == <<lines, owner, shown, reopened>>

Owners == {"unborn", "owed", "delivered", "abandoned"}

Init ==
    /\ lines \subseteq Rows
    /\ owner = [r \in Rows |-> "unborn"]
    /\ shown = [r \in Rows |-> 0]
    /\ reopened = [r \in Rows |-> 0]

\* The message reaches the platform, once for every time it was asked for.
Show(r) ==
    /\ shown[r] <= reopened[r]
    /\ shown' = [shown EXCEPT ![r] = @ + 1]
    /\ UNCHANGED <<lines, owner, reopened>>

Owe(r) ==
    /\ owner[r] = "unborn"
    /\ owner' = [owner EXCEPT ![r] = "owed"]
    /\ UNCHANGED <<lines, shown, reopened>>

\* Delivered is said only of what the platform has.
Deliver(r) ==
    /\ owner[r] \in {"unborn", "owed"}
    /\ shown[r] > 0
    /\ owner' = [owner EXCEPT ![r] = "delivered"]
    /\ UNCHANGED <<lines, shown, reopened>>

\* The end of its turn may take back a line that has just been delivered.
Abandon(r) ==
    /\ owner[r] \in {"unborn", "owed"} \/ (r \in lines /\ owner[r] = "delivered")
    /\ owner' = [owner EXCEPT ![r] = "abandoned"]
    /\ UNCHANGED <<lines, shown, reopened>>

Reopen(r) ==
    /\ owner[r] = "abandoned"
    /\ owner' = [owner EXCEPT ![r] = "owed"]
    /\ reopened' = [reopened EXCEPT ![r] = @ + 1]
    /\ UNCHANGED <<lines, shown>>

Next == \E r \in Rows : Show(r) \/ Owe(r) \/ Deliver(r) \/ Abandon(r) \/ Reopen(r)

Spec == Init /\ [][Next]_vars
=============================================================================
