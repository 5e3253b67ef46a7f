--------------------------- MODULE ReviewDecision ---------------------------
(***************************************************************************)
(* What an Approval node promises: its outcome is given once; it is the    *)
(* latest decision offered for that node, and a timeout only while none    *)
(* has been offered.                                                       *)
(***************************************************************************)
CONSTANTS Nodes, Decisions

VARIABLES
    latest,    \* the latest decision offered for a node, or "none"
    outcome    \* what the node decided, or "none"

vars == <<latest, outcome>>

Init == /\ latest = [n \in Nodes |-> "none"]
        /\ outcome = [n \in Nodes |-> "none"]

Offer(n, d) == /\ latest' = [latest EXCEPT ![n] = d]
               /\ UNCHANGED outcome

Decide(n) == /\ outcome[n] = "none"
             /\ latest[n] # "none"
             /\ outcome' = [outcome EXCEPT ![n] = latest[n]]
             /\ UNCHANGED latest

Expire(n) == /\ outcome[n] = "none"
             /\ latest[n] = "none"
             /\ outcome' = [outcome EXCEPT ![n] = "timeout"]
             /\ UNCHANGED latest

Next == \E n \in Nodes :
            \/ \E d \in Decisions : Offer(n, d)
            \/ Decide(n)
            \/ Expire(n)

Spec == Init /\ [][Next]_vars
=============================================================================
