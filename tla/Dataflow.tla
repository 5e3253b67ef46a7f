----------------------------- MODULE Dataflow -----------------------------
(***************************************************************************)
(* What a workflow run promises its author, without batches, tasks, queues *)
(* of deliveries or exceptions: a node settles once, after everything that *)
(* feeds it has settled; it is skipped exactly when it has incoming edges  *)
(* and none of them carried anything; and what its outgoing edges carry is *)
(* decided by how it settled.                                              *)
(***************************************************************************)
EXTENDS WorkflowGraph

CONSTANT ContinueNodes   \* nodes with onError = "continue"

VARIABLES
    statuses,   \* how each node settled, "none" before it did
    carried     \* the edges that delivered a payload

vars == <<source, target, statuses, carried>>

Settled(n) == statuses[n] # "none"

Ready(n) == /\ ~Settled(n)
            /\ \A e \in In(n) : Settled(source[e])

Unfed(n) == In(n) # {} /\ In(n) \cap carried = {}

Settle(n, status, edges) ==
    /\ Ready(n)
    /\ statuses' = [statuses EXCEPT ![n] = status]
    /\ carried' = carried \cup edges
    /\ UNCHANGED graph

Skip(n) == Unfed(n) /\ Settle(n, "skipped", {})

Succeed(n) ==
    /\ ~Unfed(n)
    /\ \E taken \in SUBSET DataOut(n) : Settle(n, "succeeded", taken)

Route(n) ==
    /\ ~Unfed(n)
    /\ ErrorOut(n) # {}
    /\ Settle(n, "failed_routed", ErrorOut(n))

Continue(n) ==
    /\ ~Unfed(n)
    /\ ErrorOut(n) = {}
    /\ n \in ContinueNodes
    /\ \E taken \in SUBSET DataOut(n) : Settle(n, "failed_continued", taken)

Fail(n) ==
    /\ ~Unfed(n)
    /\ ErrorOut(n) = {}
    /\ n \notin ContinueNodes
    /\ Settle(n, "failed", {})

Init == /\ GraphTypeOK
        /\ statuses = [n \in Nodes |-> "none"]
        /\ carried = {}

Next == \E n \in Nodes :
            Skip(n) \/ Succeed(n) \/ Route(n) \/ Continue(n) \/ Fail(n)

Spec == Init /\ [][Next]_vars
=============================================================================
