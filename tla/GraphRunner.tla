---------------------------- MODULE GraphRunner ----------------------------
(***************************************************************************)
(* NodeGraphRunner.run (packages/xflows-engine/xflows_engine/graph.py).    *)
(*                                                                         *)
(* run() sorts the graph, then awaits one asyncio.gather per batch.  Each  *)
(* node of a batch is a task: it pops its deliveries, executes (the await  *)
(* during which the others run), and pushes to the queues of its targets.  *)
(* The callers wrap run() in asyncio.wait_for, which may cancel it.        *)
(*                                                                         *)
(* Abstracted: payloads (a delivery is the edge it came by; its content is *)
(* a function of how the source settled), and which `when` predicates hold *)
(* (any subset of the well-formed ones).                                   *)
(***************************************************************************)
EXTENDS WorkflowGraph

CONSTANTS
    ContinueNodes,   \* nodes with onError = "continue"
    BadWhen,         \* data edges whose `when` raises WhenSyntaxError
    NoNode           \* "no exception recorded"

ASSUME RunnerAssumption == /\ ContinueNodes \subseteq Nodes
                           /\ BadWhen \subseteq Edges \ ErrorEdges
                           /\ NoNode \notin Nodes

VARIABLES
    phase,     \* the coroutine run()
    task,      \* the task of each node
    pending,   \* deliveries pushed to a node and not popped yet
    input,     \* deliveries a node popped: its local `deliveries`
    statuses,  \* the dict `statuses`; "none" when the key is absent
    failure    \* the node whose exception is kept in `failure`

nodeVars == <<task, pending, input, statuses, failure>>
vars == <<source, target, phase, task, pending, input, statuses, failure>>

Phases   == {"sorting", "running", "returned", "raised", "invalid", "cancelled"}
Tasks    == {"none", "scheduled", "executing", "done", "cancelled"}
Statuses == {"none", "skipped", "succeeded", "failed_routed",
             "failed_continued", "failed"}

(* Types of the graph and of the runner's own state. *)
TypeOK ==
    /\ GraphTypeOK
    /\ phase \in Phases
    /\ task \in [Nodes -> Tasks]
    /\ pending \in [Nodes -> SUBSET Edges]
    /\ input \in [Nodes -> SUBSET Edges]
    /\ statuses \in [Nodes -> Statuses]
    /\ failure \in Nodes \cup {NoNode}

Live(n)   == task[n] \in {"scheduled", "executing"}
Batched   == {n \in Nodes : task[n] # "none"}
BatchOver == \A n \in Nodes : ~Live(n)

-----------------------------------------------------------------------------
Init ==
    /\ GraphTypeOK
    /\ phase = "sorting"
    /\ task = [n \in Nodes |-> "none"]
    /\ pending = [n \in Nodes |-> {}]
    /\ input = [n \in Nodes |-> {}]
    /\ statuses = [n \in Nodes |-> "none"]
    /\ failure = NoNode

(* topo_sort, before anything executes: ValueError on a cycle. *)
Sort ==
    /\ phase = "sorting"
    /\ phase' = IF Acyclic THEN "running" ELSE "invalid"
    /\ UNCHANGED <<graph, nodeVars>>

(* The next asyncio.gather: one task per node of the level. *)
OpenBatch ==
    /\ phase = "running"
    /\ BatchOver
    /\ failure = NoNode
    /\ NextBatch(Batched) # {}
    /\ task' = [n \in Nodes |->
                  IF n \in NextBatch(Batched) THEN "scheduled" ELSE task[n]]
    /\ UNCHANGED <<graph, phase, pending, input, statuses, failure>>

(* Mutant: an AND-join (skip unless every edge has delivered).             *)
SkipNodeUnlessAll(n) ==
    /\ task[n] = "scheduled" /\ pending[n] # In(n)
    /\ statuses' = [statuses EXCEPT ![n] = "skipped"]
    /\ task' = [task EXCEPT ![n] = "done"]
    /\ UNCHANGED <<graph, phase, pending, input, failure>>

(* run_node, up to its first await: nothing delivered to a node that has   *)
(* incoming edges.                                                         *)
SkipNode(n) ==
    /\ task[n] = "scheduled"
    /\ pending[n] = {}
    /\ In(n) # {}
    /\ statuses' = [statuses EXCEPT ![n] = "skipped"]
    /\ task' = [task EXCEPT ![n] = "done"]
    /\ UNCHANGED <<graph, phase, pending, input, failure>>

(* Mutants: get instead of pop; start only when every edge has delivered.  *)
StartNodeWithoutPop(n) ==
    /\ task[n] = "scheduled" /\ (pending[n] # {} \/ In(n) = {})
    /\ input' = [input EXCEPT ![n] = pending[n]]
    /\ task' = [task EXCEPT ![n] = "executing"]
    /\ UNCHANGED <<graph, phase, pending, statuses, failure>>

StartNodeWhenAll(n) ==
    /\ task[n] = "scheduled" /\ pending[n] = In(n)
    /\ input' = [input EXCEPT ![n] = pending[n]]
    /\ pending' = [pending EXCEPT ![n] = {}]
    /\ task' = [task EXCEPT ![n] = "executing"]
    /\ UNCHANGED <<graph, phase, statuses, failure>>

(* run_node, up to `await execute_node`: the deliveries are popped.        *)
StartNode(n) ==
    /\ task[n] = "scheduled"
    /\ pending[n] # {} \/ In(n) = {}
    /\ input' = [input EXCEPT ![n] = pending[n]]
    /\ pending' = [pending EXCEPT ![n] = {}]
    /\ task' = [task EXCEPT ![n] = "executing"]
    /\ UNCHANGED <<graph, phase, statuses, failure>>

Push(edges) ==
    pending' = [m \in Nodes |-> pending[m] \cup {e \in edges : target[e] = m}]

Settle(n, status) ==
    /\ task[n] = "executing"
    /\ task' = [task EXCEPT ![n] = "done"]
    /\ statuses' = [statuses EXCEPT ![n] = status]

(* deliver_data: push along the data edges whose predicate holds.  A       *)
(* malformed predicate raises out of run_node, through the gather: run()   *)
(* raises at once, and the other tasks of the batch go on by themselves.   *)
DeliverData(n) ==
    /\ \E taken \in SUBSET (DataOut(n) \ BadWhen) : Push(taken)
    /\ phase' = IF DataOut(n) \cap BadWhen # {} /\ phase = "running"
                THEN "raised" ELSE phase
    /\ UNCHANGED <<graph, input, failure>>

(* execute_node returned. *)
NodeSucceeds(n) ==
    /\ Settle(n, "succeeded")
    /\ DeliverData(n)

(* execute_node raised and the node has an error edge: deliver_error. *)
NodeFailsRouted(n) ==
    /\ ErrorOut(n) # {}
    /\ Settle(n, "failed_routed")
    /\ Push(ErrorOut(n))
    /\ UNCHANGED <<graph, phase, input, failure>>

(* execute_node raised, no error edge, onError = "continue": the fallback  *)
(* payload goes down the data edges.                                       *)
NodeFailsContinued(n) ==
    /\ ErrorOut(n) = {}
    /\ n \in ContinueNodes
    /\ Settle(n, "failed_continued")
    /\ DeliverData(n)

(* execute_node raised and nothing handles it: the first one is kept. *)
NodeFails(n) ==
    /\ ErrorOut(n) = {}
    /\ n \notin ContinueNodes
    /\ Settle(n, "failed")
    /\ failure' = IF failure = NoNode THEN n ELSE failure
    /\ UNCHANGED <<graph, phase, pending, input>>

(* The gather is over and an exception was kept: raise failure. *)
RaiseFailure ==
    /\ phase = "running"
    /\ BatchOver
    /\ failure # NoNode
    /\ phase' = "raised"
    /\ UNCHANGED <<graph, nodeVars>>

(* No batch is left: return outputs, order, statuses. *)
Return ==
    /\ phase = "running"
    /\ BatchOver
    /\ failure = NoNode
    /\ NextBatch(Batched) = {}
    /\ phase' = "returned"
    /\ UNCHANGED <<graph, nodeVars>>

(* Mutant: the gather is shielded, its tasks survive the cancellation.     *)
CancelShielded ==
    /\ phase = "running"
    /\ phase' = "cancelled"
    /\ UNCHANGED <<graph, nodeVars>>

(* wait_for gives up: run() is cancelled, and with it the gather's tasks.  *)
(* CancelledError is not an Exception, so no handler of run_node sees it.  *)
Cancel ==
    /\ phase = "running"
    /\ phase' = "cancelled"
    /\ task' = [n \in Nodes |-> IF Live(n) THEN "cancelled" ELSE task[n]]
    /\ UNCHANGED <<graph, pending, input, statuses, failure>>

StepNode(n) == \/ SkipNode(n)
               \/ StartNode(n)
               \/ NodeSucceeds(n)
               \/ NodeFailsRouted(n)
               \/ NodeFailsContinued(n)
               \/ NodeFails(n)

StepRun == Sort \/ OpenBatch \/ RaiseFailure \/ Return

Next == StepRun \/ Cancel \/ \E n \in Nodes : StepNode(n)

(* The event loop runs every ready task, and every execute_node ends:      *)
(* activities have a schedule-to-close timeout, local nodes a wait_for.    *)
(* Nothing is assumed about the run timeout.                               *)
Fairness == WF_vars(StepRun) /\ \A n \in Nodes : WF_vars(StepNode(n))

Spec == Init /\ [][Next]_vars /\ Fairness

-----------------------------------------------------------------------------
(* An edge that delivered a payload, still queued or already consumed. *)
Delivered(e) == e \in pending[target[e]] \cup input[target[e]]
Carried == {e \in Edges : Delivered(e)}

(* A node enters a batch only after every node that feeds it has settled,  *)
(* whatever the order in which the tasks of earlier batches finished.      *)
PredecessorsSettled ==
    \A n \in Batched : \A e \in In(n) : statuses[source[e]] # "none"

(* pending.pop takes everything a node will ever get: once a node has      *)
(* popped (or was skipped), no delivery is left behind or arrives later.   *)
NoDeliveryLost ==
    \A n \in Nodes : task[n] \in {"executing", "done"} => pending[n] = {}

(* Error edges carry exactly the failures they handle, data edges only     *)
(* results and fallbacks: no edge fires on the wrong kind of outcome.      *)
EdgesFollowOutcome ==
    \A e \in Edges :
        IF e \in ErrorEdges
        THEN Delivered(e) <=> statuses[source[e]] = "failed_routed"
        ELSE Delivered(e) => statuses[source[e]] \in {"succeeded", "failed_continued"}

(* run() returns only when every node of the graph has settled and no      *)
(* failure went unhandled.                                                 *)
ReturnedMeansSettled ==
    phase = "returned" => \A n \in Nodes : statuses[n] \notin {"none", "failed"}

(* When run() is over none of its node tasks still executes, except after  *)
(* a malformed `when` raised through the gather: then the siblings of that *)
(* node keep executing although the run has already failed.                *)
OrphansOnlyAfterBadWhen ==
    phase \in {"returned", "raised", "cancelled"} /\ ~BatchOver =>
        \E e \in BadWhen : statuses[source[e]] \in {"succeeded", "failed_continued"}

(* After an unhandled failure, or once run() has ended, no further node is *)
(* started in a later batch.                                               *)
NoBatchAfterEnd ==
    [][failure # NoNode \/ phase # "running" => Batched' = Batched]_vars

(* Every run ends, and the tasks it created end too. *)
Terminates ==
    <>[](phase \in {"returned", "raised", "invalid", "cancelled"} /\ BatchOver)

(* The batched runner implements the dataflow promise: each node settles   *)
(* once, after its predecessors, skipped exactly when unfed, and its edges *)
(* carry what its outcome decides.                                         *)
Promise == INSTANCE Dataflow WITH carried <- Carried
ImplementsDataflow == Promise!Spec
=============================================================================
