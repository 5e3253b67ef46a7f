------------------------------ MODULE RunTree ------------------------------
(***************************************************************************)
(* XFlowsWorkflow.run (apps/workers/app/workflows.py) from the document it *)
(* is given to the events it leaves, together with the child workflows     *)
(* that its SubWorkflow nodes start, which may have children of their own. *)
(*                                                                         *)
(* An execution is known by its path: <<>> is the run the API created, and *)
(* node n of execution p starts execution p \o <<n>> (run_id:node_id).     *)
(* Only <<>> has a record; the API answers 404 to posts about any other    *)
(* path, and the worker does not look at the answer.                       *)
(*                                                                         *)
(* What Temporal (temporalio 1.8.0, Python 3.11) makes of the code, and    *)
(* the module takes as given: an exception that leaves run() closes the    *)
(* execution if it is one of Temporal's or a timeout, and is otherwise a   *)
(* failure of the workflow task, which is tried again for ever (worker.py  *)
(* and the calls that start workflows set nothing else).  An activity that *)
(* is cancelled, or times out, is over for the workflow, which gets an     *)
(* ActivityError, while its worker goes on: it sends no heartbeats that    *)
(* could tell it.  A child that is asked to cancel is awaited, and is      *)
(* terminated when its parent has closed.                                  *)
(*                                                                         *)
(* The order of deliveries inside a batch is the subject of GraphRunner,   *)
(* attempts that of NodeExecution, decisions that of ApprovalGate, and the *)
(* stages of a pipeline that of ApiGenPipeline.                            *)
(***************************************************************************)
EXTENDS Naturals, Sequences, SequencesExt

CONSTANTS
    Documents,   \* workflow definitions, by name (see Top)
    Started,     \* names of those a run is created for
    MaxDepth,    \* bound: length of a path
    MaxLost      \* bound: publishes that are lost, reporting activities that raise

VARIABLES
    exec,   \* the executions that have been started, by path
    events, \* the events of the run that matter here
    adrift, \* those that workers may still publish for activities given up on
    lost

treeVars == <<exec, events, adrift, lost>>

-----------------------------------------------------------------------------
(* A document has nodes [id, parent, kind, ref, continues], in order, and  *)
(* edges [source, target, kind, when]; parent is "" for a top-level node,  *)
(* ref the definition a SubWorkflow node names.                            *)
Top(d)         == {r \in Range(Documents[d].nodes) : r.parent = ""}
Children(d, n) == SelectSeq(Documents[d].nodes, LAMBDA r : r.parent = n)
Ids(d)         == {r.id : r \in Top(d)}

(* normalize_workflow_graph: a container takes on the component and        *)
(* parameters of its first child; what else has a parent disappears, and   *)
(* so do config edges and edges that no longer have two ends.              *)
Merged(d, n) ==
    LET own == CHOOSE r \in Top(d) : r.id = n
    IN IF Children(d, n) = <<>> THEN own
       ELSE [own EXCEPT !.kind = Head(Children(d, n)).kind,
                        !.ref  = Head(Children(d, n)).ref]

Kinds == {"Activity", "Wait", "Approval", "Pipeline", "Stored", "Inline"}

(* An inline definition is part of the document that holds it.             *)
ASSUME TreeAssumption ==
    /\ Started \subseteq DOMAIN Documents
    /\ MaxDepth \in Nat /\ MaxLost \in Nat
    /\ \A d \in DOMAIN Documents :
          /\ Documents[d].nodes \in Seq(Range(Documents[d].nodes))
          /\ "" \notin Ids(d)
          /\ \A n \in Ids(d) :
                /\ Merged(d, n).kind \in Kinds
                /\ Merged(d, n).kind = "Inline" => Merged(d, n).ref \in DOMAIN Documents

Edges(d) == {e \in Documents[d].edges : /\ e.kind \in {"data", "error"}
                                        /\ e.source \in Ids(d)
                                        /\ e.target \in Ids(d)}

In(d, n) == {e \in Edges(d) : e.target = n}

HasErrorEdge(d, n) == \E e \in Edges(d) : e.source = n /\ e.kind = "error"

(* topo_sort *)
Acyclic(d) == \A S \in SUBSET Ids(d) \ {{}} :
                  \E n \in S : \A e \in In(d, n) : e.source \notin S

-----------------------------------------------------------------------------
(* raised tells Temporal's exceptions ("failure") from the "other".        *)
Fresh(d) == [def |-> d, phase |-> "running", returned |-> FALSE, raised |-> "none",
             result |-> "none", node |-> [n \in Ids(d) |-> "new"]]

TreeInit ==
    /\ \E d \in Started : exec = [p \in {<<>>} |-> Fresh(d)]
    /\ events = <<>>
    /\ adrift = {}
    /\ lost = 0

Settled == {"succeeded", "skipped", "routed", "continued", "failed", "cancelled", "interrupted"}
Active  == {"working", "waiting", "preparing", "parked", "noting", "pipeline", "loading", "child"}

Phase(p)   == exec[p].phase
Node(p, n) == exec[p].node[n]
Kind(p, n) == Merged(exec[p].def, n)
Idle(p)    == \A n \in DOMAIN exec[p].node : Node(p, n) \notin Active
Below(p, n) == Append(p, n)

SetNode(p, n, s) == exec' = [exec EXCEPT ![p].node[n] = s]
NoPosts == UNCHANGED <<events, adrift, lost>>

(* Posts about path p: rows, 404s, or nothing. *)
About(p, E) == IF p = <<>> THEN E ELSE {}

Logged(p, e) == events' = IF p = <<>> THEN Append(events, e) ELSE events

Publish(p, e) ==
    /\ UNCHANGED adrift
    /\ \/ Logged(p, e) /\ UNCHANGED lost
       \/ /\ p = <<>>
          /\ lost < MaxLost
          /\ lost' = lost + 1
          /\ UNCHANGED events

(* An activity that reports times out, before or after the post. *)
PostRaises(p, e) ==
    /\ lost < MaxLost
    /\ lost' = lost + 1
    /\ \/ Logged(p, e) /\ UNCHANGED adrift
       \/ UNCHANGED events /\ adrift' = adrift \cup About(p, {e})

Event(type, n) == [type |-> type, node |-> n]

(* What a worker that is given up on may still publish about node n;       *)
(* node_event stands for the events of execute_node and record_approval.   *)
Late(p, n) ==
    CASE Node(p, n) \in {"working", "noting"} -> About(p, {Event("node_event", n)})
      [] Node(p, n) = "preparing" -> About(p, {Event("run_awaiting_review", n)})
      [] Node(p, n) = "pipeline" -> About(p, {Event("run_succeeded", n), Event("run_failed", n)})
      [] OTHER -> {}

AllLate(p) == UNION {Late(p, n) : n \in DOMAIN exec[p].node}

(* It does so, or comes to nothing. *)
LateEvent(e) ==
    /\ adrift' = adrift \ {e}
    /\ events' \in {events, Append(events, e)}
    /\ UNCHANGED <<exec, lost>>

-----------------------------------------------------------------------------
(* The document fails its validation or has a cycle. *)
Refuse(p) ==
    /\ Phase(p) = "running"
    /\ ~(Documents[exec[p].def].valid /\ Acyclic(exec[p].def))
    /\ exec' = [exec EXCEPT ![p].phase = "failing", ![p].raised = "other"]
    /\ NoPosts

(* Edges that may deliver, and those that do whatever the payload is. *)
MayDeliver(p, e) ==
    IF e.kind = "error" THEN Node(p, e.source) = "routed"
                        ELSE Node(p, e.source) \in {"succeeded", "continued"}
Delivers(p, e) == MayDeliver(p, e) /\ (e.kind = "error" \/ ~e.when)

FirstAwait(k) == CASE k = "Activity" -> "working"   [] k = "Wait" -> "waiting"
                   [] k = "Approval" -> "preparing" [] k = "Pipeline" -> "pipeline"
                   [] k = "Stored"   -> "loading"   [] k = "Inline" -> "child"

(* The next level of the graph starts as a whole once the last has ended   *)
(* without an unhandled failure; nodes nothing was delivered to are        *)
(* skipped.                                                                *)
OpenBatch(p) ==
    LET d == exec[p].def
        level == {n \in Ids(d) : /\ Node(p, n) = "new"
                                 /\ \A e \in In(d, n) : Node(p, e.source) \in Settled}
        idle == {n \in level : In(d, n) # {} /\ ~\E e \in In(d, n) : Delivers(p, e)}
        starved == {n \in idle : ~\E e \in In(d, n) : MayDeliver(p, e)}
    IN /\ Phase(p) = "running"
       /\ Documents[d].valid /\ Acyclic(d)
       /\ Idle(p) /\ level # {}
       /\ \A n \in Ids(d) : Node(p, n) # "failed"
       /\ \E skipped \in SUBSET idle :
              /\ starved \subseteq skipped
              /\ exec' = [exec EXCEPT ![p].node =
                     [n \in Ids(d) |-> CASE n \in skipped -> "skipped"
                                         [] n \in level \ skipped -> FirstAwait(Kind(p, n).kind)
                                         [] OTHER -> @[n]]]
       /\ NoPosts

(* What run_node makes of an exception. *)
Fails(p, n) ==
    SetNode(p, n, IF HasErrorEdge(exec[p].def, n) THEN "routed"
                  ELSE IF Kind(p, n).continues THEN "continued" ELSE "failed")

(* xflows.execute_node, xflows.record_approval, and the timer of a Wait    *)
(* node, which cannot fail.                                                *)
NodeReturns(p, n) ==
    /\ Node(p, n) \in {"working", "waiting", "noting"}
    /\ SetNode(p, n, "succeeded")
    /\ NoPosts

(* An activity raises, or its time is over and its worker goes on. *)
NodeRaises(p, n) ==
    /\ Node(p, n) \in {"working", "noting", "loading"}
    /\ Fails(p, n)
    /\ adrift' \in {adrift, adrift \cup Late(p, n)}
    /\ UNCHANGED <<events, lost>>

(* xflows.prepare_approval announces the review of its own path. *)
Prepare(p, n) ==
    /\ Node(p, n) = "preparing"
    /\ \/ SetNode(p, n, "parked") /\ Publish(p, Event("run_awaiting_review", n))
       \/ Fails(p, n) /\ PostRaises(p, Event("run_awaiting_review", n))

(* A gate ends by a decision, which only the run can be sent since there   *)
(* is no record to look up under another path, or by its timer.            *)
GateEnds(p, n) ==
    /\ Node(p, n) = "parked"
    /\ SetNode(p, n, "noting")
    /\ NoPosts

(* An APIGen pipeline is given the path of its parent to report about.     *)
PipelineEnds(p, n) ==
    /\ Node(p, n) = "pipeline"
    /\ \/ SetNode(p, n, "succeeded") /\ Publish(p, Event("run_succeeded", n))
       \/ Fails(p, n) /\ Publish(p, Event("run_failed", n))
       \/ SetNode(p, n, "succeeded") /\ NoPosts
       \/ Fails(p, n) /\ NoPosts

(* xflows.load_workflow has found a definition. *)
Load(p, n) ==
    /\ Node(p, n) = "loading"
    /\ Kind(p, n).ref \in DOMAIN Documents
    /\ SetNode(p, n, "child")
    /\ NoPosts

StartChild(p, n) ==
    /\ Phase(p) = "running"
    /\ Node(p, n) = "child"
    /\ Below(p, n) \notin DOMAIN exec
    /\ Len(p) < MaxDepth
    /\ exec' = [q \in DOMAIN exec \cup {Below(p, n)} |->
                   IF q = Below(p, n) THEN Fresh(Kind(p, n).ref) ELSE exec[q]]
    /\ NoPosts

(* _subworkflow_result: the child has closed; one whose task fails for     *)
(* ever is awaited for ever.                                               *)
ChildEnds(p, n) ==
    /\ Node(p, n) = "child" /\ Phase(p) # "closed"
    /\ Below(p, n) \in DOMAIN exec /\ Phase(Below(p, n)) = "closed"
    /\ IF exec[Below(p, n)].result = "succeeded" THEN SetNode(p, n, "succeeded")
                                                ELSE Fails(p, n)
    /\ NoPosts

-----------------------------------------------------------------------------
(* NodeGraphRunner.run returns; a graph without nodes has no output node.  *)
Return(p) ==
    /\ Phase(p) = "running"
    /\ Documents[exec[p].def].valid
    /\ \A n \in Ids(exec[p].def) : Node(p, n) \in Settled \ {"failed"}
    /\ exec' = [exec EXCEPT ![p].returned = TRUE,
                            ![p].phase = IF Ids(exec[p].def) = {} THEN "failing" ELSE "succeeding",
                            ![p].raised = IF Ids(exec[p].def) = {} THEN "other" ELSE "none"]
    /\ NoPosts

(* What a node has raised: Temporal's exception for its activity or child, *)
(* or a ValueError of _run_subworkflow_node, for a pipeline that returns   *)
(* another status than "succeeded" or for a node that names no workflow.   *)
Raises(p, n) ==
    IF Kind(p, n).kind = "Pipeline" THEN {"failure", "other"}
    ELSE IF Kind(p, n).kind = "Stored" /\ Kind(p, n).ref = "" THEN {"other"} ELSE {"failure"}

(* It raises the first failure, and its statuses are lost with it. *)
Raise(p) ==
    /\ Phase(p) = "running"
    /\ Idle(p)
    /\ \E n \in Ids(exec[p].def) :
          /\ Node(p, n) = "failed"
          /\ \E error \in Raises(p, n) :
                exec' = [exec EXCEPT ![p].phase = "failing", ![p].raised = error]
    /\ NoPosts

(* A cancellation of the graph: timers and conditions raise CancelledError *)
(* past run_node, and activities and children not yet started an error     *)
(* that run_node catches, their workers going on; children and pipelines   *)
(* that run are asked to cancel, and awaited.                              *)
Stopped(p) ==
    [n \in DOMAIN exec[p].node |->
        IF Node(p, n) \in {"waiting", "parked"} THEN "interrupted"
        ELSE IF \/ Node(p, n) \in {"working", "preparing", "noting", "loading"}
                \/ Node(p, n) = "child" /\ Below(p, n) \notin DOMAIN exec
        THEN "cancelled" ELSE Node(p, n)]

Stop(p, phase) ==
    /\ Phase(p) = "running"
    /\ exec' = [exec EXCEPT ![p].phase = phase, ![p].node = Stopped(p)]
    /\ adrift' = adrift \cup UNION {Late(p, n) : n \in {m \in DOMAIN exec[p].node :
                                                           Stopped(p)[m] = "cancelled"}}
    /\ UNCHANGED <<events, lost>>

(* Mutant: the run timeout does not interrupt a SubWorkflow node.          *)
TimeOutBetweenChildren(p) ==
    /\ \A n \in DOMAIN exec[p].node : Node(p, n) # "child"
    /\ Stop(p, "timing_out")

TimeOut(p) == Stop(p, "timing_out")

(* The end of an execution ends what it awaits.                            *)
Torn(p) == [n \in DOMAIN exec[p].node |->
               IF Node(p, n) \in Active \ {"child"} THEN "cancelled" ELSE Node(p, n)]

CutOff(p, result) ==
    exec' = [exec EXCEPT ![p].phase = "closed", ![p].result = result, ![p].node = Torn(p)]

(* A parent that has stopped asks an execution to cancel.  The graph is    *)
(* interrupted, or the wait for a graph that timed out; a report under way *)
(* fails, and what is raised then is Temporal's; the record of the nodes   *)
(* goes on, and an execution whose task fails for ever does, too.          *)
Cancel(p) ==
    /\ p # <<>> /\ Phase(Front(p)) # "running" /\ Node(Front(p), Last(p)) = "child"
    /\ \/ Stop(p, "cancelling")
       \/ Phase(p) = "timing_out" /\ CutOff(p, "cancelled") /\ NoPosts
       \/ /\ Phase(p) = "succeeding"
          /\ exec' = [exec EXCEPT ![p].phase = "failing", ![p].raised = "failure"]
          /\ NoPosts
       \/ /\ Phase(p) = "failing"
          /\ exec' = [exec EXCEPT ![p].phase = "recording", ![p].raised = "failure",
                                  ![p].result = "failed"]
          /\ NoPosts

(* The graph has stopped, once its nodes have or one was interrupted, as   *)
(* gather raises the first CancelledError and leaves the other nodes.      *)
(* A timeout is reported, a cancellation is not.                           *)
Interrupted(p) == \E n \in DOMAIN exec[p].node : Node(p, n) = "interrupted"

Halt(p) ==
    /\ Idle(p) \/ Interrupted(p)
    /\ \/ /\ Phase(p) = "timing_out"
          /\ exec' = [exec EXCEPT ![p].phase = "failing", ![p].raised = "failure"]
       \/ Phase(p) = "cancelling" /\ CutOff(p, "cancelled")
    /\ NoPosts

(* Temporal terminates what a closed execution leaves.                     *)
Terminate(p) ==
    /\ p # <<>> /\ Phase(Front(p)) = "closed" /\ Phase(p) # "closed"
    /\ CutOff(p, "terminated")
    /\ NoPosts

-----------------------------------------------------------------------------
(* complete_run("succeeded"); if it raises, the run is reported failed.    *)
ReportSuccess(p) ==
    /\ Phase(p) = "succeeding"
    /\ \/ /\ exec' = [exec EXCEPT ![p].phase = "recording", ![p].result = "succeeded"]
          /\ Publish(p, Event("run_succeeded", ""))
       \/ /\ exec' = [exec EXCEPT ![p].phase = "failing", ![p].raised = "failure"]
          /\ PostRaises(p, Event("run_succeeded", ""))

(* complete_run("failed"); what it raises replaces the error it reports. *)
ReportFailure(p) ==
    /\ Phase(p) = "failing"
    /\ \/ /\ exec' = [exec EXCEPT ![p].phase = "recording", ![p].result = "failed"]
          /\ Publish(p, Event("run_failed", ""))
       \/ /\ exec' = [exec EXCEPT ![p].phase = "recording", ![p].result = "failed",
                                  ![p].raised = "failure"]
          /\ PostRaises(p, Event("run_failed", ""))

(* Mutant: only skips are told.                                            *)
ToldSkips(p) == IF exec[p].returned
                THEN {n \in DOMAIN exec[p].node : Node(p, n) = "skipped"} ELSE {}

(* The nodes record_node_statuses tells of. *)
Told(p) == IF exec[p].returned
           THEN {n \in DOMAIN exec[p].node : Node(p, n) \in {"skipped", "routed"}} ELSE {}

StatusEvent(p, n) ==
    Event(IF Node(p, n) = "skipped" THEN "node_skipped" ELSE "node_routed_to_error", n)

(* record_node_statuses, after the run has been reported; some of its      *)
(* posts may be lost or come late.  Then run() is over.                    *)
Record(p) ==
    /\ Phase(p) = "recording"
    /\ exec' = [exec EXCEPT ![p].phase = IF exec[p].raised = "other" THEN "stuck" ELSE "closed",
                            ![p].node = Torn(p)]
    /\ \E S \in SUBSET Told(p) :
           /\ \/ S = Told(p) /\ UNCHANGED lost
              \/ p = <<>> /\ S # Told(p) /\ lost < MaxLost /\ lost' = lost + 1
           /\ \E T \in {{}, Told(p) \ S} :
                 adrift' = adrift \cup AllLate(p) \cup About(p, {StatusEvent(p, n) : n \in T})
           /\ IF p = <<>>
              THEN \E s \in SetToSeqs(S) : events' = events \o [i \in DOMAIN s |-> StatusEvent(p, s[i])]
              ELSE UNCHANGED events

-----------------------------------------------------------------------------
TreeNext ==
    \/ \E p \in DOMAIN exec : Refuse(p)
    \/ \E p \in DOMAIN exec : OpenBatch(p)
    \/ \E p \in DOMAIN exec : Return(p)
    \/ \E p \in DOMAIN exec : Raise(p)
    \/ \E p \in DOMAIN exec : TimeOut(p)
    \/ \E p \in DOMAIN exec : Cancel(p)
    \/ \E p \in DOMAIN exec : Halt(p)
    \/ \E p \in DOMAIN exec : Terminate(p)
    \/ \E e \in adrift : LateEvent(e)
    \/ \E p \in DOMAIN exec : ReportSuccess(p)
    \/ \E p \in DOMAIN exec : ReportFailure(p)
    \/ \E p \in DOMAIN exec : Record(p)
    \/ \E p \in DOMAIN exec : \E n \in DOMAIN exec[p].node : NodeReturns(p, n)
    \/ \E p \in DOMAIN exec : \E n \in DOMAIN exec[p].node : NodeRaises(p, n)
    \/ \E p \in DOMAIN exec : \E n \in DOMAIN exec[p].node : Prepare(p, n)
    \/ \E p \in DOMAIN exec : \E n \in DOMAIN exec[p].node : GateEnds(p, n)
    \/ \E p \in DOMAIN exec : \E n \in DOMAIN exec[p].node : PipelineEnds(p, n)
    \/ \E p \in DOMAIN exec : \E n \in DOMAIN exec[p].node : Load(p, n)
    \/ \E p \in DOMAIN exec : \E n \in DOMAIN exec[p].node : StartChild(p, n)
    \/ \E p \in DOMAIN exec : \E n \in DOMAIN exec[p].node : ChildEnds(p, n)

(* Temporal goes on with every workflow, activity and timer; reviewers are *)
(* not needed.                                                             *)
TreeSpec == TreeInit /\ [][TreeNext]_treeVars /\ WF_treeVars(TreeNext)

-----------------------------------------------------------------------------
Ended     == {"closed", "stuck"}
Reporting == {"succeeding", "failing", "recording"} \cup Ended

(* Where the run itself, and no pipeline of it, is reported ended.         *)
Reports == {i \in DOMAIN events : /\ events[i].node = ""
                                  /\ events[i].type \in {"run_succeeded", "run_failed"}}

(* An execution that left its children: a Wait node or a gate beside them  *)
(* was interrupted, or it was itself cancelled or terminated.              *)
Left(p) == Interrupted(p) \/ exec[p].result \in {"cancelled", "terminated"}

(* What ended is told, and is over.  An execution that reports its end     *)
(* awaits no node any more and has no descendant that could still act,     *)
(* unless it, or an execution between the two, has left its children.      *)
(* (Workers given up on may still act and publish.)  The log claims        *)
(* success only of a graph that returned, and failure of none that         *)
(* succeeded, and what it says of a node is true.  If nothing was lost it  *)
(* ends with the run's outcome, said once, whatever its pipelines reported *)
(* about the same run, and all the nodes that were skipped or routed, if   *)
(* the graph returned.                                                     *)
OutcomeTold ==
    LET run == exec[<<>>]
    IN /\ \A p \in DOMAIN exec : Phase(p) \in Reporting =>
              /\ Idle(p) \/ Left(p)
              /\ \A q \in DOMAIN exec : IsStrictPrefix(p, q) /\ Phase(q) # "closed" =>
                    \E r \in DOMAIN exec : IsPrefix(p, r) /\ IsStrictPrefix(r, q) /\ Left(r)
       /\ \A i \in Reports :
              /\ events[i].type = "run_succeeded" => run.returned
              /\ events[i].type = "run_failed" => run.result # "succeeded"
       /\ \A i \in DOMAIN events : events[i].type \in {"node_skipped", "node_routed_to_error"} =>
              events[i] = StatusEvent(<<>>, events[i].node)
       /\ run.phase \in Ended /\ lost = 0 =>
              /\ \E i \in Reports :
                    /\ Reports = {i}
                    /\ events[i].type = IF run.result = "succeeded" THEN "run_succeeded"
                                                                   ELSE "run_failed"
              /\ {n \in DOMAIN run.node : \E i \in DOMAIN events :
                                               events[i] = StatusEvent(<<>>, n)}
                     = IF run.returned
                       THEN {n \in DOMAIN run.node : run.node[n] \in {"skipped", "routed"}}
                       ELSE {}

(* Every execution closes, although workflows may include each other       *)
(* without end, since the run's timeout reaches down to the last child;    *)
(* unless its own workflow task, or that of a descendant it awaits, fails  *)
(* for ever, which no timeout ends.                                        *)
TreeEnds ==
    <>[](\A p \in DOMAIN exec :
            Phase(p) = "closed" \/ \E q \in DOMAIN exec : IsPrefix(p, q) /\ Phase(q) = "stuck")
=============================================================================
