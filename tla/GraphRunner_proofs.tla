------------------------ MODULE GraphRunner_proofs ------------------------
(***************************************************************************)
(* Proofs about GraphRunner, for every finite set of nodes and every graph *)
(* on them.  The inductive invariant adds to the properties of GraphRunner *)
(* what ties the runner's variables together: where deliveries sit, which  *)
(* task states have a status, and what run() recorded.                     *)
(*                                                                         *)
(* Then the two loops of GraphOrder, for every order of nodes and edges in *)
(* the document.                                                           *)
(*                                                                         *)
(* At the end, proofs about ApiGenPipeline, the other kind of workflow the *)
(* worker runs, for any numbers of rounds and losses.                      *)
(***************************************************************************)
EXTENDS GraphOrder, ApiGenPipeline, FiniteSetTheorems, SequenceTheorems,
        WellFoundedInduction, TLAPS

(* Deliveries lie in the queue of the node their edge enters; a node that  *)
(* has not started has consumed nothing, one that executes was fed or is a *)
(* root.                                                                   *)
DeliveriesInPlace ==
    \A n \in Nodes : /\ pending[n] \subseteq In(n)
                     /\ input[n] \subseteq In(n)
                     /\ task[n] \in {"none", "scheduled"} => input[n] = {}
                     /\ task[n] = "executing" => input[n] # {} \/ In(n) = {}

(* A node has a status exactly when its task is over. *)
DoneMeansSettled ==
    \A n \in Nodes : statuses[n] # "none" <=> task[n] = "done"

(* Only the cancellation of run() cancels a task. *)
CancelledWithRun ==
    \A n \in Nodes : task[n] = "cancelled" => phase = "cancelled"

(* The exception of some failed node has been kept. *)
FailureRecorded ==
    \A n \in Nodes : statuses[n] = "failed" => failure # NoNode

(* Nothing is scheduled on a graph that has not passed topo_sort. *)
SortedFirst ==
    IF phase \in {"sorting", "invalid"} THEN Batched = {} ELSE Acyclic

(* A run that ended by itself left no task behind, save the orphans. *)
EndedQuietly ==
    /\ phase \in {"returned", "cancelled"} => BatchOver
    /\ phase = "raised" /\ ~BatchOver =>
           \E e \in BadWhen : statuses[source[e]] \in {"succeeded", "failed_continued"}

IndInv ==
    /\ TypeOK
    /\ DeliveriesInPlace
    /\ DoneMeansSettled
    /\ CancelledWithRun
    /\ FailureRecorded
    /\ SortedFirst
    /\ EndedQuietly
    /\ PredecessorsSettled
    /\ NoDeliveryLost
    /\ EdgesFollowOutcome
    /\ ReturnedMeansSettled

NodeInv == /\ DeliveriesInPlace
           /\ DoneMeansSettled
           /\ PredecessorsSettled
           /\ NoDeliveryLost
           /\ EdgesFollowOutcome

-----------------------------------------------------------------------------
(* Types are preserved by every step. *)
LEMMA TypeNext == TypeOK /\ [Next]_vars => TypeOK'
<1> SUFFICES ASSUME TypeOK, [Next]_vars PROVE TypeOK'
  OBVIOUS
<1> USE DEF TypeOK, GraphTypeOK, graph, nodeVars, Phases, Tasks, Statuses
<1>1. CASE StepRun
  BY <1>1 DEF StepRun, Sort, OpenBatch, RaiseFailure, Return
<1>2. CASE Cancel
  BY <1>2 DEF Cancel
<1>3. ASSUME NEW n \in Nodes, StepNode(n) PROVE TypeOK'
  <2>1. CASE SkipNode(n)
    BY <2>1 DEF SkipNode
  <2>2. CASE StartNode(n)
    BY <2>2 DEF StartNode
  <2>3. CASE NodeSucceeds(n)
    BY <2>3 DEF NodeSucceeds, Settle, DeliverData, Push, DataOut, Out
  <2>4. CASE NodeFailsRouted(n)
    BY <2>4 DEF NodeFailsRouted, Settle, Push, ErrorOut, Out
  <2>5. CASE NodeFailsContinued(n)
    BY <2>5 DEF NodeFailsContinued, Settle, DeliverData, Push, DataOut, Out
  <2>6. CASE NodeFails(n)
    BY <2>6 DEF NodeFails, Settle
  <2>q. QED
    BY <1>3, <2>1, <2>2, <2>3, <2>4, <2>5, <2>6 DEF StepNode
<1>4. CASE UNCHANGED vars
  BY <1>4 DEF vars
<1>q. QED
  BY <1>1, <1>2, <1>3, <1>4 DEF Next

(* No step changes the graph, hence whether it is acyclic. *)
LEMMA GraphFixed ==
    [Next]_vars => source' = source /\ target' = target /\ Acyclic' = Acyclic
<1> SUFFICES ASSUME [Next]_vars PROVE source' = source /\ target' = target
  BY DEF Acyclic
<1>q. QED
  BY DEF Next, StepRun, StepNode, Sort, OpenBatch, RaiseFailure, Return, Cancel,
         SkipNode, StartNode, NodeSucceeds, NodeFailsRouted, NodeFailsContinued,
         NodeFails, DeliverData, graph, vars

(* On an acyclic graph some node can be scheduled until all are. *)
LEMMA NextBatchNonempty ==
    ASSUME TypeOK, Acyclic, Batched # Nodes
    PROVE  NextBatch(Batched) # {}
<1> DEFINE rest == Nodes \ Batched
<1>1. rest \in SUBSET Nodes /\ rest # {}
  BY DEF Batched
<1>2. PICK n \in rest : \A e \in Edges : target[e] = n => source[e] \notin rest
  BY <1>1 DEF Acyclic
<1>3. n \in NextBatch(Batched)
  BY <1>2 DEF NextBatch, In, TypeOK, GraphTypeOK
<1>q. QED
  BY <1>3

(* A task that ends with a status and pushes what that status decides      *)
(* disturbs no other node: its targets have not been scheduled yet.        *)
LEMMA SettleAndPush ==
    ASSUME NEW n \in Nodes, NEW status \in Statuses \ {"none"},
           NEW edges \in SUBSET Out(n),
           TypeOK, NodeInv,
           Settle(n, status), Push(edges),
           source' = source, target' = target, input' = input,
           \A e \in Out(n) :
               IF e \in ErrorEdges
               THEN e \in edges <=> status = "failed_routed"
               ELSE e \in edges => status \in {"succeeded", "failed_continued"}
    PROVE  NodeInv'
<1> USE DEF NodeInv, TypeOK, GraphTypeOK, Settle
<1>1. \A m \in Nodes : task[m] # "none" => \A e \in edges : target[e] # m
  BY DEF PredecessorsSettled, Batched, In, Out, DoneMeansSettled
<1>2. \A m \in Nodes : task[m] # "none" => pending'[m] = pending[m]
  BY <1>1 DEF Push
<1>3. \A e \in Edges : Delivered(e)' <=> Delivered(e) \/ e \in edges
  BY DEF Push, Delivered, Out
<1>4. DeliveriesInPlace'
  <2>1. \A m \in Nodes : In(m)' = In(m)
    BY DEF In
  <2>2. \A m \in Nodes : pending'[m] \subseteq In(m)
    BY DEF DeliveriesInPlace, Push, In, Out
  <2>q. QED
    BY <2>1, <2>2 DEF DeliveriesInPlace
<1>5. DoneMeansSettled'
  BY DEF DoneMeansSettled, Statuses
<1>6. PredecessorsSettled'
  BY DEF PredecessorsSettled, Batched, In, Statuses
<1>7. NoDeliveryLost'
  BY <1>2 DEF NoDeliveryLost
<1>8. EdgesFollowOutcome'
  <2> SUFFICES ASSUME NEW e \in Edges
               PROVE  IF e \in ErrorEdges
                      THEN Delivered(e)' <=> statuses'[source[e]] = "failed_routed"
                      ELSE Delivered(e)' =>
                             statuses'[source[e]] \in {"succeeded", "failed_continued"}
    BY DEF EdgesFollowOutcome
  <2>1. CASE source[e] = n
    <3>1. ~Delivered(e)
      BY <2>1 DEF EdgesFollowOutcome, DoneMeansSettled
    <3>q. QED
      BY <2>1, <3>1, <1>3 DEF Out
  <2>2. CASE source[e] # n
    BY <2>2, <1>3 DEF EdgesFollowOutcome, Out
  <2>q. QED
    BY <2>1, <2>2
<1>q. QED
  BY <1>4, <1>5, <1>6, <1>7, <1>8

(* The part of the invariant about nodes and deliveries is preserved. *)
LEMMA NodeInvNext ==
    TypeOK /\ CancelledWithRun /\ NodeInv /\ [Next]_vars => NodeInv'
<1> SUFFICES ASSUME TypeOK, CancelledWithRun, NodeInv, [Next]_vars PROVE NodeInv'
  OBVIOUS
<1>g. source' = source /\ target' = target
  BY GraphFixed
<1>1. CASE Sort \/ RaiseFailure \/ Return \/ UNCHANGED vars
  BY <1>1 DEF Sort, RaiseFailure, Return, vars, nodeVars, graph, NodeInv,
              DeliveriesInPlace, DoneMeansSettled, PredecessorsSettled, Batched,
              NoDeliveryLost, EdgesFollowOutcome, Delivered, In
<1>2. CASE OpenBatch
  <2> USE DEF NodeInv, TypeOK
  <2>1. DeliveriesInPlace' /\ DoneMeansSettled' /\ NoDeliveryLost'
    BY <1>2, <1>g DEF OpenBatch, DeliveriesInPlace, DoneMeansSettled,
                      NoDeliveryLost, NextBatch, Batched, In
  <2>2. PredecessorsSettled'
    <3>1. \A n \in Batched : statuses[n] # "none"
      BY <1>2 DEF OpenBatch, BatchOver, Live, Batched, CancelledWithRun,
                  DoneMeansSettled, Tasks
    <3>q. QED
      BY <1>2, <1>g, <3>1 DEF OpenBatch, PredecessorsSettled, NextBatch, Batched, In
  <2>3. EdgesFollowOutcome'
    BY <1>2, <1>g DEF OpenBatch, EdgesFollowOutcome, Delivered
  <2>q. QED
    BY <2>1, <2>2, <2>3
<1>3. CASE Cancel
  BY <1>3, <1>g DEF Cancel, Live, NodeInv, TypeOK, DeliveriesInPlace,
                    DoneMeansSettled, PredecessorsSettled, Batched,
                    NoDeliveryLost, EdgesFollowOutcome, Delivered, In
<1>4. ASSUME NEW n \in Nodes, SkipNode(n) PROVE NodeInv'
  <2> USE DEF NodeInv, TypeOK, SkipNode
  <2>1. DeliveriesInPlace' /\ DoneMeansSettled' /\ NoDeliveryLost'
    BY <1>4, <1>g DEF DeliveriesInPlace, DoneMeansSettled, NoDeliveryLost, In
  <2>2. PredecessorsSettled'
    BY <1>4, <1>g DEF PredecessorsSettled, Batched, In, GraphTypeOK
  <2>3. EdgesFollowOutcome'
    BY <1>4, <1>g DEF EdgesFollowOutcome, Delivered, DoneMeansSettled, GraphTypeOK
  <2>q. QED
    BY <2>1, <2>2, <2>3
<1>5. ASSUME NEW n \in Nodes, StartNode(n) PROVE NodeInv'
  <2> USE DEF NodeInv, TypeOK, StartNode
  <2>1. DeliveriesInPlace' /\ DoneMeansSettled' /\ NoDeliveryLost'
    BY <1>5, <1>g DEF DeliveriesInPlace, DoneMeansSettled, NoDeliveryLost, In
  <2>2. PredecessorsSettled'
    BY <1>5, <1>g DEF PredecessorsSettled, Batched, In
  <2>3. \A e \in Edges : Delivered(e)' <=> Delivered(e)
    BY <1>5, <1>g DEF Delivered, DeliveriesInPlace, GraphTypeOK
  <2>4. EdgesFollowOutcome'
    BY <1>5, <1>g, <2>3 DEF EdgesFollowOutcome
  <2>q. QED
    BY <2>1, <2>2, <2>4
<1>6. ASSUME NEW n \in Nodes, NodeSucceeds(n) PROVE NodeInv'
  <2>1. PICK taken \in SUBSET (DataOut(n) \ BadWhen) : Push(taken)
    BY <1>6 DEF NodeSucceeds, DeliverData
  <2>q. QED
    BY <1>6, <1>g, <2>1, SettleAndPush
    DEF NodeSucceeds, DeliverData, DataOut, Statuses
<1>7. ASSUME NEW n \in Nodes, NodeFailsRouted(n) PROVE NodeInv'
  BY <1>7, <1>g, SettleAndPush DEF NodeFailsRouted, ErrorOut, Statuses
<1>8. ASSUME NEW n \in Nodes, NodeFailsContinued(n) PROVE NodeInv'
  <2>1. PICK taken \in SUBSET (DataOut(n) \ BadWhen) : Push(taken)
    BY <1>8 DEF NodeFailsContinued, DeliverData
  <2>q. QED
    BY <1>8, <1>g, <2>1, SettleAndPush
    DEF NodeFailsContinued, DeliverData, DataOut, ErrorOut, Statuses
<1>9. ASSUME NEW n \in Nodes, NodeFails(n) PROVE NodeInv'
  <2>1. Push({})
    BY <1>9 DEF NodeFails, Push, TypeOK
  <2>q. QED
    BY <1>9, <1>g, <2>1, SettleAndPush DEF NodeFails, ErrorOut, Statuses
<1>q. QED
  BY <1>1, <1>2, <1>3, <1>4, <1>5, <1>6, <1>7, <1>8, <1>9 DEF Next, StepRun, StepNode

(* A node that has settled keeps its status. *)
LEMMA SettledStays ==
    TypeOK /\ DoneMeansSettled /\ [Next]_vars =>
        \A n \in Nodes : statuses[n] # "none" => statuses'[n] = statuses[n]
  BY DEF TypeOK, DoneMeansSettled, Next, StepRun, StepNode, vars, nodeVars, Settle,
         Sort, OpenBatch, RaiseFailure, Return, Cancel, SkipNode, StartNode,
         NodeSucceeds, NodeFailsRouted, NodeFailsContinued, NodeFails, DeliverData

(* The part of the invariant about run() itself is preserved. *)
LEMMA RunInvNext ==
    IndInv /\ [Next]_vars =>
        (CancelledWithRun /\ FailureRecorded /\ SortedFirst /\ EndedQuietly
                          /\ ReturnedMeansSettled)'
<1> SUFFICES ASSUME IndInv, [Next]_vars
             PROVE  (CancelledWithRun /\ FailureRecorded /\ SortedFirst
                       /\ EndedQuietly /\ ReturnedMeansSettled)'
  OBVIOUS
<1> USE DEF IndInv, TypeOK
<1>g. source' = source /\ target' = target /\ Acyclic' = Acyclic
  BY GraphFixed
<1>s. \A n \in Nodes : statuses[n] # "none" => statuses'[n] = statuses[n]
  BY SettledStays
<1> DEFINE RunInv == /\ CancelledWithRun
                     /\ FailureRecorded
                     /\ SortedFirst
                     /\ EndedQuietly
                     /\ ReturnedMeansSettled
<1>1. CASE Sort
  BY <1>1, <1>g DEF Sort, nodeVars, CancelledWithRun, FailureRecorded, SortedFirst,
                    Batched, EndedQuietly, BatchOver, Live, ReturnedMeansSettled
<1>2. CASE OpenBatch
  BY <1>2, <1>g DEF OpenBatch, CancelledWithRun, FailureRecorded, SortedFirst,
                    EndedQuietly, ReturnedMeansSettled
<1>3. CASE RaiseFailure
  BY <1>3, <1>g DEF RaiseFailure, nodeVars, CancelledWithRun, FailureRecorded,
                    SortedFirst, Batched, EndedQuietly, BatchOver, Live,
                    ReturnedMeansSettled
<1>4. CASE Return
  <2>1. Batched = Nodes
    BY <1>4, NextBatchNonempty DEF Return, SortedFirst
  <2>2. \A n \in Nodes : statuses[n] \notin {"none", "failed"}
    BY <1>4, <2>1 DEF Return, Batched, BatchOver, Live, CancelledWithRun,
                      DoneMeansSettled, FailureRecorded, Tasks
  <2>q. QED
    BY <1>4, <1>g, <2>2 DEF Return, nodeVars, CancelledWithRun, FailureRecorded,
                            SortedFirst, EndedQuietly, BatchOver, Live,
                            ReturnedMeansSettled
<1>5. CASE Cancel
  BY <1>5, <1>g DEF Cancel, Live, CancelledWithRun, FailureRecorded, SortedFirst,
                    EndedQuietly, BatchOver, ReturnedMeansSettled
<1>6. ASSUME NEW n \in Nodes, StepNode(n) PROVE RunInv'
  <2>1. Live(n) /\ UNCHANGED graph
    BY <1>6 DEF StepNode, Live, SkipNode, StartNode, NodeSucceeds, NodeFailsRouted,
                NodeFailsContinued, NodeFails, Settle, DeliverData
  <2>2. phase \in {"running", "raised"} /\ n \in Batched
    BY <2>1 DEF EndedQuietly, BatchOver, SortedFirst, Batched, Live, Phases
  <2>3. task'[n] # "none" /\ \A m \in Nodes \ {n} : task'[m] = task[m]
    BY <1>6 DEF StepNode, SkipNode, StartNode, NodeSucceeds, NodeFailsRouted,
                NodeFailsContinued, NodeFails, Settle
  <2>4. \/ phase' = phase
        \/ /\ phase' = "raised"
           /\ DataOut(n) \cap BadWhen # {}
           /\ statuses'[n] \in {"succeeded", "failed_continued"}
    BY <1>6 DEF StepNode, SkipNode, StartNode, NodeSucceeds, NodeFailsRouted,
                NodeFailsContinued, NodeFails, Settle, DeliverData
  <2>5. CancelledWithRun'
    <3>1. task'[n] # "cancelled"
      BY <1>6 DEF StepNode, SkipNode, StartNode, NodeSucceeds, NodeFailsRouted,
                  NodeFailsContinued, NodeFails, Settle
    <3>q. QED
      BY <2>2, <2>3, <3>1 DEF CancelledWithRun
  <2>6. FailureRecorded'
    BY <1>6, RunnerAssumption
    DEF FailureRecorded, StepNode, SkipNode, StartNode, NodeSucceeds,
        NodeFailsRouted, NodeFailsContinued, NodeFails, Settle, DeliverData
  <2>7. SortedFirst'
    BY <1>g, <2>2, <2>4 DEF SortedFirst
  <2>8. EndedQuietly'
    <3>1. CASE phase' = phase
      <4>1. phase' \notin {"returned", "cancelled"}
        BY <2>2, <3>1
      <4>2. phase = "raised" => \E e \in BadWhen :
                statuses'[source[e]] \in {"succeeded", "failed_continued"}
        BY <2>1, <1>s, RunnerAssumption DEF EndedQuietly, BatchOver, GraphTypeOK
      <4>q. QED
        BY <3>1, <4>1, <4>2, <1>g DEF EndedQuietly
    <3>2. CASE phase' = "raised" /\ DataOut(n) \cap BadWhen # {}
                                /\ statuses'[n] \in {"succeeded", "failed_continued"}
      BY <3>2, <1>g DEF EndedQuietly, DataOut, Out
    <3>q. QED
      BY <2>4, <3>1, <3>2
  <2>9. ReturnedMeansSettled'
    BY <2>2, <2>4 DEF ReturnedMeansSettled
  <2>q. QED
    BY <2>5, <2>6, <2>7, <2>8, <2>9
<1>7. CASE UNCHANGED vars
  BY <1>7, <1>g DEF vars, CancelledWithRun, FailureRecorded, SortedFirst, Batched,
                    EndedQuietly, BatchOver, Live, ReturnedMeansSettled
<1>q. QED
  BY <1>1, <1>2, <1>3, <1>4, <1>5, <1>6, <1>7 DEF Next, StepRun

LEMMA IndInvInit == Init => IndInv
  BY RunnerAssumption
  DEF Init, IndInv, TypeOK, GraphTypeOK, Phases, Tasks, Statuses, DeliveriesInPlace,
      DoneMeansSettled, CancelledWithRun, FailureRecorded, SortedFirst, Batched,
      EndedQuietly, PredecessorsSettled, NoDeliveryLost, EdgesFollowOutcome,
      Delivered, ReturnedMeansSettled

LEMMA IndInvNext == IndInv /\ [Next]_vars => IndInv'
  BY TypeNext, NodeInvNext, RunInvNext DEF IndInv, NodeInv

LEMMA IndInvAlways == Spec => []IndInv
  BY IndInvInit, IndInvNext, PTL DEF Spec

-----------------------------------------------------------------------------
(* The runner's variables keep their types: in particular every node has   *)
(* at most one status and every delivery is an edge of the graph.          *)
THEOREM TypeCorrect == Spec => []TypeOK
  BY IndInvAlways, PTL DEF IndInv

(* On every graph and under every interleaving of its tasks, a node is     *)
(* scheduled only after all the nodes that feed it have settled.           *)
THEOREM RunsInDependencyOrder == Spec => []PredecessorsSettled
  BY IndInvAlways, PTL DEF IndInv

(* No delivery is lost by popping a node's queue once, when it starts. *)
THEOREM DeliveriesComplete == Spec => []NoDeliveryLost
  BY IndInvAlways, PTL DEF IndInv

(* Error edges carry handled failures and nothing else. *)
THEOREM ErrorRouting == Spec => []EdgesFollowOutcome
  BY IndInvAlways, PTL DEF IndInv

(* A run that returns has settled every node of its graph.  This is where  *)
(* the acyclicity checked by topo_sort is needed.                          *)
THEOREM ReturnsComplete == Spec => []ReturnedMeansSettled
  BY IndInvAlways, PTL DEF IndInv

(* Without malformed predicates, run() never leaves an executing node      *)
(* behind.                                                                 *)
THEOREM OrphanFree == Spec => []OrphansOnlyAfterBadWhen
<1>1. EndedQuietly => OrphansOnlyAfterBadWhen
  BY DEF EndedQuietly, OrphansOnlyAfterBadWhen
<1>q. QED
  BY <1>1, IndInvAlways, PTL DEF IndInv

(* An unhandled failure, or the end of run(), starts no further batch. *)
THEOREM FailureStopsBatches == Spec => NoBatchAfterEnd
<1>1. TypeOK /\ [Next]_vars =>
          [failure # NoNode \/ phase # "running" => Batched' = Batched]_vars
  <2> SUFFICES ASSUME TypeOK, Next, failure # NoNode \/ phase # "running"
               PROVE  Batched' = Batched
    OBVIOUS
  <2>1. CASE StepRun \/ Cancel
    BY <2>1 DEF StepRun, Sort, OpenBatch, RaiseFailure, Return, Cancel, nodeVars,
                Batched, Live
  <2>2. ASSUME NEW n \in Nodes, StepNode(n) PROVE Batched' = Batched
    BY <2>2 DEF StepNode, SkipNode, StartNode, NodeSucceeds, NodeFailsRouted,
                NodeFailsContinued, NodeFails, Settle, Batched, TypeOK
  <2>q. QED
    BY <2>1, <2>2 DEF Next
<1>q. QED
  BY <1>1, TypeCorrect, PTL DEF Spec, NoBatchAfterEnd

-----------------------------------------------------------------------------
(* Pushing edges adds exactly them to what the dataflow specification sees *)
(* as carried.                                                             *)
LEMMA PushCarries ==
    ASSUME NEW edges \in SUBSET Edges, TypeOK, Push(edges),
           target' = target, input' = input
    PROVE  Carried' = Carried \cup edges
  BY DEF Push, Carried, Delivered, TypeOK, GraphTypeOK

(* A task that ends is a node that settles in the dataflow specification. *)
LEMMA SettleRefines ==
    ASSUME NEW n \in Nodes, NEW status, NEW edges \in SUBSET Edges,
           IndInv, Settle(n, status), Push(edges), UNCHANGED <<graph, input>>
    PROVE  Promise!Settle(n, status, edges) /\ ~Promise!Unfed(n)
<1>1. statuses[n] = "none" /\ n \in Batched
  BY DEF IndInv, DoneMeansSettled, Settle, Batched
<1>2. Carried' = Carried \cup edges
  BY PushCarries DEF IndInv, graph
<1>3. Promise!Settle(n, status, edges)
  BY <1>1, <1>2 DEF Promise!Settle, Promise!Ready, Promise!Settled, Promise!In,
                    Promise!graph, IndInv, PredecessorsSettled, In, Settle, graph
<1>4. ~Promise!Unfed(n)
  BY DEF Promise!Unfed, Promise!In, IndInv, DeliveriesInPlace, Settle, Carried,
         Delivered, In
<1>q. QED
  BY <1>3, <1>4

LEMMA RefinesInit == Init => Promise!Init
  BY DEF Init, Promise!Init, GraphTypeOK, Promise!GraphTypeOK, Carried, Delivered

(* Every step of the runner is a step of the dataflow specification, or    *)
(* leaves what it sees alone.                                              *)
LEMMA RefinesNext == IndInv /\ [Next]_vars => [Promise!Next]_(Promise!vars)
<1> SUFFICES ASSUME IndInv, [Next]_vars,
                    ~UNCHANGED <<source, target, statuses, Carried>>
             PROVE  Promise!Next
  BY DEF Promise!vars
<1>g. UNCHANGED graph
  BY GraphFixed DEF graph
<1>1. CASE StepRun \/ Cancel \/ UNCHANGED vars
  BY <1>1 DEF StepRun, Sort, OpenBatch, RaiseFailure, Return, Cancel, nodeVars,
              graph, vars, Carried, Delivered
<1>2. ASSUME NEW n \in Nodes, SkipNode(n) PROVE Promise!Next
  <2>1. Carried' = Carried
    BY <1>2 DEF SkipNode, Carried, Delivered, graph
  <2>2. Promise!Unfed(n)
    BY <1>2 DEF SkipNode, Promise!Unfed, Promise!In, In, Carried, Delivered, IndInv,
                DeliveriesInPlace
  <2>3. Promise!Settle(n, "skipped", {})
    BY <1>2, <1>g, <2>1
    DEF SkipNode, Promise!Settle, Promise!Ready, Promise!Settled, Promise!In,
        Promise!graph, IndInv, PredecessorsSettled, DoneMeansSettled, Batched, In, graph
  <2>q. QED
    BY <2>2, <2>3 DEF Promise!Next, Promise!Skip
<1>3. ASSUME NEW n \in Nodes, StartNode(n) PROVE Promise!Next
  <2>1. \A e \in Edges : Delivered(e)' <=> Delivered(e)
    BY <1>3, <1>g DEF StartNode, Delivered, IndInv, TypeOK, DeliveriesInPlace,
                      GraphTypeOK, graph
  <2>q. QED
    BY <1>3, <2>1, <1>g DEF StartNode, Carried, graph
<1>4. ASSUME NEW n \in Nodes, NodeSucceeds(n) PROVE Promise!Next
  <2>1. PICK taken \in SUBSET (DataOut(n) \ BadWhen) : Push(taken)
    BY <1>4 DEF NodeSucceeds, DeliverData
  <2>2. Promise!Settle(n, "succeeded", taken) /\ ~Promise!Unfed(n)
    BY <1>4, <1>g, <2>1, SettleRefines DEF NodeSucceeds, DeliverData, DataOut, Out
  <2>3. taken \in SUBSET Promise!DataOut(n)
    BY <2>1 DEF Promise!DataOut, Promise!Out, DataOut, Out
  <2>q. QED
    BY <2>2, <2>3 DEF Promise!Next, Promise!Succeed
<1>5. ASSUME NEW n \in Nodes, NodeFailsRouted(n) PROVE Promise!Next
  <2>1. Promise!ErrorOut(n) = ErrorOut(n)
    BY DEF Promise!ErrorOut, Promise!Out, ErrorOut, Out
  <2>2. Promise!Settle(n, "failed_routed", ErrorOut(n)) /\ ~Promise!Unfed(n)
    BY <1>5, <1>g, SettleRefines DEF NodeFailsRouted, ErrorOut, Out
  <2>q. QED
    BY <1>5, <2>1, <2>2 DEF NodeFailsRouted, Promise!Next, Promise!Route
<1>6. ASSUME NEW n \in Nodes, NodeFailsContinued(n) PROVE Promise!Next
  <2>1. PICK taken \in SUBSET (DataOut(n) \ BadWhen) : Push(taken)
    BY <1>6 DEF NodeFailsContinued, DeliverData
  <2>2. Promise!Settle(n, "failed_continued", taken) /\ ~Promise!Unfed(n)
    BY <1>6, <1>g, <2>1, SettleRefines DEF NodeFailsContinued, DeliverData, DataOut, Out
  <2>3. taken \in SUBSET Promise!DataOut(n) /\ Promise!ErrorOut(n) = {}
    BY <1>6, <2>1 DEF NodeFailsContinued, Promise!DataOut, Promise!ErrorOut,
                      Promise!Out, DataOut, ErrorOut, Out
  <2>q. QED
    BY <1>6, <2>2, <2>3 DEF NodeFailsContinued, Promise!Next, Promise!Continue
<1>7. ASSUME NEW n \in Nodes, NodeFails(n) PROVE Promise!Next
  <2>1. Push({})
    BY <1>7 DEF NodeFails, Push, IndInv, TypeOK
  <2>2. Promise!Settle(n, "failed", {}) /\ ~Promise!Unfed(n)
    BY <1>7, <1>g, <2>1, SettleRefines DEF NodeFails
  <2>3. Promise!ErrorOut(n) = {}
    BY <1>7 DEF NodeFails, Promise!ErrorOut, Promise!Out, ErrorOut, Out
  <2>q. QED
    BY <1>7, <2>2, <2>3 DEF NodeFails, Promise!Next, Promise!Fail
<1>q. QED
  BY <1>1, <1>2, <1>3, <1>4, <1>5, <1>6, <1>7 DEF Next, StepNode

(* The batched, concurrent runner keeps the dataflow promise on every      *)
(* graph.                                                                  *)
THEOREM KeepsPromise == Spec => ImplementsDataflow
<1>1. Promise!Init /\ [][Promise!Next]_(Promise!vars) => ImplementsDataflow
  BY DEF ImplementsDataflow, Promise!Spec
<1>q. QED
  BY <1>1, RefinesInit, RefinesNext, IndInvAlways, PTL DEF Spec

-----------------------------------------------------------------------------
(* The loops of GraphOrder, for every graph and every order of its nodes   *)
(* and edges in the document.  The prover has no axiom of induction that   *)
(* it can use, but the theorem that less-than on the naturals is           *)
(* well-founded gives a least element to every nonempty set of naturals,   *)
(* and that gives induction for a set.  A recursive function is, to the    *)
(* prover, a function chosen by its equation: Iterates finds a run of the  *)
(* loop, which is such a function, and OneRun says it is the only one.     *)
(* Every set of naturals has a least element, as the less-than relation is *)
(* well-founded; induction for a set that holds what is to be shown.       *)
Below == {p \in Nat \X Nat : p[1] < p[2]}

(* Less-than on the naturals is well-founded. *)
LEMMA BelowWellFounded == IsWellFoundedOn(Below, Nat)
  BY NatLessThanWellFounded DEF OpToRel, Below

(* Every nonempty set of naturals has a least element. *)
LEMMA Least ==
    ASSUME NEW T \in SUBSET Nat, T # {}
    PROVE  \E x \in T : \A y \in T : x <= y
<1>1. PICK x \in T : \A y \in T : <<y, x>> \notin Below
  BY BelowWellFounded, WFMin
<1>2. ASSUME NEW y \in T PROVE x <= y
  <2>1. <<y, x>> \in Nat \X Nat /\ <<y, x>>[1] = y /\ <<y, x>>[2] = x
    OBVIOUS
  <2>2. ~ (y < x)
    BY <1>1, <2>1 DEF Below
  <2> QED
    BY <2>2
<1> QED
  BY <1>2

(* Induction: a set that has 0 and steps by one has all numbers up to n.   *)
LEMMA UpTo ==
    ASSUME NEW T, NEW n \in Nat, 0 \in T, \A k \in 0 .. n - 1 : k \in T => k + 1 \in T
    PROVE  0 .. n \subseteq T
<1> SUFFICES ASSUME (0 .. n) \ T # {} PROVE FALSE
  OBVIOUS
<1>1. (0 .. n) \ T \in SUBSET Nat
  OBVIOUS
<1>2. PICK x \in (0 .. n) \ T : \A y \in (0 .. n) \ T : x <= y
  BY <1>1, Least
<1>3. x # 0
  BY <1>2
<1>4. x - 1 \in 0 .. n - 1 /\ x - 1 \in T
  BY <1>2, <1>3
<1> QED
  BY <1>2, <1>4

(* A loop with a counter has a run of values: what makes the recursive     *)
(* functions of GraphOrder well defined.                                   *)
Run(S, f, n, init, step) ==
    f \in [0 .. n -> S] /\ f[0] = init /\ \A k \in 1 .. n : f[k] = step[k][f[k - 1]]

(* Such a run exists for every step function. *)
LEMMA Iterates ==
    ASSUME NEW S, NEW n \in Nat, NEW step \in [1 .. n -> [S -> S]], NEW init \in S
    PROVE  \E f : Run(S, f, n, init, step)
<1> DEFINE T == {m \in 0 .. n : \E f : Run(S, f, m, init, step)}
<1>1. 0 \in T
  <2> DEFINE f == [k \in 0 .. 0 |-> init]
  <2>1. f \in [0 .. 0 -> S] /\ f[0] = init
    OBVIOUS
  <2>2. Run(S, f, 0, init, step)
    BY <2>1 DEF Run
  <2> QED
    BY <2>2
<1>2. ASSUME NEW m \in 0 .. n - 1, m \in T PROVE m + 1 \in T
  <2>1. PICK f : Run(S, f, m, init, step)
    BY <1>2
  <2>2. f \in [0 .. m -> S] /\ f[m] \in S /\ step[m + 1] \in [S -> S]
    BY <2>1 DEF Run
  <2>3. PICK g : g = [k \in 0 .. m + 1 |-> IF k = m + 1 THEN step[m + 1][f[m]] ELSE f[k]]
    OBVIOUS
  <2>4. g \in [0 .. m + 1 -> S]
    BY <2>2, <2>3
  <2>5. g[0] = init
    BY <2>1, <2>3 DEF Run
  <2>6. ASSUME NEW k \in 1 .. m + 1 PROVE g[k] = step[k][g[k - 1]]
    <3>1. CASE k = m + 1
      BY <2>3, <3>1
    <3>2. CASE k \in 1 .. m
      <4>1. g[k] = f[k] /\ g[k - 1] = f[k - 1]
        BY <2>3, <3>2
      <4> QED
        BY <2>1, <3>2, <4>1 DEF Run
    <3> QED
      BY <3>1, <3>2
  <2>7. Run(S, g, m + 1, init, step)
    BY <2>4, <2>5, <2>6 DEF Run
  <2> QED
    BY <2>7
<1>3. 0 .. n \subseteq T
  <2> HIDE DEF T
  <2> QED
    BY <1>1, <1>2, UpTo
<1> QED
  BY <1>3

(* A function that follows the same steps has the same values. *)
Mimics(S, g, n, init, step) ==
    g[0] = init /\ \A k \in 1 .. n : g[k - 1] \in S => g[k] = step[k][g[k - 1]]

(* There is only one such run. *)
LEMMA OneRun ==
    ASSUME NEW S, NEW n \in Nat, NEW step, NEW init, NEW f, NEW g,
           Run(S, f, n, init, step), Mimics(S, g, n, init, step)
    PROVE  \A k \in 0 .. n : g[k] = f[k]
<1> DEFINE T == {k \in 0 .. n : g[k] = f[k]}
<1>1. 0 \in T
  BY DEF Run, Mimics
<1>2. ASSUME NEW k \in 0 .. n - 1, k \in T PROVE k + 1 \in T
  <2>1. k + 1 \in 1 .. n /\ (k + 1) - 1 = k /\ k \in 0 .. n
    OBVIOUS
  <2>2. g[k] = f[k] /\ f[k] \in S
    BY <1>2, <2>1 DEF Run
  <2>3. g[k + 1] = step[k + 1][g[k]] /\ f[k + 1] = step[k + 1][f[k]]
    BY <2>1, <2>2 DEF Run, Mimics
  <2> QED
    BY <2>1, <2>2, <2>3
<1> HIDE DEF T
<1>3. 0 .. n \subseteq T
  BY <1>1, <1>2, UpTo
<1> QED
  BY <1>3 DEF T

(* The lists enumerate the nodes and the edges. *)
Lists(S, s) ==
    /\ s \in Seq(S) /\ Len(s) = Cardinality(S)
    /\ \A i, j \in 1 .. Len(s) : s[i] = s[j] => i = j
    /\ \A x \in S : \E i \in 1 .. Len(s) : s[i] = x

(* A member of SetToSeqs is such a list. *)
LEMMA ListsAll ==
    ASSUME NEW S, IsFiniteSet(S), NEW s \in SetToSeqs(S)
    PROVE  Lists(S, s)
<1>1. Cardinality(S) \in Nat
  BY FS_CardinalityType
<1>2. s \in [1 .. Cardinality(S) -> S] /\ \A i, j \in 1 .. Cardinality(S) : i # j => s[i] # s[j]
  BY DEF SetToSeqs
<1>3. s \in Seq(S) /\ Len(s) = Cardinality(S)
  BY <1>1, <1>2
<1>4. IsFiniteSet(1 .. Cardinality(S)) /\ Cardinality(1 .. Cardinality(S)) = Cardinality(S)
  BY <1>1, FS_Interval
<1>5. s \in Injection(1 .. Cardinality(S), S)
  BY <1>2 DEF Injection, IsInjective
<1>6. s \in Surjection(1 .. Cardinality(S), S)
  BY <1>4, <1>5, FS_Injection
<1> QED
  BY <1>2, <1>3, <1>6 DEF Lists, Surjection

(* The document lists every node and every edge, of finitely many.         *)
LEMMA Documents ==
    /\ Lists(Nodes, NodeList) /\ Lists(Edges, EdgeList)
    /\ IsFiniteSet(Nodes) /\ IsFiniteSet(Edges)
    /\ Cardinality(Nodes) \in Nat /\ Cardinality(Edges) \in Nat
  BY GraphAssumption, OrderAssumption, ListsAll, FS_CardinalityType

(* A sequence without repetition is no longer than the set it is over, and *)
(* as long only if it has all its elements.                                *)
LEMMA Enumerates ==
    ASSUME NEW S, IsFiniteSet(S), NEW s \in Seq(S), IsInjective(s)
    PROVE  /\ Len(s) <= Cardinality(S)
           /\ Len(s) = Cardinality(S) <=> Range(s) = S
<1>1. s \in [1 .. Len(s) -> S] /\ Len(s) \in Nat
  OBVIOUS
<1>2. s \in Injection(1 .. Len(s), S)
  BY <1>1 DEF Injection
<1>3. \A n \in Nat : Cardinality(1 .. n) = n
  BY FS_Interval
<1>4. /\ Len(s) <= Cardinality(S)
      /\ Len(s) = Cardinality(S) <=> s \in Surjection(1 .. Len(s), S)
  BY <1>2, <1>3, FS_Injection
<1>5. s \in Surjection(1 .. Len(s), S) <=> Range(s) = S
  BY <1>1 DEF Surjection, Range
<1> QED
  BY <1>4, <1>5

-----------------------------------------------------------------------------
(* The state of a front is told by the edges X that have been traversed.   *)
Leaving(D) == {e \in Edges : source[e] \in D}
Rest(X)    == [m \in Nodes |-> Cardinality(In(m) \ X)]
Fed(X)     == {m \in Nodes : In(m) \subseteq X}
Fronts     == [incoming : [Nodes -> Int], released : Seq(Nodes)]

(* The count of a node is zero exactly when all its edges are traversed.   *)
LEMMA RestZero ==
    ASSUME NEW X
    PROVE  /\ Rest(X) \in [Nodes -> Int]
           /\ \A m \in Nodes : Rest(X)[m] = 0 <=> m \in Fed(X)
<1> SUFFICES ASSUME NEW m \in Nodes
             PROVE  /\ Cardinality(In(m) \ X) \in Int
                    /\ Cardinality(In(m) \ X) = 0 <=> In(m) \subseteq X
  BY DEF Rest, Fed
<1>1. In(m) \ X \in SUBSET Edges
  BY DEF In
<1>2. IsFiniteSet(In(m) \ X)
  BY <1>1, Documents, FS_Subset
<1> QED
  BY <1>2, FS_CardinalityType, FS_EmptySet

(* Traversing one more edge takes one from the count of its target.        *)
LEMMA RestStep ==
    ASSUME GraphTypeOK, NEW X, NEW e \in Edges \ X
    PROVE  Rest(X \cup {e}) = [Rest(X) EXCEPT ![target[e]] = @ - 1]
<1>1. target[e] \in Nodes
  BY DEF GraphTypeOK
<1>2. ASSUME NEW m \in Nodes, m # target[e] PROVE In(m) \ (X \cup {e}) = In(m) \ X
  BY <1>2 DEF In
<1>3. In(target[e]) \ (X \cup {e}) = (In(target[e]) \ X) \ {e} /\ e \in In(target[e]) \ X
  BY DEF In
<1>4. In(target[e]) \ X \in SUBSET Edges
  BY DEF In
<1>5. IsFiniteSet(In(target[e]) \ X)
  BY <1>4, Documents, FS_Subset
<1>6. Cardinality(In(target[e]) \ (X \cup {e})) = Cardinality(In(target[e]) \ X) - 1
  <2> DEFINE A == In(target[e]) \ X
  <2>1. IsFiniteSet(A) /\ e \in A /\ In(target[e]) \ (X \cup {e}) = A \ {e}
    BY <1>3, <1>5
  <2> HIDE DEF A
  <2>2. Cardinality(A \ {e}) = Cardinality(A) - 1
    BY <2>1, FS_RemoveElement
  <2> QED
    BY <2>1, <2>2 DEF A
<1> QED
  BY <1>1, <1>2, <1>6 DEF Rest

(* Relax, unrolled: one front per edge of the document. *)
LEMMA RelaxRuns ==
    ASSUME GraphTypeOK, NEW s \in Fronts, NEW n, NEW scheduled
    PROVE  \E f : /\ \A i \in 0 .. Len(EdgeList) : f[i] \in Fronts
                  /\ f[0] = s /\ Relax(s, n, scheduled) = f[Len(EdgeList)]
                  /\ \A i \in 1 .. Len(EdgeList) :
                         f[i] = IF EdgeList[i] \in Out(n)
                                THEN Traverse(f[i - 1], EdgeList[i], scheduled) ELSE f[i - 1]
<1> DEFINE N == Len(EdgeList)
           init == s
           body(i, x) == IF EdgeList[i] \in Out(n) THEN Traverse(x, EdgeList[i], scheduled) ELSE x
<1>1. N \in Nat /\ \A i \in 1 .. N : EdgeList[i] \in Edges
  BY Documents DEF Lists
<1>2. init \in Fronts /\ \A i \in 1 .. N, x \in Fronts : body(i, x) \in Fronts
  <2> SUFFICES ASSUME NEW i \in 1 .. N, NEW x \in Fronts PROVE body(i, x) \in Fronts
    OBVIOUS
  <2>1. target[EdgeList[i]] \in Nodes
    BY <1>1 DEF GraphTypeOK
  <2>2. x.incoming \in [Nodes -> Int] /\ x.released \in Seq(Nodes)
    BY DEF Fronts
  <2>3. Traverse(x, EdgeList[i], scheduled) \in Fronts
    BY <2>1, <2>2 DEF Traverse, Fronts
  <2> QED
    BY <2>3
<1>3. PICK step : step = [i \in 1 .. N |-> [x \in Fronts |-> body(i, x)]]
  OBVIOUS
<1>4. PICK f : Run(Fronts, f, N, init, step)
  <2> HIDE DEF body, N, init
  <2>1. step \in [1 .. N -> [Fronts -> Fronts]]
    BY <1>2, <1>3
  <2> QED
    BY <1>1, <1>2, <2>1, Iterates
<1>5. /\ f \in [0 .. N -> Fronts] /\ f[0] = init
      /\ \A i \in 1 .. N : f[i] = body(i, f[i - 1])
  <2> HIDE DEF body, N, init
  <2>1. f \in [0 .. N -> Fronts] /\ f[0] = init /\ \A i \in 1 .. N : f[i] = step[i][f[i - 1]]
    BY <1>4 DEF Run
  <2>2. ASSUME NEW i \in 1 .. N PROVE step[i][f[i - 1]] = body(i, f[i - 1])
    <3>1. f[i - 1] \in Fronts
      BY <1>1, <2>1
    <3> QED
      BY <1>3, <3>1
  <2> QED
    BY <2>1, <2>2
<1> DEFINE run == [i \in 0 .. N |-> IF i = 0 THEN init ELSE body(i, f[i - 1])]
           upTo == CHOOSE g : g = [i \in 0 .. N |-> IF i = 0 THEN init ELSE body(i, g[i - 1])]
<1>6. f = run
  <2> HIDE DEF body, N, init
  <2>1. \A i \in 0 .. N : f[i] = run[i]
    BY <1>5
  <2> QED
    BY <1>5, <2>1
<1>7. upTo = [i \in 0 .. N |-> IF i = 0 THEN init ELSE body(i, upTo[i - 1])]
  BY <1>6
<1>8. Relax(s, n, scheduled) = upTo[N]
  BY DEF Relax
<1>9. \A k \in 0 .. N : upTo[k] = f[k]
  <2> HIDE DEF body, N, init
  <2>1. upTo[0] = init /\ \A i \in 1 .. N : upTo[i] = body(i, upTo[i - 1])
    <3> HIDE DEF upTo
    <3> QED
      BY <1>1, <1>7
  <2> HIDE DEF upTo
  <2>2. \A i \in 1 .. N : upTo[i - 1] \in Fronts => upTo[i] = step[i][upTo[i - 1]]
    BY <1>3, <2>1
  <2>3. Mimics(Fronts, upTo, N, init, step)
    BY <2>1, <2>2 DEF Mimics
  <2> QED
    BY <1>1, <1>4, <2>3, OneRun
<1>10. Relax(s, n, scheduled) = f[Len(EdgeList)]
  <2> HIDE DEF upTo, N, body, init
  <2>1. upTo[N] = f[N]
    BY <1>1, <1>9
  <2> QED
    BY <1>8, <2>1 DEF N
<1> QED
  BY <1>5, <1>10

At(x, X) == x \in Fronts /\ x.incoming = Rest(X)

Traversed(x, y, X, e, scheduled) ==
    /\ target[e] \in Nodes \ Fed(X)
    /\ Fed(X \cup {e}) \subseteq Fed(X) \cup {target[e]} /\ Fed(X) \subseteq Fed(X \cup {e})
    /\ y.incoming = Rest(X \cup {e})
    /\ y.released = IF target[e] \in Fed(X \cup {e}) /\ target[e] \notin scheduled
                    THEN Append(x.released, target[e]) ELSE x.released

(* A step of Relax is such a traversal. *)
LEMMA TraverseFacts ==
    ASSUME GraphTypeOK, NEW X, NEW e \in Edges \ X, NEW x, At(x, X), NEW scheduled
    PROVE  Traversed(x, Traverse(x, e, scheduled), X, e, scheduled)
<1> DEFINE t == target[e]
           Y == X \cup {e}
<1>1. t \in Nodes /\ e \in In(t)
  BY DEF GraphTypeOK, In
<1>2. t \notin Fed(X)
  BY <1>1 DEF Fed
<1>3. Fed(Y) \subseteq Fed(X) \cup {t} /\ Fed(X) \subseteq Fed(Y)
  BY DEF Fed, In
<1>4. Rest(Y) = [Rest(X) EXCEPT ![t] = @ - 1]
  BY RestStep
<1>5. Rest(X) \in [Nodes -> Int] /\ (Rest(Y)[t] = 0 <=> t \in Fed(Y))
  BY <1>1, RestZero
<1>6. x \in Fronts /\ x.incoming = Rest(X)
  BY DEF At
<1>7. Rest(Y)[t] = Rest(X)[t] - 1
  BY <1>1, <1>4, <1>5
<1> QED
  BY <1>1, <1>2, <1>3, <1>4, <1>5, <1>7, <1>6 DEF Traverse, Traversed

(* What the edges of n release once those that leave D are traversed, in   *)
(* the order it is released.                                               *)
Freed(D, n) == Relax([incoming |-> Rest(Leaving(D)), released |-> <<>>], n, {}).released

(* What Append does to the elements of a sequence. *)
LEMMA AppendFacts ==
    ASSUME NEW S, NEW s \in Seq(S), NEW x \in S
    PROVE  /\ Append(s, x) \in Seq(S) /\ Range(Append(s, x)) = Range(s) \cup {x}
           /\ IsInjective(s) /\ x \notin Range(s) => IsInjective(Append(s, x))
<1>1. /\ Append(s, x) \in Seq(S) /\ Len(Append(s, x)) = Len(s) + 1 /\ Len(s) \in Nat
      /\ \A i \in 1 .. Len(s) : Append(s, x)[i] = s[i]
      /\ Append(s, x)[Len(s) + 1] = x
      /\ DOMAIN Append(s, x) = 1 .. Len(s) + 1 /\ DOMAIN s = 1 .. Len(s)
  OBVIOUS
<1>2. Range(Append(s, x)) = Range(s) \cup {x}
  BY <1>1 DEF Range
<1>3. ASSUME IsInjective(s), x \notin Range(s) PROVE IsInjective(Append(s, x))
  BY <1>1, <1>3 DEF IsInjective, Range
<1> QED
  BY <1>1, <1>2, <1>3

(* Append goes to the second of two parts. *)
LEMMA AppendConcat ==
    ASSUME NEW r \in Seq(Nodes), NEW s \in Seq(Nodes), NEW x \in Nodes
    PROVE  Append(r \o s, x) = r \o Append(s, x)
  OBVIOUS

(* y is x after the edges of n, when D are the nodes before it. *)
Relaxed(x, y, D, n) ==
    /\ y \in Fronts
    /\ y.incoming = Rest(Leaving(D \cup {n}))
    /\ y.released = x.released \o Freed(D, n)
    /\ Freed(D, n) \in Seq(Nodes) /\ IsInjective(Freed(D, n))
    /\ Range(Freed(D, n)) = Fed(Leaving(D \cup {n})) \ Fed(Leaving(D))

(* Relax on a node that is not in D; what is skipped was released before.  *)
LEMMA RelaxFacts ==
    ASSUME GraphTypeOK, NEW D \in SUBSET Nodes, NEW n \in Nodes \ D,
           NEW s, At(s, Leaving(D)),
           NEW scheduled, scheduled \cap (Nodes \ Fed(Leaving(D))) = {}
    PROVE  Relaxed(s, Relax(s, n, scheduled), D, n)
<1>1. s \in Fronts /\ s.incoming = Rest(Leaving(D))
  BY DEF At
<1> DEFINE N == Len(EdgeList)
           X(i) == Leaving(D) \cup {EdgeList[j] : j \in {k \in 1 .. i : EdgeList[k] \in Out(n)}}
           z == [incoming |-> Rest(Leaving(D)), released |-> <<>>]
<1>2. /\ N \in Nat /\ \A i \in 1 .. N : EdgeList[i] \in Edges
      /\ \A i, j \in 1 .. N : EdgeList[i] = EdgeList[j] => i = j
      /\ \A e \in Edges : \E i \in 1 .. N : EdgeList[i] = e
  <2>1. EdgeList \in Seq(Edges)
    BY Documents DEF Lists
  <2>2. N \in Nat /\ \A i \in 1 .. N : EdgeList[i] \in Edges
    BY <2>1
  <2>3. /\ \A i, j \in 1 .. N : EdgeList[i] = EdgeList[j] => i = j
        /\ \A e \in Edges : \E i \in 1 .. N : EdgeList[i] = e
    BY Documents, Zenon DEF Lists
  <2> QED
    BY <2>2, <2>3
<1>3. z \in Fronts
  BY RestZero DEF Fronts
<1>4. PICK f :
              /\ \A i \in 0 .. N : f[i] \in Fronts
              /\ f[0] = s /\ Relax(s, n, scheduled) = f[N]
              /\ \A i \in 1 .. N :
                    f[i] = IF EdgeList[i] \in Out(n) THEN Traverse(f[i - 1], EdgeList[i], scheduled)
                                                     ELSE f[i - 1]
  BY <1>1, RelaxRuns
<1>5. PICK g :
              /\ \A i \in 0 .. N : g[i] \in Fronts
              /\ g[0] = z /\ Relax(z, n, {}) = g[N]
              /\ \A i \in 1 .. N :
                    g[i] = IF EdgeList[i] \in Out(n) THEN Traverse(g[i - 1], EdgeList[i], {})
                                                     ELSE g[i - 1]
  BY <1>3, RelaxRuns
<1> DEFINE P(i) == /\ f[i].incoming = Rest(X(i)) /\ g[i].incoming = Rest(X(i))
                   /\ f[i].released = s.released \o g[i].released
                   /\ IsInjective(g[i].released)
                   /\ Range(g[i].released) = Fed(X(i)) \ Fed(Leaving(D))
                   /\ Fed(Leaving(D)) \subseteq Fed(X(i))
           T == {i \in 0 .. N : P(i)}
<1>6. 0 \in T
  <2>1. X(0) = Leaving(D)
    OBVIOUS
  <2>2. s.released \in Seq(Nodes)
    BY <1>1 DEF Fronts
  <2>3. s.released \o <<>> = s.released
    BY <2>2
  <2>4. IsInjective(<<>>) /\ Range(<<>>) = {}
    BY DEF IsInjective, Range
  <2>5. P(0)
    <3>1. /\ f[0] = s /\ s.incoming = Rest(Leaving(D))
          /\ g[0].incoming = Rest(Leaving(D)) /\ g[0].released = <<>>
      BY <1>1, <1>4, <1>5
    <3> HIDE DEF X, z
    <3> QED
      BY <2>1, <2>3, <2>4, <3>1
  <2>6. 0 \in 0 .. N
    BY <1>2
  <2> HIDE DEF P, N
  <2> QED
    BY <2>5, <2>6
<1>7. ASSUME NEW i \in 0 .. N - 1, i \in T PROVE i + 1 \in T
  <2> DEFINE e == EdgeList[i + 1]
             t == target[e]
  <2>1. i + 1 \in 1 .. N /\ (i + 1) - 1 = i /\ i \in 0 .. N /\ i + 1 \in 0 .. N
    BY <1>2
  <2>2. P(i)
    BY <1>7
  <2>3. f[i] \in Fronts /\ g[i] \in Fronts
    BY <1>4, <1>5, <2>1
  <2>4. CASE e \notin Out(n)
    <3>1. X(i + 1) = X(i)
      BY <2>4, <2>1
    <3>2. f[i + 1] = f[i] /\ g[i + 1] = g[i]
      BY <1>4, <1>5, <2>1, <2>4
    <3> HIDE DEF X
    <3>3. P(i + 1)
      BY <2>2, <3>1, <3>2
    <3> QED
      BY <2>1, <3>3
  <2>5. CASE e \in Out(n)
    <3>1. X(i + 1) = X(i) \cup {e}
      BY <2>5, <2>1
    <3>2. e \in Edges \ X(i)
      <4>1. e \in Edges /\ e \notin Leaving(D)
        BY <1>2, <2>1, <2>5 DEF Out, Leaving
      <4>2. \A j \in 1 .. i : j \in 1 .. N /\ j # i + 1
        BY <1>2, <2>1
      <4>3. \A j \in 1 .. i : EdgeList[j] # e
        BY <1>2, <2>1, <4>2
      <4> QED
        BY <4>1, <4>3
    <3>3. f[i + 1] = Traverse(f[i], e, scheduled) /\ g[i + 1] = Traverse(g[i], e, {})
      BY <1>4, <1>5, <2>1, <2>5
    <3>4. At(f[i], X(i)) /\ At(g[i], X(i))
      BY <2>2, <2>3 DEF At
    <3> HIDE DEF X, P, z, e, t
    <3>5. Traversed(f[i], f[i + 1], X(i), e, scheduled) /\ Traversed(g[i], g[i + 1], X(i), e, {})
      BY <3>4, <3>2, <3>3, TraverseFacts
    <3>6. /\ t \in Nodes \ Fed(X(i))
          /\ Fed(X(i + 1)) \subseteq Fed(X(i)) \cup {t} /\ Fed(X(i)) \subseteq Fed(X(i + 1))
          /\ f[i + 1].incoming = Rest(X(i + 1)) /\ g[i + 1].incoming = Rest(X(i + 1))
          /\ f[i + 1].released = IF t \in Fed(X(i + 1)) /\ t \notin scheduled
                                 THEN Append(f[i].released, t) ELSE f[i].released
          /\ g[i + 1].released = IF t \in Fed(X(i + 1))
                                 THEN Append(g[i].released, t) ELSE g[i].released
      BY <3>1, <3>5 DEF Traversed, t
    <3>7. t \notin scheduled
      BY <2>2, <3>6 DEF P
    <3>8. f[i + 1].released = IF t \in Fed(X(i + 1))
                              THEN Append(f[i].released, t) ELSE f[i].released
      BY <3>6, <3>7
    <3> USE DEF P
    <3>9. s.released \in Seq(Nodes) /\ g[i].released \in Seq(Nodes)
      BY <1>1, <2>3 DEF Fronts
    <3>10. t \notin Range(g[i].released)
      BY <2>2, <3>6
    <3>11. P(i + 1)
      <4>1. CASE t \in Fed(X(i + 1))
        <5>1. Fed(X(i + 1)) = Fed(X(i)) \cup {t}
          BY <3>6, <4>1
        <5>2. /\ Range(g[i + 1].released) = Range(g[i].released) \cup {t}
              /\ IsInjective(g[i + 1].released)
              /\ f[i + 1].released = s.released \o g[i + 1].released
          <6>1. g[i + 1].released = Append(g[i].released, t)
            BY <3>6, <4>1
          <6>2. f[i + 1].released = Append(s.released \o g[i].released, t)
            BY <2>2, <3>8, <4>1
          <6>3. IsInjective(g[i].released) /\ t \in Nodes
            BY <2>2, <3>6
          <6> HIDE DEF P
          <6>4. /\ IsInjective(g[i + 1].released)
                /\ Range(g[i + 1].released) = Range(g[i].released) \cup {t}
            BY <3>9, <3>10, <6>1, <6>3, AppendFacts
          <6>5. Append(s.released \o g[i].released, t) = s.released \o Append(g[i].released, t)
            BY <3>9, <6>3, AppendConcat
          <6>6. f[i + 1].released = s.released \o g[i + 1].released
            BY <6>1, <6>2, <6>5
          <6> QED
            BY <6>4, <6>6
        <5>3. t \notin Fed(Leaving(D))
          BY <2>2, <3>6
        <5> QED
          BY <2>2, <3>6, <5>1, <5>2, <5>3
      <4>2. CASE t \notin Fed(X(i + 1))
        <5>1. Fed(X(i + 1)) = Fed(X(i))
          BY <3>6, <4>2
        <5> QED
          BY <2>2, <3>6, <3>8, <4>2, <5>1
      <4> QED
        BY <4>1, <4>2
    <3> QED
      BY <2>1, <3>11
  <2> QED
    BY <2>4, <2>5
<1>8. N \in T
  <2> HIDE DEF T, N
  <2>1. 0 .. N \subseteq T
    BY <1>2, <1>6, <1>7, UpTo
  <2> QED
    BY <1>2, <2>1
<1>9. X(N) = Leaving(D \cup {n})
  <2>1. \A e \in Edges : e \in Out(n) => \E k \in 1 .. N : EdgeList[k] \in Out(n) /\ EdgeList[k] = e
    BY <1>2
  <2> HIDE DEF N
  <2> QED
    BY <1>2, <2>1 DEF Leaving, Out
<1>10. Freed(D, n) = g[N].released
  BY <1>5 DEF Freed
<1>11. f[N] \in Fronts /\ g[N] \in Fronts
  BY <1>2, <1>4, <1>5
<1>12. P(N)
  BY <1>8
<1> HIDE DEF X, N
<1>13. g[N].released \in Seq(Nodes)
  BY <1>11 DEF Fronts
<1> QED
  BY <1>4, <1>9, <1>10, <1>11, <1>12, <1>13 DEF Relaxed

(* Roots, unrolled: one sequence per node of the document. *)
LEMMA RootsRuns ==
    \E f : /\ \A i \in 0 .. Len(NodeList) : f[i] \in Seq(Nodes)
           /\ f[0] = <<>> /\ Roots = f[Len(NodeList)]
           /\ \A i \in 1 .. Len(NodeList) :
                  f[i] = IF In(NodeList[i]) = {} THEN Append(f[i - 1], NodeList[i]) ELSE f[i - 1]
<1> DEFINE N == Len(NodeList)
           init == <<>>
           body(i, x) == IF In(NodeList[i]) = {} THEN Append(x, NodeList[i]) ELSE x
<1>1. N \in Nat /\ \A i \in 1 .. N : NodeList[i] \in Nodes
  BY Documents DEF Lists
<1>2. init \in Seq(Nodes) /\ \A i \in 1 .. N, x \in Seq(Nodes) : body(i, x) \in Seq(Nodes)
  BY <1>1
<1>3. PICK step : step = [i \in 1 .. N |-> [x \in Seq(Nodes) |-> body(i, x)]]
  OBVIOUS
<1>4. PICK f : Run(Seq(Nodes), f, N, init, step)
  <2> HIDE DEF body, N, init
  <2>1. step \in [1 .. N -> [Seq(Nodes) -> Seq(Nodes)]]
    BY <1>2, <1>3
  <2> QED
    BY <1>1, <1>2, <2>1, Iterates
<1>5. /\ f \in [0 .. N -> Seq(Nodes)] /\ f[0] = init
      /\ \A i \in 1 .. N : f[i] = body(i, f[i - 1])
  <2> HIDE DEF body, N, init
  <2>1. f \in [0 .. N -> Seq(Nodes)] /\ f[0] = init /\ \A i \in 1 .. N : f[i] = step[i][f[i - 1]]
    BY <1>4 DEF Run
  <2>2. ASSUME NEW i \in 1 .. N PROVE step[i][f[i - 1]] = body(i, f[i - 1])
    <3>1. f[i - 1] \in Seq(Nodes)
      BY <1>1, <2>1
    <3> QED
      BY <1>3, <3>1
  <2> QED
    BY <2>1, <2>2
<1> DEFINE run == [i \in 0 .. N |-> IF i = 0 THEN init ELSE body(i, f[i - 1])]
           upTo == CHOOSE g : g = [i \in 0 .. N |-> IF i = 0 THEN init ELSE body(i, g[i - 1])]
<1>6. f = run
  <2> HIDE DEF body, N, init
  <2>1. \A i \in 0 .. N : f[i] = run[i]
    BY <1>5
  <2> QED
    BY <1>5, <2>1
<1>7. upTo = [i \in 0 .. N |-> IF i = 0 THEN init ELSE body(i, upTo[i - 1])]
  BY <1>6
<1>8. Roots = upTo[N]
  BY DEF Roots
<1>9. \A k \in 0 .. N : upTo[k] = f[k]
  <2> HIDE DEF body, N, init
  <2>1. upTo[0] = init /\ \A i \in 1 .. N : upTo[i] = body(i, upTo[i - 1])
    <3> HIDE DEF upTo
    <3> QED
      BY <1>1, <1>7
  <2> HIDE DEF upTo
  <2>2. \A i \in 1 .. N : upTo[i - 1] \in Seq(Nodes) => upTo[i] = step[i][upTo[i - 1]]
    BY <1>3, <2>1
  <2>3. Mimics(Seq(Nodes), upTo, N, init, step)
    BY <2>1, <2>2 DEF Mimics
  <2> QED
    BY <1>1, <1>4, <2>3, OneRun
<1>10. Roots = f[Len(NodeList)]
  <2> HIDE DEF upTo, N, body, init
  <2>1. upTo[N] = f[N]
    BY <1>1, <1>9
  <2> QED
    BY <1>8, <2>1 DEF N
<1> QED
  BY <1>5, <1>10

(* The roots are the nodes that wait for nothing, each of them once.       *)
LEMMA RootsFacts ==
    /\ Roots \in Seq(Nodes) /\ IsInjective(Roots) /\ Range(Roots) = Fed(Leaving({}))
    /\ Start \in Fronts /\ Start.incoming = Rest(Leaving({})) /\ Start.released = Roots
<1> DEFINE N == Len(NodeList)
           X(i) == {NodeList[j] : j \in {k \in 1 .. i : In(NodeList[k]) = {}}}
<1>1. /\ N \in Nat /\ \A i \in 1 .. N : NodeList[i] \in Nodes
      /\ \A i, j \in 1 .. N : NodeList[i] = NodeList[j] => i = j
      /\ \A n \in Nodes : \E i \in 1 .. N : NodeList[i] = n
  BY Documents DEF Lists
<1>2. PICK f : /\ \A i \in 0 .. N : f[i] \in Seq(Nodes)
               /\ f[0] = <<>> /\ Roots = f[N]
               /\ \A i \in 1 .. N :
                     f[i] = IF In(NodeList[i]) = {} THEN Append(f[i - 1], NodeList[i]) ELSE f[i - 1]
  BY RootsRuns
<1> DEFINE P(i) == IsInjective(f[i]) /\ Range(f[i]) = X(i)
           T == {i \in 0 .. N : P(i)}
<1>3. 0 \in T
  <2>1. IsInjective(<<>>) /\ Range(<<>>) = {}
    BY DEF IsInjective, Range
  <2>2. X(0) = {}
    OBVIOUS
  <2>3. P(0)
    <3> HIDE DEF X
    <3> QED
      BY <1>2, <2>1, <2>2
  <2>4. 0 \in 0 .. N
    BY <1>1
  <2> HIDE DEF P, N
  <2> QED
    BY <2>3, <2>4
<1>4. ASSUME NEW i \in 0 .. N - 1, i \in T PROVE i + 1 \in T
  <2> DEFINE n == NodeList[i + 1]
  <2>1. i + 1 \in 1 .. N /\ (i + 1) - 1 = i /\ i \in 0 .. N /\ i + 1 \in 0 .. N
    BY <1>1
  <2>2. f[i] \in Seq(Nodes) /\ n \in Nodes
    BY <1>1, <1>2, <2>1
  <2>3. f[i + 1] = IF In(n) = {} THEN Append(f[i], n) ELSE f[i]
    BY <1>2, <2>1
  <2>4. X(i + 1) = IF In(n) = {} THEN X(i) \cup {n} ELSE X(i)
    BY <2>1
  <2>5. n \notin X(i)
    <3>1. \A j \in 1 .. i : j \in 1 .. N /\ j # i + 1
      BY <2>1
    <3> QED
      BY <1>1, <2>1, <3>1
  <2>6. IsInjective(f[i]) /\ Range(f[i]) = X(i)
    BY <1>4
  <2> HIDE DEF X, n
  <2>7. P(i + 1)
    <3>1. CASE In(n) = {}
      <4>1. f[i + 1] = Append(f[i], n) /\ X(i + 1) = X(i) \cup {n}
        BY <2>3, <2>4, <3>1
      <4>2. /\ Range(Append(f[i], n)) = Range(f[i]) \cup {n}
            /\ IsInjective(Append(f[i], n))
        BY <2>2, <2>5, <2>6, AppendFacts
      <4> QED
        BY <2>6, <4>1, <4>2
    <3>2. CASE In(n) # {}
      BY <2>3, <2>4, <2>6, <3>2
    <3> QED
      BY <3>1, <3>2
  <2> QED
    BY <2>1, <2>7
<1>5. N \in T
  <2> HIDE DEF T, N
  <2>1. 0 .. N \subseteq T
    BY <1>1, <1>3, <1>4, UpTo
  <2> QED
    BY <1>1, <2>1
<1>6. Leaving({}) = {}
  BY DEF Leaving
<1>7. X(N) = Fed({})
  BY <1>1 DEF Fed
<1>8. Roots \in Seq(Nodes) /\ IsInjective(Roots) /\ Range(Roots) = Fed({})
  <2>1. P(N)
    BY <1>5
  <2>2. N \in 0 .. N /\ Roots = f[N]
    BY <1>1, <1>2
  <2>3. f[N] \in Seq(Nodes)
    BY <1>2, <2>2
  <2> HIDE DEF N, X
  <2> QED
    BY <1>7, <2>1, <2>2, <2>3
<1>9. Degree = Rest({}) /\ Rest({}) \in [Nodes -> Int]
  BY RestZero DEF Degree, Rest
<1> QED
  BY <1>6, <1>8, <1>9 DEF Start, Fronts

Distinct(s) == s \in Seq(Nodes) /\ IsInjective(s)

(* Two disjoint sequences without repetition form one. *)
LEMMA ConcatFacts ==
    ASSUME NEW s, NEW t, Distinct(s), Distinct(t), Range(s) \cap Range(t) = {}
    PROVE  Distinct(s \o t)
<1>1. /\ s \o t \in Seq(Nodes) /\ Len(s \o t) = Len(s) + Len(t)
      /\ Len(s) \in Nat /\ Len(t) \in Nat
      /\ \A i \in 1 .. Len(s) : (s \o t)[i] = s[i]
      /\ \A i \in 1 .. Len(t) : (s \o t)[Len(s) + i] = t[i]
      /\ DOMAIN s = 1 .. Len(s) /\ DOMAIN t = 1 .. Len(t)
      /\ DOMAIN (s \o t) = 1 .. Len(s) + Len(t)
  BY DEF Distinct
<1>2. \A i \in Len(s) + 1 .. Len(s) + Len(t) :
          i - Len(s) \in 1 .. Len(t) /\ (s \o t)[i] = t[i - Len(s)]
  <2> SUFFICES ASSUME NEW i \in Len(s) + 1 .. Len(s) + Len(t)
               PROVE  i - Len(s) \in 1 .. Len(t) /\ (s \o t)[i] = t[i - Len(s)]
    OBVIOUS
  <2>1. i - Len(s) \in 1 .. Len(t) /\ Len(s) + (i - Len(s)) = i
    BY <1>1
  <2> QED
    BY <1>1, <2>1
<1>3. \A i \in 1 .. Len(s), j \in 1 .. Len(t) : s[i] # t[j]
  BY <1>1 DEF Range
<1>4. ASSUME NEW i \in 1 .. Len(s) + Len(t), NEW j \in 1 .. Len(s) + Len(t),
             (s \o t)[i] = (s \o t)[j]
      PROVE  i = j
  <2>1. CASE i \in 1 .. Len(s) /\ j \in 1 .. Len(s)
    BY <1>1, <1>4, <2>1 DEF Distinct, IsInjective
  <2>2. CASE i \in Len(s) + 1 .. Len(s) + Len(t) /\ j \in Len(s) + 1 .. Len(s) + Len(t)
    <3>1. t[i - Len(s)] = t[j - Len(s)] /\ i - Len(s) \in 1 .. Len(t) /\ j - Len(s) \in 1 .. Len(t)
      BY <1>2, <1>4, <2>2
    <3>2. i - Len(s) = j - Len(s)
      BY <1>1, <3>1 DEF Distinct, IsInjective
    <3> QED
      BY <1>1, <3>2
  <2>3. CASE i \in 1 .. Len(s) /\ j \in Len(s) + 1 .. Len(s) + Len(t)
    BY <1>1, <1>2, <1>3, <1>4, <2>3
  <2>4. CASE j \in 1 .. Len(s) /\ i \in Len(s) + 1 .. Len(s) + Len(t)
    BY <1>1, <1>2, <1>3, <1>4, <2>4
  <2> QED
    BY <1>1, <2>1, <2>2, <2>3, <2>4
<1> QED
  BY <1>1, <1>4 DEF Distinct, IsInjective

(* The elements of a concatenation. *)
LEMMA RangeConcat ==
    ASSUME NEW s \in Seq(Nodes), NEW t \in Seq(Nodes)
    PROVE  s \o t \in Seq(Nodes) /\ Range(s \o t) = Range(s) \cup Range(t)
  BY RangeConcatenation

(* Concatenation is associative. *)
LEMMA Regroup ==
    ASSUME NEW a \in Seq(Nodes), NEW b \in Seq(Nodes), NEW c \in Seq(Nodes)
    PROVE  (a \o b) \o c = a \o (b \o c)
  BY ConcatAssociative

(* The head of the queue has not been popped before. *)
LEMMA HeadIsNew ==
    ASSUME NEW o \in Seq(Nodes), NEW r \in Seq(Nodes), r # <<>>, IsInjective(o \o r)
    PROVE  Head(r) \notin Range(o)
<1>1. (o \o r)[Len(o) + 1] = Head(r) /\ Len(o) + 1 \in DOMAIN (o \o r)
  OBVIOUS
<1>2. \A j \in DOMAIN o : (o \o r)[j] = o[j] /\ j \in DOMAIN (o \o r) /\ j # Len(o) + 1
  OBVIOUS
<1> QED
  BY <1>1, <1>2 DEF IsInjective, Range

(* Popping moves the head from the queue to the order. *)
LEMMA PopSequence ==
    ASSUME NEW o \in Seq(Nodes), NEW r \in Seq(Nodes), r # <<>>, NEW t \in Seq(Nodes)
    PROVE  /\ Head(r) \in Nodes /\ Tail(r) \in Seq(Nodes) /\ Append(o, Head(r)) \in Seq(Nodes)
           /\ Append(o, Head(r)) \o (Tail(r) \o t) = (o \o r) \o t
<1>1. Head(r) \in Nodes /\ Tail(r) \in Seq(Nodes) /\ Append(o, Head(r)) \in Seq(Nodes)
  OBVIOUS
<1>2. Append(o, Head(r)) \o Tail(r) = o \o r
  OBVIOUS
<1>3. Append(o, Head(r)) \o (Tail(r) \o t) = (Append(o, Head(r)) \o Tail(r)) \o t
  <2> DEFINE a == Append(o, Head(r))
             b == Tail(r)
  <2>1. a \in Seq(Nodes) /\ b \in Seq(Nodes)
    BY <1>1
  <2> HIDE DEF a, b
  <2>2. (a \o b) \o t = a \o (b \o t)
    BY <2>1, Regroup, SMTT(30)
  <2> QED
    BY <2>2 DEF a, b
<1> QED
  BY <1>1, <1>2, <1>3

(* Sequences that agree on a set of places have the same values there.     *)
LEMMA SameValues ==
    ASSUME NEW I, NEW p, NEW q, \A l \in I : p[l] = q[l]
    PROVE  {p[l] : l \in I} = {q[l] : l \in I}
  OBVIOUS

-----------------------------------------------------------------------------
(* topo_sort *)
Sorts == [front : Fronts, order : Seq(Nodes)]

Sorting(s) ==
    /\ s \in Sorts
    /\ s.front.incoming = Rest(Leaving(Range(s.order)))
    /\ Distinct(s.order \o s.front.released)
    /\ Range(s.order \o s.front.released) = Fed(Leaving(Range(s.order)))
    /\ \A j \in 1 .. Len(s.order) : In(s.order[j]) \subseteq Leaving({s.order[l] : l \in 1 .. j - 1})

(* A turn with a node in the queue. *)
Popped(s, t) ==
    /\ t.order = Append(s.order, Head(s.front.released))
    /\ Head(s.front.released) \in Nodes \ Range(s.order)
    /\ t.front.released = Tail(s.front.released)
                            \o Freed(Range(s.order), Head(s.front.released))
    /\ t.order \o t.front.released = (s.order \o s.front.released)
                                        \o Freed(Range(s.order), Head(s.front.released))

(* A turn of topo_sort with a node in the queue keeps the invariant.       *)
LEMMA PopStep ==
    ASSUME GraphTypeOK, NEW s, Sorting(s), s.front.released # <<>>
    PROVE  Sorting(Pop(s)) /\ Popped(s, Pop(s))
<1> DEFINE o == s.order
           r == s.front.released
           n == Head(r)
           D == Range(o)
           F == Freed(D, n)
           x == [s.front EXCEPT !.released = Tail(@)]
           t == Pop(s)
<1>1. /\ o \in Seq(Nodes) /\ r \in Seq(Nodes) /\ r # <<>> /\ s.front \in Fronts
      /\ n \in Nodes /\ Tail(r) \in Seq(Nodes)
  BY DEF Sorting, Sorts, Fronts
<1>2. D \in SUBSET Nodes
  BY <1>1 DEF Range
<1>3. Range(o \o r) = D \cup Range(r) /\ n \in Range(r)
  <2>1. n = r[1] /\ 1 \in DOMAIN r
    BY <1>1
  <2>2. n \in Range(r)
    BY <2>1 DEF Range
  <2> HIDE DEF o, r, n
  <2> QED
    BY <1>1, <2>2, RangeConcat DEF D
<1>4. n \notin D
  <2>1. IsInjective(o \o r)
    BY DEF Sorting, Distinct
  <2> HIDE DEF o, r
  <2> QED
    BY <1>1, <2>1, HeadIsNew
<1>5. In(n) \subseteq Leaving(D)
  BY <1>3 DEF Sorting, Fed
<1>6. x \in Fronts /\ x.incoming = Rest(Leaving(D)) /\ x.released = Tail(r)
  BY <1>1 DEF Fronts, Sorting
<1>7. t = [front |-> Relax(x, n, {}), order |-> Append(o, n)]
  BY <1>1 DEF Pop
<1>8. /\ t.front \in Fronts /\ t.front.incoming = Rest(Leaving(D \cup {n}))
      /\ t.front.released = Tail(r) \o F
      /\ F \in Seq(Nodes) /\ IsInjective(F)
      /\ Range(F) = Fed(Leaving(D \cup {n})) \ Fed(Leaving(D))
  <2> HIDE DEF x, n, D, o, r
  <2>1. {} \cap (Nodes \ Fed(Leaving(D))) = {}
    OBVIOUS
  <2>2. At(x, Leaving(D))
    BY <1>6 DEF At
  <2>3. Relaxed(x, Relax(x, n, {}), D, n)
    BY <1>1, <1>2, <1>4, <2>1, <2>2, RelaxFacts
  <2>4. t.front = Relax(x, n, {}) /\ x.released = Tail(r)
    BY <1>6, <1>7
  <2> HIDE DEF t
  <2> QED
    BY <2>3, <2>4 DEF Relaxed, F
<1>9. t.order = Append(o, n)
  BY <1>7
<1>10. t.order \o t.front.released = (o \o r) \o F /\ t.order \in Seq(Nodes)
  <2> HIDE DEF o, r, D, F, t
  <2>1. o \in Seq(Nodes) /\ r \in Seq(Nodes) /\ r # <<>> /\ F \in Seq(Nodes)
    BY <1>1, <1>8
  <2>2. Append(o, n) \o (Tail(r) \o F) = (o \o r) \o F
    BY <2>1, PopSequence, SMTT(30)
  <2>3. Append(o, n) \in Seq(Nodes)
    BY <2>1, PopSequence
  <2> QED
    BY <1>8, <1>9, <2>2, <2>3
<1>11. Range(t.order) = D \cup {n}
  <2> HIDE DEF o, n, t
  <2> QED
    BY <1>1, <1>9, AppendFacts DEF D
<1>12. Popped(s, t)
  BY <1>1, <1>4, <1>8, <1>9, <1>10 DEF Popped
<1>13. Fed(Leaving(D)) \subseteq Fed(Leaving(D \cup {n}))
  BY DEF Fed, Leaving
<1>14. Range((o \o r) \o F) = Fed(Leaving(D \cup {n})) /\ Distinct((o \o r) \o F)
  <2>1. Distinct(o \o r) /\ Range(o \o r) = Fed(Leaving(D)) /\ Distinct(F)
    BY <1>8 DEF Sorting, Distinct
  <2> HIDE DEF o, r, D, F, n
  <2>2. Range(o \o r) \cap Range(F) = {}
    BY <1>8, <2>1
  <2>3. Distinct((o \o r) \o F)
    BY <2>1, <2>2, ConcatFacts
  <2>4. o \o r \in Seq(Nodes)
    BY <2>1 DEF Distinct
  <2>5. Range((o \o r) \o F) = Range(o \o r) \cup Range(F)
    BY <1>8, <2>4, RangeConcat
  <2> QED
    BY <1>8, <1>13, <2>1, <2>3, <2>5
<1>15. ASSUME NEW j \in 1 .. Len(t.order)
       PROVE  In(t.order[j]) \subseteq Leaving({t.order[l] : l \in 1 .. j - 1})
  <2>1. /\ Len(t.order) = Len(o) + 1 /\ Len(o) \in Nat /\ t.order[Len(o) + 1] = n
        /\ \A l \in 1 .. Len(o) : t.order[l] = o[l]
    BY <1>1, <1>9
  <2>2. CASE j \in 1 .. Len(o)
    <3>1. In(o[j]) \subseteq Leaving({o[l] : l \in 1 .. j - 1})
      BY <2>2 DEF Sorting
    <3>2. {t.order[l] : l \in 1 .. j - 1} = {o[l] : l \in 1 .. j - 1} /\ t.order[j] = o[j]
      <4>1. \A l \in 1 .. j - 1 : l \in 1 .. Len(o)
        BY <2>1, <2>2
      <4>2. t.order[j] = o[j] /\ \A l \in 1 .. j - 1 : t.order[l] = o[l]
        BY <2>1, <2>2, <4>1
      <4> HIDE DEF t, o
      <4>3. {t.order[l] : l \in 1 .. j - 1} = {o[l] : l \in 1 .. j - 1}
        BY <4>2, SameValues
      <4> QED
        BY <4>2, <4>3
    <3> QED
      BY <3>1, <3>2
  <2>3. CASE j = Len(o) + 1
    <3>1. {t.order[l] : l \in 1 .. j - 1} = D
      <4>1. j - 1 = Len(o) /\ DOMAIN o = 1 .. Len(o)
        BY <1>1, <2>1, <2>3
      <4>2. D = {o[l] : l \in 1 .. Len(o)}
        BY <4>1 DEF Range
      <4> HIDE DEF t, o, D
      <4>3. \A l \in 1 .. Len(o) : t.order[l] = o[l]
        BY <2>1
      <4>4. {t.order[l] : l \in 1 .. Len(o)} = {o[l] : l \in 1 .. Len(o)}
        BY <4>3, SameValues
      <4>5. 1 .. j - 1 = 1 .. Len(o)
        BY <4>1
      <4> QED
        BY <4>2, <4>4, <4>5, Zenon
    <3> QED
      BY <1>5, <2>1, <2>3, <3>1
  <2> QED
    BY <2>1, <2>2, <2>3
<1>16. t \in Sorts
  BY <1>7, <1>8, <1>10 DEF Sorts
<1>17. Sorting(t)
  <2> HIDE DEF t, o, r, n, D, F
  <2> QED
    BY <1>8, <1>10, <1>11, <1>14, <1>15, <1>16 DEF Sorting
<1> QED
  BY <1>12, <1>17

(* Relax returns a front. *)
LEMMA RelaxTypes ==
    ASSUME GraphTypeOK, NEW s \in Fronts, NEW n, NEW scheduled
    PROVE  Relax(s, n, scheduled) \in Fronts
<1>1. Len(EdgeList) \in Nat
  BY Documents DEF Lists
<1> QED
  BY <1>1, RelaxRuns

(* Pop returns a state of the sort. *)
LEMMA PopTypes ==
    ASSUME GraphTypeOK, NEW s \in Sorts
    PROVE  Pop(s) \in Sorts
<1> SUFFICES ASSUME s.front.released # <<>> PROVE Pop(s) \in Sorts
  BY DEF Pop
<1> DEFINE r == s.front.released
<1>1. s.front \in Fronts /\ r \in Seq(Nodes) /\ r # <<>> /\ s.order \in Seq(Nodes)
  BY DEF Sorts, Fronts
<1>2. Head(r) \in Nodes /\ Tail(r) \in Seq(Nodes)
  BY <1>1
<1>3. [s.front EXCEPT !.released = Tail(@)] \in Fronts
  BY <1>1, <1>2 DEF Fronts
<1>4. Relax([s.front EXCEPT !.released = Tail(@)], Head(r), {}) \in Fronts
  BY <1>3, RelaxTypes
<1>5. Append(s.order, Head(r)) \in Seq(Nodes)
  BY <1>1, <1>2
<1> QED
  BY <1>4, <1>5 DEF Pop, Sorts

(* TopoSort, unrolled: one state per turn. *)
LEMMA SortRuns ==
    ASSUME GraphTypeOK
    PROVE  \E f : /\ \A i \in 0 .. Cardinality(Nodes) : f[i] \in Sorts
                  /\ f[0] = [front |-> Start, order |-> <<>>]
                  /\ TopoSort = f[Cardinality(Nodes)].order
                  /\ \A i \in 1 .. Cardinality(Nodes) : f[i] = Pop(f[i - 1])
<1> DEFINE N == Cardinality(Nodes)
           init == [front |-> Start, order |-> <<>>]
           body(i, x) == Pop(x)
<1>1. N \in Nat
  BY Documents
<1>2. init \in Sorts /\ \A i \in 1 .. N, x \in Sorts : body(i, x) \in Sorts
  <2>1. init \in Sorts
    BY RootsFacts DEF Sorts
  <2> QED
    BY <2>1, PopTypes
<1>3. PICK step : step = [i \in 1 .. N |-> [x \in Sorts |-> body(i, x)]]
  OBVIOUS
<1>4. PICK f : Run(Sorts, f, N, init, step)
  <2> HIDE DEF body, N, init
  <2>1. step \in [1 .. N -> [Sorts -> Sorts]]
    BY <1>2, <1>3
  <2> QED
    BY <1>1, <1>2, <2>1, Iterates
<1>5. /\ f \in [0 .. N -> Sorts] /\ f[0] = init
      /\ \A i \in 1 .. N : f[i] = body(i, f[i - 1])
  <2> HIDE DEF body, N, init
  <2>1. f \in [0 .. N -> Sorts] /\ f[0] = init /\ \A i \in 1 .. N : f[i] = step[i][f[i - 1]]
    BY <1>4 DEF Run
  <2>2. ASSUME NEW i \in 1 .. N PROVE step[i][f[i - 1]] = body(i, f[i - 1])
    <3>1. f[i - 1] \in Sorts
      BY <1>1, <2>1
    <3> QED
      BY <1>3, <3>1
  <2> QED
    BY <2>1, <2>2
<1> DEFINE run == [i \in 0 .. N |-> IF i = 0 THEN init ELSE body(i, f[i - 1])]
           upTo == CHOOSE g : g = [i \in 0 .. N |-> IF i = 0 THEN init ELSE body(i, g[i - 1])]
<1>6. f = run
  <2> HIDE DEF body, N, init
  <2>1. \A i \in 0 .. N : f[i] = run[i]
    BY <1>5
  <2> QED
    BY <1>5, <2>1
<1>7. upTo = [i \in 0 .. N |-> IF i = 0 THEN init ELSE body(i, upTo[i - 1])]
  BY <1>6
<1>8. TopoSort = upTo[N].order
  BY DEF TopoSort
<1>9. \A k \in 0 .. N : upTo[k] = f[k]
  <2> HIDE DEF body, N, init
  <2>1. upTo[0] = init /\ \A i \in 1 .. N : upTo[i] = body(i, upTo[i - 1])
    <3> HIDE DEF upTo
    <3> QED
      BY <1>1, <1>7
  <2> HIDE DEF upTo
  <2>2. \A i \in 1 .. N : upTo[i - 1] \in Sorts => upTo[i] = step[i][upTo[i - 1]]
    BY <1>3, <2>1
  <2>3. Mimics(Sorts, upTo, N, init, step)
    BY <2>1, <2>2 DEF Mimics
  <2> QED
    BY <1>1, <1>4, <2>3, OneRun
<1>10. TopoSort = f[Cardinality(Nodes)].order
  <2> HIDE DEF upTo, N, body, init
  <2>1. upTo[N] = f[N]
    BY <1>1, <1>9
  <2> QED
    BY <1>8, <2>1 DEF N
<1> QED
  BY <1>5, <1>10

(* The invariant holds when the loop is entered. *)
LEMMA SortStart == Sorting([front |-> Start, order |-> <<>>])
<1> DEFINE s == [front |-> Start, order |-> <<>>]
<1>1. s.order = <<>> /\ s.front = Start /\ Range(<<>>) = {} /\ Len(<<>>) = 0
  BY DEF Range
<1>2. <<>> \o Roots = Roots
  BY RootsFacts
<1> HIDE DEF s
<1>3. /\ Distinct(s.order \o s.front.released)
      /\ Range(s.order \o s.front.released) = Fed(Leaving(Range(s.order)))
  BY <1>1, <1>2, RootsFacts DEF Distinct
<1>4. s \in Sorts
  BY RootsFacts DEF s, Sorts
<1>5. s.front.incoming = Rest(Leaving(Range(s.order)))
  BY <1>1, RootsFacts
<1>6. \A j \in 1 .. Len(s.order) : In(s.order[j]) \subseteq Leaving({s.order[l] : l \in 1 .. j - 1})
  BY <1>1
<1>7. Sorting(s)
  BY <1>3, <1>4, <1>5, <1>6 DEF Sorting
<1> QED
  BY <1>7 DEF s

(* The turns of topo_sort. *)
Turns(f) ==
    /\ f[0] = [front |-> Start, order |-> <<>>]
    /\ \A k \in 0 .. Cardinality(Nodes) : Sorting(f[k])
    /\ \A k \in 1 .. Cardinality(Nodes) : f[k] = Pop(f[k - 1])
    /\ TopoSort = f[Cardinality(Nodes)].order

(* topo_sort has such turns. *)
LEMMA SortFacts ==
    ASSUME GraphTypeOK
    PROVE  \E f : Turns(f)
<1> DEFINE K == Cardinality(Nodes)
<1>1. PICK f : /\ \A i \in 0 .. K : f[i] \in Sorts
               /\ f[0] = [front |-> Start, order |-> <<>>] /\ TopoSort = f[K].order
               /\ \A i \in 1 .. K : f[i] = Pop(f[i - 1])
  BY SortRuns
<1>2. K \in Nat
  BY Documents
<1> DEFINE T == {k \in 0 .. K : Sorting(f[k])}
<1> HIDE DEF K
<1>3. 0 \in T
  BY <1>1, <1>2, SortStart
<1>4. ASSUME NEW k \in 0 .. K - 1, k \in T PROVE k + 1 \in T
  <2>1. k + 1 \in 0 .. K /\ k + 1 \in 1 .. K /\ (k + 1) - 1 = k
    BY <1>2
  <2>2. Sorting(f[k]) /\ f[k + 1] = Pop(f[k])
    BY <1>1, <1>4, <2>1
  <2>3. Sorting(f[k + 1])
    <3>1. CASE f[k].front.released = <<>>
      BY <2>2, <3>1 DEF Pop
    <3>2. CASE f[k].front.released # <<>>
      BY <2>2, <3>2, PopStep
    <3> QED
      BY <3>1, <3>2
  <2> QED
    BY <2>1, <2>3
<1>5. 0 .. K \subseteq T
  <2> HIDE DEF T
  <2> QED
    BY <1>2, <1>3, <1>4, UpTo
<1> QED
  BY <1>1, <1>5 DEF Turns, K

(* How far a turn has come. *)
LEMMA TurnCounts ==
    ASSUME GraphTypeOK, NEW f, Turns(f)
    PROVE  /\ \A k \in 0 .. Cardinality(Nodes) : f[k].front.released # <<>> => Len(f[k].order) = k
           /\ f[Cardinality(Nodes)].front.released = <<>>
<1> DEFINE K == Cardinality(Nodes)
           P(k) == f[k].front.released # <<>> => Len(f[k].order) = k
           T == {k \in 0 .. K : P(k)}
<1>1. K \in Nat /\ IsFiniteSet(Nodes)
  BY Documents
<1>2. 0 \in T
  <2>1. f[0].order = <<>> /\ Len(<<>>) = 0
    BY DEF Turns
  <2> QED
    BY <1>1, <2>1
<1>3. ASSUME NEW k \in 0 .. K - 1, k \in T PROVE k + 1 \in T
  <2>1. k + 1 \in 0 .. K /\ k + 1 \in 1 .. K /\ (k + 1) - 1 = k /\ k \in 0 .. K
    BY <1>1
  <2>2. Sorting(f[k]) /\ f[k + 1] = Pop(f[k])
    BY <2>1 DEF Turns
  <2>3. P(k + 1)
    <3>1. CASE f[k].front.released = <<>>
      BY <2>2, <3>1 DEF Pop
    <3>2. CASE f[k].front.released # <<>>
      <4>1. f[k + 1].order = Append(f[k].order, Head(f[k].front.released)) /\ Len(f[k].order) = k
        BY <1>3, <2>2, <3>2, PopStep DEF Popped
      <4>2. f[k].order \in Seq(Nodes)
        BY <2>2 DEF Sorting, Sorts
      <4> QED
        BY <4>1, <4>2
    <3> QED
      BY <3>1, <3>2
  <2> QED
    BY <2>1, <2>3
<1>4. 0 .. K \subseteq T
  <2> HIDE DEF T, K
  <2> QED
    BY <1>1, <1>2, <1>3, UpTo
<1>5. f[K].front.released = <<>>
  <2> SUFFICES ASSUME f[K].front.released # <<>> PROVE FALSE
    OBVIOUS
  <2> DEFINE o == f[K].order
             r == f[K].front.released
  <2>1. K \in 0 .. K /\ Sorting(f[K])
    BY <1>1 DEF Turns
  <2>2. Len(o) = K
    BY <1>4, <2>1
  <2>3. o \in Seq(Nodes) /\ r \in Seq(Nodes) /\ o \o r \in Seq(Nodes) /\ IsInjective(o \o r)
    BY <2>1 DEF Sorting, Sorts, Fronts, Distinct
  <2> HIDE DEF o, K
  <2>4. Len(o \o r) > K
    BY <2>2, <2>3, <1>1
  <2>5. Len(o \o r) <= K
    BY <1>1, <2>3, Enumerates DEF K
  <2>6. Len(o \o r) \in Nat
    BY <2>3
  <2> QED
    BY <1>1, <2>4, <2>5, <2>6
<1> QED
  BY <1>4, <1>5

(* topo_sort reaches every node exactly if no set of nodes waits for       *)
(* itself.                                                                 *)
LEMMA CompleteIfAcyclic ==
    ASSUME GraphTypeOK, NEW s, Sorting(s), s.front.released = <<>>
    PROVE  Range(s.order) = Nodes <=> Acyclic
<1> DEFINE o == s.order
           D == Range(o)
<1>1. o \in Seq(Nodes) /\ D \subseteq Nodes
  BY DEF Sorting, Sorts, Range
<1>2. o \o <<>> = o
  BY <1>1
<1>3. D = Fed(Leaving(D))
  BY <1>2 DEF Sorting
<1>4. ASSUME Acyclic, D # Nodes PROVE FALSE
  <2>1. Nodes \ D \in SUBSET Nodes /\ Nodes \ D # {}
    BY <1>1, <1>4
  <2>2. PICK n \in Nodes \ D : \A e \in Edges : target[e] = n => source[e] \notin Nodes \ D
    BY <1>4, <2>1 DEF Acyclic
  <2>3. In(n) \subseteq Leaving(D)
    BY <2>2 DEF In, Leaving, GraphTypeOK
  <2> QED
    BY <1>3, <2>2, <2>3 DEF Fed
<1>5. ASSUME D = Nodes PROVE Acyclic
  <2> SUFFICES ASSUME NEW S \in SUBSET Nodes, S # {}
               PROVE  \E n \in S : \A e \in Edges : target[e] = n => source[e] \notin S
    BY DEF Acyclic
  <2> DEFINE T == {j \in 1 .. Len(o) : o[j] \in S}
  <2>1. Len(o) \in Nat
    BY <1>1
  <2>2. PICK n \in S : n \in D
    BY <1>5
  <2>3. T \in SUBSET Nat /\ T # {}
    BY <1>1, <2>2 DEF Range
  <2>4. PICK j \in T : \A k \in T : j <= k
    <3> HIDE DEF T
    <3> QED
      BY <2>3, Least
  <2>5. j \in 1 .. Len(o) /\ o[j] \in S
    OBVIOUS
  <2>6. In(o[j]) \subseteq Leaving({o[l] : l \in 1 .. j - 1})
    BY <2>5 DEF Sorting
  <2>7. \A l \in 1 .. j - 1 : o[l] \notin S
    <3> SUFFICES ASSUME NEW l \in 1 .. j - 1, o[l] \in S PROVE FALSE
      OBVIOUS
    <3>1. l \in T /\ ~ (j <= l)
      BY <2>1, <2>5
    <3> QED
      BY <2>4, <3>1
  <2>8. ASSUME NEW e \in Edges, target[e] = o[j] PROVE source[e] \notin S
    <3>1. e \in Leaving({o[l] : l \in 1 .. j - 1})
      BY <2>6, <2>8 DEF In
    <3> QED
      BY <2>7, <3>1 DEF Leaving
  <2> QED
    BY <2>5, <2>8
<1> QED
  BY <1>4, <1>5

(* topo_sort's test: the order has as many nodes as the graph. *)
LEMMA SortVerdict ==
    ASSUME GraphTypeOK, NEW f, Turns(f)
    PROVE  Len(TopoSort) = Cardinality(Nodes) <=> Acyclic
<1> DEFINE s == f[Cardinality(Nodes)]
<1>1. Cardinality(Nodes) \in 0 .. Cardinality(Nodes) /\ IsFiniteSet(Nodes)
  BY Documents
<1>2. Sorting(s) /\ s.front.released = <<>> /\ TopoSort = s.order
  BY <1>1, TurnCounts DEF Turns
<1>3. s.order \in Seq(Nodes) /\ s.order \o <<>> = s.order
  BY <1>2 DEF Sorting, Sorts
<1>4. IsInjective(s.order)
  BY <1>2, <1>3 DEF Sorting, Distinct
<1>5. Len(s.order) = Cardinality(Nodes) <=> Range(s.order) = Nodes
  <2> HIDE DEF s
  <2> QED
    BY <1>1, <1>3, <1>4, Enumerates
<1> QED
  BY <1>2, <1>5, CompleteIfAcyclic

-----------------------------------------------------------------------------
(* FlattenSeq (SequencesExt) by its values on the first sequences. *)
Texts == Seq(Nodes)
Pieces(B) == B \in Seq(Seq(Nodes))

Concats(B, f) ==
    /\ \A i \in 0 .. Len(B) : f[i] \in Texts
    /\ f[0] = <<>> /\ \A i \in 1 .. Len(B) : f[i] = f[i - 1] \o B[i]

(* The empty sequence in front changes nothing. *)
LEMMA NothingBefore == ASSUME NEW b, b \in Texts PROVE <<>> \o b = b
  BY DEF Texts

(* The types of the pieces and of what they are appended to. *)
LEMMA PieceFacts ==
    ASSUME NEW B, Pieces(B)
    PROVE  /\ Len(B) \in Nat /\ \A i \in 1 .. Len(B) : B[i] \in Texts
           /\ <<>> \in Texts /\ \A i \in 1 .. Len(B), x \in Texts : x \o B[i] \in Texts
  BY DEF Pieces, Texts

(* The concatenations of the first pieces exist. *)
LEMMA ConcatsRuns ==
    ASSUME NEW B, Pieces(B)
    PROVE  \E f : Concats(B, f)
<1> DEFINE N == Len(B)
           body(i, x) == x \o B[i]
<1>1. N \in Nat /\ <<>> \in Texts /\ \A i \in 1 .. N, x \in Texts : body(i, x) \in Texts
  BY PieceFacts
<1>2. PICK step : step = [i \in 1 .. N |-> [x \in Texts |-> body(i, x)]]
  OBVIOUS
<1>3. PICK f : Run(Texts, f, N, <<>>, step)
  <2> HIDE DEF body, N
  <2>1. step \in [1 .. N -> [Texts -> Texts]]
    BY <1>1, <1>2
  <2> QED
    BY <1>1, <2>1, Iterates
<1>4. /\ \A i \in 0 .. N : f[i] \in Texts
      /\ f[0] = <<>> /\ \A i \in 1 .. N : f[i] = body(i, f[i - 1])
  <2> HIDE DEF body, N
  <2>1. f \in [0 .. N -> Texts] /\ f[0] = <<>> /\ \A i \in 1 .. N : f[i] = step[i][f[i - 1]]
    BY <1>3 DEF Run
  <2>2. ASSUME NEW i \in 1 .. N PROVE step[i][f[i - 1]] = body(i, f[i - 1])
    <3>1. f[i - 1] \in Texts
      BY <1>1, <2>1
    <3> QED
      BY <1>2, <3>1
  <2> QED
    BY <2>1, <2>2
<1> QED
  BY <1>4 DEF Concats

(* FlattenSeq is the last of them. *)
LEMMA FlattenConcats ==
    ASSUME NEW B, Pieces(B), NEW f, Concats(B, f)
    PROVE  FlattenSeq(B) = f[Len(B)]
<1> DEFINE N == Len(B)
<1>1. N \in Nat /\ \A i \in 1 .. N : B[i] \in Texts
  BY PieceFacts
<1>2. f[0] = <<>> /\ \A i \in 1 .. N : f[i] = f[i - 1] \o B[i]
  BY DEF Concats
<1>3. CASE N = 0
  <2>1. B = <<>>
    BY <1>3 DEF Pieces
  <2>2. FlattenSeq(B) = <<>>
    BY <2>1 DEF FlattenSeq
  <2> QED
    BY <1>2, <1>3, <2>2
<1>4. CASE N # 0
  <2> DEFINE h == [i \in 1 .. N |-> f[i]]
             run == [i \in 1 .. N |-> IF i = 1 THEN B[i] ELSE h[i - 1] \o B[i]]
             flatten == CHOOSE g : g = [i \in 1 .. N |-> IF i = 1 THEN B[i] ELSE g[i - 1] \o B[i]]
  <2>1. f[1] = B[1]
    <3> HIDE DEF N
    <3>1. 1 \in 1 .. N /\ 1 - 1 = 0
      BY <1>1, <1>4
    <3>2. f[1] = f[1 - 1] \o B[1] /\ B[1] \in Texts
      BY <1>1, <1>2, <3>1
    <3>3. f[1] = <<>> \o B[1]
      BY <1>2, <3>1, <3>2
    <3> QED
      BY <3>2, <3>3, NothingBefore
  <2>2. h = run
    <3>1. ASSUME NEW i \in 1 .. N PROVE f[i] = run[i]
      <4>1. run[i] = IF i = 1 THEN B[i] ELSE h[i - 1] \o B[i]
        OBVIOUS
      <4>2. CASE i = 1
        BY <2>1, <4>1, <4>2
      <4>3. CASE i # 1
        <5>1. i - 1 \in 1 .. N
          BY <1>1, <4>3
        <5>2. h[i - 1] = f[i - 1]
          BY <5>1
        <5> HIDE DEF h, run
        <5> QED
          BY <1>2, <4>1, <4>3, <5>2
      <4> QED
        BY <4>2, <4>3
    <3> QED
      BY <3>1
  <2>3. flatten = [i \in 1 .. N |-> IF i = 1 THEN B[i] ELSE flatten[i - 1] \o B[i]]
    BY <2>2
  <2>4. FlattenSeq(B) = flatten[N]
    BY <1>4 DEF FlattenSeq
  <2> DEFINE P(k) == k = 0 \/ flatten[k] = f[k]
             T == {k \in 0 .. N : P(k)}
  <2>5. 0 \in T
    BY <1>1
  <2>6. ASSUME NEW k \in 0 .. N - 1, k \in T PROVE k + 1 \in T
    <3>1. k + 1 \in 1 .. N /\ (k + 1) - 1 = k /\ k + 1 \in 0 .. N
      BY <1>1
    <3>2. f[k + 1] = f[k] \o B[k + 1]
      BY <1>2, <3>1
    <3>3. flatten[k + 1] = IF k + 1 = 1 THEN B[k + 1] ELSE flatten[k] \o B[k + 1]
      <4> HIDE DEF flatten, N
      <4> QED
        BY <2>3, <3>1
    <3>4. P(k)
      BY <2>6
    <3> HIDE DEF flatten, N
    <3>5. flatten[k + 1] = f[k + 1]
      <4>1. CASE k = 0
        BY <2>1, <3>3, <4>1
      <4>2. CASE k # 0
        <5>1. flatten[k] = f[k]
          BY <3>4, <4>2
        <5>2. k + 1 # 1
          BY <4>2
        <5>3. flatten[k + 1] = flatten[k] \o B[k + 1]
          BY <3>3, <5>2
        <5> QED
          BY <3>2, <5>1, <5>3
      <4> QED
        BY <4>1, <4>2
    <3> QED
      BY <3>1, <3>5
  <2>7. flatten[N] = f[N]
    <3> HIDE DEF P, N, flatten
    <3>1. 0 .. N \subseteq T
      <4> HIDE DEF T
      <4> QED
        BY <1>1, <2>5, <2>6, UpTo
    <3>2. P(N)
      BY <1>1, <3>1
    <3> QED
      BY <1>4, <3>2 DEF P
  <2> HIDE DEF flatten
  <2> QED
    BY <2>4, <2>7
<1> QED
  BY <1>3, <1>4

(* FlattenSeq of no piece. *)
LEMMA FlattenNone == FlattenSeq(<<>>) = <<>>
  BY DEF FlattenSeq

(* One piece more. *)
LEMMA PieceAppended ==
    ASSUME NEW B, Pieces(B), NEW R, R \in Texts
    PROVE  /\ Pieces(Append(B, R)) /\ Len(Append(B, R)) = Len(B) + 1
           /\ Append(B, R)[Len(B) + 1] = R /\ \A i \in 1 .. Len(B) : Append(B, R)[i] = B[i]
  BY DEF Pieces, Texts

(* FlattenSeq of one piece more. *)
LEMMA FlattenAppend ==
    ASSUME NEW B, Pieces(B), NEW R, R \in Texts
    PROVE  FlattenSeq(B) \in Texts /\ FlattenSeq(Append(B, R)) = FlattenSeq(B) \o R
<1> DEFINE C == Append(B, R)
           N == Len(B)
<1>1. /\ Pieces(C) /\ Len(C) = N + 1 /\ N \in Nat /\ C[N + 1] = R
      /\ \A i \in 1 .. N : C[i] = B[i]
  BY PieceAppended, PieceFacts
<1>2. PICK f : Concats(B, f)
  BY ConcatsRuns
<1> HIDE DEF C
<1>3. PICK g : Concats(C, g)
  BY <1>1, ConcatsRuns
<1>4. FlattenSeq(B) = f[N] /\ FlattenSeq(C) = g[N + 1]
  BY <1>1, <1>2, <1>3, FlattenConcats
<1>5. f[N] \in Texts /\ f[0] = <<>> /\ \A i \in 1 .. N : f[i] = f[i - 1] \o B[i]
  <2>1. N \in 0 .. N
    BY <1>1
  <2> QED
    BY <1>2, <2>1 DEF Concats
<1>6. g[0] = <<>> /\ \A i \in 1 .. N + 1 : g[i] = g[i - 1] \o C[i]
  BY <1>1, <1>3 DEF Concats
<1> DEFINE P(k) == f[k] = g[k]
           T == {k \in 0 .. N : P(k)}
<1> HIDE DEF N
<1>7. 0 \in T
  BY <1>1, <1>5, <1>6
<1>8. ASSUME NEW k \in 0 .. N - 1, k \in T PROVE k + 1 \in T
  <2>1. k + 1 \in 1 .. N /\ k + 1 \in 1 .. N + 1 /\ (k + 1) - 1 = k /\ k + 1 \in 0 .. N
    BY <1>1
  <2>2. f[k + 1] = f[k] \o B[k + 1]
    BY <1>5, <2>1
  <2>3. g[k + 1] = g[k] \o C[k + 1] /\ C[k + 1] = B[k + 1]
    BY <1>1, <1>6, <2>1
  <2>4. f[k] = g[k]
    BY <1>8
  <2>5. P(k + 1)
    BY <2>2, <2>3, <2>4
  <2> QED
    BY <2>1, <2>5
<1>9. f[N] = g[N]
  <2> HIDE DEF P
  <2>1. 0 .. N \subseteq T
    <3> HIDE DEF T
    <3> QED
      BY <1>1, <1>7, <1>8, UpTo
  <2>2. P(N)
    BY <1>1, <2>1
  <2> QED
    BY <2>2 DEF P
<1>10. g[N + 1] = g[N] \o R
  <2>1. N + 1 \in 1 .. N + 1 /\ (N + 1) - 1 = N
    BY <1>1
  <2> QED
    BY <1>1, <1>6, <2>1
<1> QED
  BY <1>4, <1>5, <1>9, <1>10 DEF C, N

(* A front without what it has released. *)
LEMMA Emptied ==
    ASSUME NEW p, p \in Fronts
    PROVE  [p EXCEPT !.released = <<>>] \in Fronts
<1>1. p = [incoming |-> p.incoming, released |-> p.released] /\ p.incoming \in [Nodes -> Int]
  BY DEF Fronts
<1>2. [p EXCEPT !.released = <<>>] = [incoming |-> p.incoming, released |-> <<>>]
  BY <1>1
<1>3. <<>> \in Seq(Nodes)
  OBVIOUS
<1> QED
  BY <1>1, <1>2, <1>3 DEF Fronts

(* The fronts of Level, one per node of the level. *)
Leveled(s, g) ==
    /\ \A i \in 0 .. Len(s.front.released) : g[i] \in Fronts
    /\ g[0] = [s.front EXCEPT !.released = <<>>] /\ Level(s) = g[Len(s.front.released)]
    /\ \A i \in 1 .. Len(s.front.released) :
          g[i] = Relax(g[i - 1], s.front.released[i], s.scheduled \cup Range(g[i - 1].released))

(* Level, unrolled. *)
LEMMA LevelRuns ==
    ASSUME GraphTypeOK, NEW s, s.front \in Fronts
    PROVE  \E f : Leveled(s, f)
<1> DEFINE N == Len(s.front.released)
           init == [s.front EXCEPT !.released = <<>>]
           body(i, x) == Relax(x, s.front.released[i], s.scheduled \cup Range(x.released))
<1>1. N \in Nat
  <2>1. s.front.released \in Seq(Nodes)
    BY DEF Fronts
  <2> QED
    BY <2>1
<1>2. init \in Fronts /\ \A i \in 1 .. N, x \in Fronts : body(i, x) \in Fronts
  <2>1. init \in Fronts
    BY Emptied
  <2> QED
    BY <2>1, RelaxTypes
<1>3. PICK step : step = [i \in 1 .. N |-> [x \in Fronts |-> body(i, x)]]
  OBVIOUS
<1>4. PICK f : Run(Fronts, f, N, init, step)
  <2> HIDE DEF body, N, init
  <2>1. step \in [1 .. N -> [Fronts -> Fronts]]
    BY <1>2, <1>3
  <2> QED
    BY <1>1, <1>2, <2>1, Iterates
<1>5. /\ f \in [0 .. N -> Fronts] /\ f[0] = init
      /\ \A i \in 1 .. N : f[i] = body(i, f[i - 1])
  <2> HIDE DEF body, N, init
  <2>1. f \in [0 .. N -> Fronts] /\ f[0] = init /\ \A i \in 1 .. N : f[i] = step[i][f[i - 1]]
    BY <1>4 DEF Run
  <2>2. ASSUME NEW i \in 1 .. N PROVE step[i][f[i - 1]] = body(i, f[i - 1])
    <3>1. f[i - 1] \in Fronts
      BY <1>1, <2>1
    <3> QED
      BY <1>3, <3>1
  <2> QED
    BY <2>1, <2>2
<1> DEFINE run == [i \in 0 .. N |-> IF i = 0 THEN init ELSE body(i, f[i - 1])]
           upTo == CHOOSE g : g = [i \in 0 .. N |-> IF i = 0 THEN init ELSE body(i, g[i - 1])]
<1>6. f = run
  <2> HIDE DEF body, N, init
  <2>1. ASSUME NEW i \in 0 .. N PROVE f[i] = run[i]
    <3>1. run[i] = IF i = 0 THEN init ELSE body(i, f[i - 1])
      OBVIOUS
    <3>2. i # 0 => i \in 1 .. N
      BY <1>1
    <3> HIDE DEF run
    <3> QED
      BY <1>5, <3>1, <3>2
  <2>2. f \in [0 .. N -> Fronts]
    BY <1>5
  <2> QED
    BY <2>1, <2>2
<1>7. upTo = [i \in 0 .. N |-> IF i = 0 THEN init ELSE body(i, upTo[i - 1])]
  BY <1>6
<1>8. Level(s) = upTo[N]
  BY DEF Level
<1>9. \A k \in 0 .. N : upTo[k] = f[k]
  <2> HIDE DEF body, N, init
  <2>1. upTo[0] = init /\ \A i \in 1 .. N : upTo[i] = body(i, upTo[i - 1])
    <3> HIDE DEF upTo
    <3> QED
      BY <1>1, <1>7
  <2> HIDE DEF upTo
  <2>2. \A i \in 1 .. N : upTo[i - 1] \in Fronts => upTo[i] = step[i][upTo[i - 1]]
    BY <1>3, <2>1
  <2>3. Mimics(Fronts, upTo, N, init, step)
    BY <2>1, <2>2 DEF Mimics
  <2> QED
    BY <1>1, <1>4, <2>3, OneRun
<1>10. Level(s) = f[Len(s.front.released)]
  <2> HIDE DEF upTo, N, body, init
  <2>1. upTo[N] = f[N]
    BY <1>1, <1>9
  <2> QED
    BY <1>8, <2>1 DEF N
<1>11. Leveled(s, f)
  BY <1>5, <1>10 DEF Leveled
<1> QED
  BY <1>11

-----------------------------------------------------------------------------
(* execution_batches takes the nodes of a level as topo_sort does, one     *)
(* after another: t is the state of the sort and x the front of the level  *)
(* after i nodes of the level R, and F are the nodes of the levels before. *)
Partway(F, R, i, x, t) ==
    /\ x \in Fronts /\ x.incoming = t.front.incoming
    /\ \E a, b : /\ a \in Texts /\ b \in Texts /\ R = a \o b /\ Len(a) = i
                 /\ t.order = F \o a /\ t.front.released = b \o x.released

(* n moves from the nodes b that are left to the nodes a that are done. *)
Moved(F, a, b, c, d, n, rest) ==
    /\ b \o c # <<>> /\ Head(b \o c) = n /\ n = (a \o b)[Len(a) + 1]
    /\ Append(a, n) \in Texts /\ rest \in Texts
    /\ a \o b = Append(a, n) \o rest
    /\ Len(Append(a, n)) = Len(a) + 1
    /\ Append(F \o a, n) = F \o Append(a, n)
    /\ Tail(b \o c) \o d = rest \o (c \o d)

(* Concatenation is associative (for Texts). *)
LEMMA Regrouped ==
    ASSUME NEW a, a \in Texts, NEW b, b \in Texts, NEW c, c \in Texts
    PROVE  (a \o b) \o c = a \o (b \o c)
<1>1. a \in Seq(Nodes) /\ b \in Seq(Nodes) /\ c \in Seq(Nodes)
  BY DEF Texts
<1> QED
  BY <1>1, Regroup

(* The head of what is left of the level moves to what is done. *)
LEMMA PartwayStep ==
    ASSUME NEW F, F \in Texts, NEW a, a \in Texts, NEW b, b \in Texts, NEW c, c \in Texts,
           NEW d, d \in Texts, Len(a) < Len(a \o b)
    PROVE  Moved(F, a, b, c, d, Head(b), Tail(b))
<1>1. b # <<>> /\ Len(b) > 0
  BY DEF Texts
<1>2. b \o c # <<>> /\ Head(b \o c) = Head(b) /\ Tail(b \o c) = Tail(b) \o c
  BY <1>1 DEF Texts
<1>3. Head(b) = (a \o b)[Len(a) + 1] /\ Len(Append(a, Head(b))) = Len(a) + 1
  BY <1>1 DEF Texts
<1>4. Head(b) \in Nodes /\ Append(a, Head(b)) \in Texts /\ Tail(b) \in Texts
  <2>1. Head(b) \in Nodes
    BY <1>1 DEF Texts
  <2>2. Append(a, Head(b)) \in Texts
    BY <2>1 DEF Texts
  <2>3. Tail(b) \in Texts
    BY <1>1 DEF Texts
  <2> QED
    BY <2>1, <2>2, <2>3
<1>5. a \o b = Append(a, Head(b)) \o Tail(b)
  BY <1>1, SMTT(30) DEF Texts
<1>6. Append(F \o a, Head(b)) = F \o Append(a, Head(b))
  <2> DEFINE x == Head(b)
  <2>1. F \in Seq(Nodes) /\ a \in Seq(Nodes) /\ x \in Nodes
    BY <1>4 DEF Texts
  <2> HIDE DEF x
  <2>2. Append(F \o a, x) = F \o Append(a, x)
    BY <2>1, AppendConcat, Zenon
  <2> QED
    BY <2>2 DEF x
<1>7. (Tail(b) \o c) \o d = Tail(b) \o (c \o d)
  <2> DEFINE e == Tail(b)
  <2>1. e \in Texts
    BY <1>4
  <2> HIDE DEF e
  <2>2. (e \o c) \o d = e \o (c \o d)
    BY <2>1, Regrouped, SMTT(30)
  <2> QED
    BY <2>2 DEF e
<1>8. Tail(b \o c) \o d = Tail(b) \o (c \o d)
  BY <1>2, <1>7, Zenon
<1> QED
  BY <1>2, <1>3, <1>4, <1>5, <1>6, <1>8, Zenon DEF Moved

(* What is scheduled is the order and the queue of the sort. *)
LEMMA PartwayRange ==
    ASSUME NEW F, F \in Texts, NEW a, a \in Texts, NEW b, b \in Texts, NEW c, c \in Texts
    PROVE  Range((F \o a) \o (b \o c)) = (Range(F) \cup Range(a \o b)) \cup Range(c)
<1>1. /\ F \in Seq(Nodes) /\ a \in Seq(Nodes) /\ b \in Seq(Nodes) /\ c \in Seq(Nodes)
  BY DEF Texts
<1>2. F \o a \in Seq(Nodes) /\ Range(F \o a) = Range(F) \cup Range(a)
  BY <1>1, RangeConcat
<1>3. b \o c \in Seq(Nodes) /\ Range(b \o c) = Range(b) \cup Range(c)
  BY <1>1, RangeConcat
<1>4. Range(a \o b) = Range(a) \cup Range(b)
  BY <1>1, RangeConcat
<1>5. Range((F \o a) \o (b \o c)) = Range(F \o a) \cup Range(b \o c)
  BY <1>2, <1>3, RangeConcat
<1> QED
  BY <1>2, <1>3, <1>4, <1>5

(* One node of the level is one turn of topo_sort. *)
LEMMA LevelStep ==
    ASSUME GraphTypeOK, NEW F, F \in Texts, NEW R, NEW i, i < Len(R), NEW x, NEW t,
           Sorting(t), Partway(F, R, i, x, t), NEW scheduled, scheduled = Range(F) \cup Range(R)
    PROVE  Partway(F, R, i + 1, Relax(x, R[i + 1], scheduled \cup Range(x.released)), Pop(t))
<1>1. PICK a, b : /\ a \in Texts /\ b \in Texts /\ R = a \o b /\ Len(a) = i
                  /\ t.order = F \o a /\ t.front.released = b \o x.released
  BY DEF Partway
<1>2. x \in Fronts /\ x.incoming = t.front.incoming
  BY DEF Partway
<1> DEFINE c == x.released
           n == Head(b)
           D == Range(t.order)
           d == Freed(D, n)
           y == Relax(x, n, scheduled \cup Range(c))
           u == Pop(t)
<1>3. c \in Texts
  BY <1>2 DEF Fronts, Texts
<1>4. Len(a) < Len(a \o b)
  BY <1>1
<1>5. b \o c # <<>> /\ Head(b \o c) = n /\ n = R[i + 1]
  <2> HIDE DEF c, n, d
  <2>1. Moved(F, a, b, c, <<>>, Head(b), Tail(b))
    <3>1. <<>> \in Texts
      BY DEF Texts
    <3> QED
      BY <1>1, <1>3, <1>4, <3>1, PartwayStep
  <2> QED
    BY <1>1, <2>1, Zenon DEF n, Moved
<1>6. Sorting(u) /\ Popped(t, u)
  <2>1. t.front.released # <<>>
    BY <1>1, <1>5
  <2> QED
    BY <2>1, PopStep
<1>7. /\ u.order = Append(F \o a, n) /\ n \in Nodes \ D
      /\ u.front.released = Tail(b \o c) \o d
  BY <1>1, <1>5, <1>6 DEF Popped
<1>8. D \in SUBSET Nodes /\ t.order \in Seq(Nodes)
  <2>1. t.order \in Seq(Nodes)
    BY DEF Sorting, Sorts
  <2> QED
    BY <2>1 DEF Range
<1>9. At(x, Leaving(D))
  BY <1>2 DEF At, Sorting
<1>10. (scheduled \cup Range(c)) \cap (Nodes \ Fed(Leaving(D))) = {}
  <2>1. Range(t.order \o t.front.released) = Fed(Leaving(D))
    BY DEF Sorting
  <2>2. t.order \o t.front.released = (F \o a) \o (b \o c)
    BY <1>1
  <2> HIDE DEF c, D
  <2>3. Range((F \o a) \o (b \o c)) = (Range(F) \cup Range(a \o b)) \cup Range(c)
    BY <1>1, <1>3, PartwayRange
  <2>4. scheduled \cup Range(c) = Fed(Leaving(D))
    BY <1>1, <2>1, <2>2, <2>3
  <2> QED
    BY <2>4
<1> HIDE DEF u
<1>11. Relaxed(x, y, D, n)
  <2> HIDE DEF c, D, n
  <2> QED
    BY <1>7, <1>8, <1>9, <1>10, RelaxFacts
<1>12. y \in Fronts /\ y.incoming = Rest(Leaving(D \cup {n})) /\ y.released = c \o d /\ d \in Texts
  <2> HIDE DEF n, D, y
  <2> QED
    BY <1>11 DEF Relaxed, Texts, d
<1>13. Range(u.order) = D \cup {n}
  <2> HIDE DEF n
  <2>1. u.order = Append(t.order, n)
    BY <1>1, <1>7
  <2> QED
    <3>1. n \in Nodes
      BY <1>7
    <3> HIDE DEF D
    <3>2. Range(Append(t.order, n)) = Range(t.order) \cup {n}
      BY <1>8, <3>1, AppendFacts
    <3> QED
      BY <2>1, <3>2 DEF D
<1>14. y.incoming = u.front.incoming
  <2> HIDE DEF y, D, n
  <2> QED
    BY <1>6, <1>12, <1>13, SMTT(30) DEF Sorting
<1> HIDE DEF y, d, D, c
<1>15. /\ Append(a, n) \in Texts /\ Tail(b) \in Texts /\ R = Append(a, n) \o Tail(b)
       /\ Len(Append(a, n)) = i + 1
       /\ u.order = F \o Append(a, n) /\ u.front.released = Tail(b) \o y.released
  <2>1. Moved(F, a, b, c, d, n, Tail(b))
    BY <1>1, <1>3, <1>4, <1>12, PartwayStep
  <2> HIDE DEF n
  <2> QED
    BY <1>1, <1>7, <1>12, <2>1 DEF Moved
<1> HIDE DEF n
<1>16. Partway(F, R, i + 1, y, u)
  BY <1>12, <1>14, <1>15 DEF Partway
<1>17. y = Relax(x, R[i + 1], scheduled \cup Range(x.released)) /\ u = Pop(t)
  BY <1>5 DEF y, u, c
<1> QED
  BY <1>16, <1>17

(* A level before its first node. *)
LEMMA NothingPartway ==
    ASSUME NEW F, F \in Texts, NEW R, R \in Texts
    PROVE  /\ <<>> \in Texts /\ R = <<>> \o R /\ Len(<<>>) = 0 /\ F = F \o <<>> /\ R = R \o <<>>
           /\ Len(R) \in Nat /\ Len(F \o R) = Len(F) + Len(R) /\ (R # <<>> => Len(R) > 0)
  BY DEF Texts

(* A level after its last node. *)
LEMMA AllPartway ==
    ASSUME NEW a, a \in Texts, NEW b, b \in Texts, Len(a \o b) = Len(a)
    PROVE  b = <<>> /\ a \o b = a
<1>1. b = <<>>
  BY DEF Texts
<1>2. a \o <<>> = a
  BY DEF Texts
<1> QED
  BY <1>1, <1>2

(* Fronts are told apart by their fields. *)
LEMMA SameFront ==
    ASSUME NEW x, x \in Fronts, NEW y, y \in Fronts,
           x.incoming = y.incoming, x.released = y.released
    PROVE  x = y
  BY DEF Fronts

AfterLevel(f, k, s, m) ==
    f[m].order = f[k].order \o s.front.released /\ f[m].front = Level(s)

(* The sort is at the front of the next level when it has popped the nodes *)
(* of this one.                                                            *)
LEMMA LevelIsPopped ==
    ASSUME GraphTypeOK, NEW f, Turns(f), NEW k \in 0 .. Cardinality(Nodes), NEW s,
           s.front = f[k].front, s.front.released # <<>>,
           s.scheduled = Range(f[k].order) \cup Range(s.front.released)
    PROVE  \E m \in 0 .. Cardinality(Nodes) : AfterLevel(f, k, s, m)
<1> DEFINE K == Cardinality(Nodes)
           F == f[k].order
           R == s.front.released
           r == Len(R)
<1>1. K \in Nat /\ IsFiniteSet(Nodes)
  BY Documents
<1>2. Sorting(f[k]) /\ Len(F) = k
  BY TurnCounts DEF Turns
<1>3. F \in Texts /\ R \in Texts /\ F \o R \in Seq(Nodes) /\ IsInjective(F \o R)
  BY <1>2 DEF Sorting, Sorts, Fronts, Texts, Distinct
<1>4. s.front \in Fronts
  BY <1>2 DEF Sorting, Sorts
<1>5. r \in Nat /\ k \in Nat /\ k + r <= K
  <2> HIDE DEF F, R, K
  <2>1. Len(F \o R) <= K
    BY <1>1, <1>3, Enumerates DEF K
  <2>2. r \in Nat /\ Len(F \o R) = Len(F) + r
    BY <1>3, NothingPartway
  <2>3. k \in Nat /\ Len(F) = k
    BY <1>2, Documents
  <2> HIDE DEF r
  <2> QED
    BY <1>1, <2>1, <2>2, <2>3
<1>6. PICK g : Leveled(s, g)
  BY <1>4, LevelRuns
<1>7. /\ \A i \in 0 .. r : g[i] \in Fronts
      /\ g[0] = [s.front EXCEPT !.released = <<>>] /\ Level(s) = g[r]
      /\ \A i \in 1 .. r : g[i] = Relax(g[i - 1], R[i], s.scheduled \cup Range(g[i - 1].released))
  BY <1>6 DEF Leveled
<1> DEFINE P(i) == Partway(F, R, i, g[i], f[k + i])
           T == {i \in 0 .. r : P(i)}
<1>8. 0 \in T
  <2>1. g[0] \in Fronts /\ g[0].incoming = f[k].front.incoming /\ g[0].released = <<>>
    <3>1. 0 \in 0 .. r
      BY <1>5
    <3>2. g[0] \in Fronts
      BY <1>7, <3>1
    <3>3. [s.front EXCEPT !.released = <<>>].incoming = s.front.incoming
      BY <1>4 DEF Fronts
    <3>4. [s.front EXCEPT !.released = <<>>].released = <<>>
      BY <1>4 DEF Fronts
    <3> QED
      BY <1>7, <3>2, <3>3, <3>4
  <2>2. k + 0 = k /\ 0 \in 0 .. r
    BY <1>5
  <2>3. f[k].order = F /\ f[k].front.released = R
    OBVIOUS
  <2> HIDE DEF F, R
  <2>4. Partway(F, R, 0, g[0], f[k])
    BY <1>3, <2>1, <2>3, NothingPartway DEF Partway
  <2> HIDE DEF r
  <2> QED
    BY <2>2, <2>4
<1>9. ASSUME NEW i \in 0 .. r - 1, i \in T PROVE i + 1 \in T
  <2>1. /\ i + 1 \in 1 .. r /\ (i + 1) - 1 = i /\ i + 1 \in 0 .. r /\ i < r
        /\ k + i \in 0 .. K /\ k + (i + 1) \in 1 .. K /\ (k + (i + 1)) - 1 = k + i
    <3> HIDE DEF r, K
    <3> QED
      BY <1>1, <1>5 DEF K
  <2>2. P(i)
    BY <1>9
  <2>3. Sorting(f[k + i]) /\ f[k + (i + 1)] = Pop(f[k + i])
    <3>1. \A j \in 1 .. K : f[j] = Pop(f[j - 1])
      BY DEF Turns
    <3>2. \A j \in 0 .. K : Sorting(f[j])
      BY DEF Turns
    <3>3. f[k + (i + 1)] = Pop(f[(k + (i + 1)) - 1])
      BY <2>1, <3>1
    <3> QED
      BY <2>1, <3>2, <3>3
  <2>4. g[i + 1] = Relax(g[i], R[i + 1], s.scheduled \cup Range(g[i].released))
    <3> HIDE DEF R, r
    <3> QED
      BY <1>7, <2>1
  <2>5. s.scheduled = Range(F) \cup Range(R)
    OBVIOUS
  <2>6. Partway(F, R, i + 1, g[i + 1], f[k + (i + 1)])
    <3> DEFINE t == f[k + i]
               x == g[i]
    <3>1. F \in Texts /\ i < Len(R) /\ Sorting(t) /\ Partway(F, R, i, x, t)
      BY <1>3, <2>1, <2>2, <2>3
    <3>2. /\ f[k + (i + 1)] = Pop(t)
          /\ g[i + 1] = Relax(x, R[i + 1], s.scheduled \cup Range(x.released))
      BY <2>3, <2>4
    <3> HIDE DEF F, R, T, t, x
    <3>3. Partway(F, R, i + 1, Relax(x, R[i + 1], s.scheduled \cup Range(x.released)), Pop(t))
      BY <2>5, <3>1, LevelStep
    <3> QED
      BY <3>2, <3>3
  <2> HIDE DEF F, R, r
  <2> QED
    BY <2>1, <2>6
<1>10. Partway(F, R, r, g[r], f[k + r])
  <2> HIDE DEF P, r
  <2>1. 0 .. r \subseteq T
    <3> HIDE DEF T
    <3> QED
      BY <1>5, <1>8, <1>9, UpTo
  <2>2. P(r)
    BY <1>5, <2>1
  <2> QED
    BY <2>2 DEF P
<1>11. k + r \in 0 .. K
  <2> HIDE DEF r, K
  <2> QED
    BY <1>1, <1>5
<1> DEFINE t == f[k + r]
<1>12. /\ t.order = F \o R /\ t.front.released = g[r].released
       /\ g[r] \in Fronts /\ g[r].incoming = t.front.incoming
  <2> HIDE DEF F, R, t
  <2>1. PICK a, b : /\ a \in Texts /\ b \in Texts /\ R = a \o b /\ Len(a) = r
                    /\ t.order = F \o a /\ t.front.released = b \o g[r].released
    BY <1>10 DEF Partway, t
  <2>2. b = <<>> /\ a \o b = a
    BY <2>1, AllPartway
  <2>3. g[r] \in Fronts /\ g[r].incoming = t.front.incoming
    BY <1>10 DEF Partway, t
  <2>4. g[r].released \in Texts
    BY <2>3 DEF Fronts, Texts
  <2>5. <<>> \o g[r].released = g[r].released
    BY <2>4, NothingBefore
  <2> HIDE DEF r
  <2> QED
    BY <2>1, <2>2, <2>3, <2>5
<1>13. t.front \in Fronts
  BY <1>11 DEF Turns, Sorting, Sorts
<1>14. t.front = Level(s)
  <2> HIDE DEF t, r
  <2> QED
    BY <1>7, <1>12, <1>13, SameFront
<1>15. AfterLevel(f, k, s, k + r)
  BY <1>12, <1>14 DEF AfterLevel
<1> HIDE DEF r
<1> QED
  BY <1>11, <1>15

(* execution_batches *)
Schedules == [front : Fronts, scheduled : SUBSET Nodes, batches : Seq(Seq(Nodes))]

(* The turns of execution_batches. *)
BatchTurns(f) ==
    /\ \A b \in 0 .. Cardinality(Nodes) : f[b] \in Schedules
    /\ f[0] = [front |-> Start, scheduled |-> Range(Roots), batches |-> <<>>]
    /\ ExecutionBatches = f[Cardinality(Nodes)].batches
    /\ \A b \in 1 .. Cardinality(Nodes) : f[b] = Advance(f[b - 1])

(* The state before the first level. *)
LEMMA ScheduleStarts ==
    [front |-> Start, scheduled |-> Range(Roots), batches |-> <<>>] \in Schedules
<1>1. Start \in Fronts /\ Roots \in Seq(Nodes)
  BY RootsFacts
<1>2. Range(Roots) \in SUBSET Nodes
  BY <1>1 DEF Range
<1>3. <<>> \in Seq(Seq(Nodes))
  OBVIOUS
<1> QED
  BY <1>1, <1>2, <1>3 DEF Schedules

(* Level returns a front. *)
LEMMA LevelTypes ==
    ASSUME GraphTypeOK, NEW s, s.front \in Fronts
    PROVE  Level(s) \in Fronts
<1>1. PICK g : Leveled(s, g)
  BY LevelRuns
<1>2. Len(s.front.released) \in Nat
  <2>1. s.front.released \in Seq(Nodes)
    BY DEF Fronts
  <2> QED
    BY <2>1
<1>3. Len(s.front.released) \in 0 .. Len(s.front.released)
  BY <1>2
<1> QED
  BY <1>1, <1>3 DEF Leveled

(* The type of what a front has released. *)
LEMMA ReleasedFacts ==
    ASSUME NEW x, x \in Fronts
    PROVE  x.released \in Texts /\ Range(x.released) \in SUBSET Nodes
<1>1. x.released \in Seq(Nodes)
  BY DEF Fronts
<1> QED
  BY <1>1 DEF Texts, Range

(* Advance returns a state of the loop. *)
LEMMA AdvanceTypes ==
    ASSUME GraphTypeOK, NEW s, s \in Schedules
    PROVE  Advance(s) \in Schedules
<1> SUFFICES ASSUME s.front.released # <<>> PROVE Advance(s) \in Schedules
  BY DEF Advance
<1>1. s.front \in Fronts /\ s.scheduled \in SUBSET Nodes /\ s.batches \in Seq(Seq(Nodes))
  BY DEF Schedules
<1>2. Level(s) \in Fronts
  BY <1>1, LevelTypes
<1>3. Range(Level(s).released) \in SUBSET Nodes
  BY <1>2, ReleasedFacts
<1>4. Append(s.batches, s.front.released) \in Seq(Seq(Nodes))
  <2>1. Pieces(s.batches) /\ s.front.released \in Texts
    BY <1>1, ReleasedFacts DEF Pieces
  <2>2. Pieces(Append(s.batches, s.front.released))
    BY <2>1, PieceAppended
  <2> QED
    BY <2>2 DEF Pieces
<1>5. Advance(s) = [front     |-> Level(s),
                    scheduled |-> s.scheduled \cup Range(Level(s).released),
                    batches   |-> Append(s.batches, s.front.released)]
  BY DEF Advance
<1>6. s.scheduled \cup Range(Level(s).released) \in SUBSET Nodes
  BY <1>1, <1>3
<1> QED
  BY <1>2, <1>4, <1>5, <1>6 DEF Schedules

(* ExecutionBatches, unrolled: one state per turn. *)
LEMMA BatchRuns ==
    ASSUME GraphTypeOK
    PROVE  \E f : BatchTurns(f)
<1> DEFINE N == Cardinality(Nodes)
           init == [front |-> Start, scheduled |-> Range(Roots), batches |-> <<>>]
           body(i, x) == Advance(x)
<1>1. N \in Nat
  BY Documents
<1>2. init \in Schedules /\ \A i \in 1 .. N, x \in Schedules : body(i, x) \in Schedules
  BY ScheduleStarts, AdvanceTypes
<1>3. PICK step : step = [i \in 1 .. N |-> [x \in Schedules |-> body(i, x)]]
  OBVIOUS
<1>4. PICK f : Run(Schedules, f, N, init, step)
  <2> HIDE DEF body, N, init
  <2>1. step \in [1 .. N -> [Schedules -> Schedules]]
    BY <1>2, <1>3
  <2> QED
    BY <1>1, <1>2, <2>1, Iterates
<1>5. /\ f \in [0 .. N -> Schedules] /\ f[0] = init
      /\ \A i \in 1 .. N : f[i] = body(i, f[i - 1])
  <2> HIDE DEF body, N, init
  <2>1. f \in [0 .. N -> Schedules] /\ f[0] = init /\ \A i \in 1 .. N : f[i] = step[i][f[i - 1]]
    BY <1>4 DEF Run
  <2>2. ASSUME NEW i \in 1 .. N PROVE step[i][f[i - 1]] = body(i, f[i - 1])
    <3>1. f[i - 1] \in Schedules
      BY <1>1, <2>1
    <3> QED
      BY <1>3, <3>1
  <2> QED
    BY <2>1, <2>2
<1> DEFINE run == [i \in 0 .. N |-> IF i = 0 THEN init ELSE body(i, f[i - 1])]
           upTo == CHOOSE g : g = [i \in 0 .. N |-> IF i = 0 THEN init ELSE body(i, g[i - 1])]
<1>6. f = run
  <2> HIDE DEF body, N, init
  <2>1. \A i \in 0 .. N : f[i] = run[i]
    BY <1>5
  <2> QED
    BY <1>5, <2>1
<1>7. upTo = [i \in 0 .. N |-> IF i = 0 THEN init ELSE body(i, upTo[i - 1])]
  BY <1>6
<1>8. ExecutionBatches = upTo[N].batches
  BY DEF ExecutionBatches
<1>9. \A k \in 0 .. N : upTo[k] = f[k]
  <2> HIDE DEF body, N, init
  <2>1. upTo[0] = init /\ \A i \in 1 .. N : upTo[i] = body(i, upTo[i - 1])
    <3> HIDE DEF upTo
    <3> QED
      BY <1>1, <1>7
  <2> HIDE DEF upTo
  <2>2. \A i \in 1 .. N : upTo[i - 1] \in Schedules => upTo[i] = step[i][upTo[i - 1]]
    BY <1>3, <2>1
  <2>3. Mimics(Schedules, upTo, N, init, step)
    BY <2>1, <2>2 DEF Mimics
  <2> QED
    BY <1>1, <1>4, <2>3, OneRun
<1>10. ExecutionBatches = f[Cardinality(Nodes)].batches
  <2> HIDE DEF upTo, N, body, init
  <2>1. upTo[N] = f[N]
    BY <1>1, <1>9
  <2> QED
    BY <1>8, <2>1 DEF N
<1>11. BatchTurns(f)
  BY <1>5, <1>10 DEF BatchTurns
<1> QED
  BY <1>11

-----------------------------------------------------------------------------
Before(B, j) == UNION {Range(B[l]) : l \in 1 .. (j - 1)}
IsLevel(B, j) == IsInjective(B[j]) /\ Range(B[j]) = NextBatch(Before(B, j))

Scheduling(f, s) ==
    /\ s.front \in Fronts /\ Pieces(s.batches)
    /\ \E k \in 0 .. Cardinality(Nodes) :
           s.front = f[k].front /\ f[k].order = FlattenSeq(s.batches)
    /\ s.scheduled = Range(FlattenSeq(s.batches)) \cup Range(s.front.released)
    /\ Before(s.batches, Len(s.batches) + 1) = Range(FlattenSeq(s.batches))
    /\ Len(s.batches) <= Len(FlattenSeq(s.batches))
    /\ \A j \in 1 .. Len(s.batches) : IsLevel(s.batches, j)

(* Batches that are appended leave those before them as they are. *)
LEMMA BeforeAppended ==
    ASSUME NEW B, Pieces(B), NEW R, R \in Texts
    PROVE  /\ \A j \in 1 .. Len(B) + 1 : Before(Append(B, R), j) = Before(B, j)
           /\ Before(Append(B, R), Len(B) + 2) = Before(B, Len(B) + 1) \cup Range(R)
           /\ \A j \in 1 .. Len(B) : IsLevel(B, j) => IsLevel(Append(B, R), j)
<1> DEFINE C == Append(B, R)
           N == Len(B)
<1>1. N \in Nat /\ C[N + 1] = R /\ \A i \in 1 .. N : C[i] = B[i]
  BY PieceAppended, PieceFacts
<1> HIDE DEF C, N
<1>2. ASSUME NEW j \in 1 .. N + 1 PROVE Before(C, j) = Before(B, j)
  <2>1. \A l \in 1 .. (j - 1) : C[l] = B[l]
    BY <1>1
  <2> QED
    BY <2>1 DEF Before
<1>3. Before(C, N + 2) = Before(B, N + 1) \cup Range(R)
  <2>1. 1 .. ((N + 2) - 1) = (1 .. ((N + 1) - 1)) \cup {N + 1}
    BY <1>1
  <2>2. \A l \in 1 .. ((N + 1) - 1) : C[l] = B[l]
    BY <1>1
  <2>3. Before(C, N + 2) = (UNION {Range(C[l]) : l \in 1 .. ((N + 1) - 1)}) \cup Range(C[N + 1])
    <3> DEFINE I == 1 .. ((N + 1) - 1)
    <3>1. Before(C, N + 2) = UNION {Range(C[l]) : l \in I \cup {N + 1}}
      BY <2>1 DEF Before
    <3> HIDE DEF I
    <3>2. {Range(C[l]) : l \in I \cup {N + 1}} = {Range(C[l]) : l \in I} \cup {Range(C[N + 1])}
      <4>1. ASSUME NEW x
            PROVE  x \in {Range(C[l]) : l \in I \cup {N + 1}}
                       <=> x \in {Range(C[l]) : l \in I} \cup {Range(C[N + 1])}
        OBVIOUS
      <4> QED
        BY <4>1
    <3> DEFINE A == {Range(C[l]) : l \in I}
    <3>3. Before(C, N + 2) = UNION (A \cup {Range(C[N + 1])})
      BY <3>1, <3>2
    <3> HIDE DEF A
    <3>4. UNION (A \cup {Range(C[N + 1])}) = (UNION A) \cup Range(C[N + 1])
      OBVIOUS
    <3> QED
      BY <3>3, <3>4 DEF A, I
  <2>4. {Range(C[l]) : l \in 1 .. ((N + 1) - 1)} = {Range(B[l]) : l \in 1 .. ((N + 1) - 1)}
    BY <2>2
  <2> QED
    BY <1>1, <2>3, <2>4 DEF Before
<1>4. ASSUME NEW j \in 1 .. N, IsLevel(B, j) PROVE IsLevel(C, j)
  <2>1. j \in 1 .. N + 1 /\ C[j] = B[j]
    BY <1>1
  <2>2. Before(C, j) = Before(B, j)
    BY <1>2, <2>1
  <2> QED
    BY <1>4, <2>1, <2>2 DEF IsLevel
<1> QED
  BY <1>2, <1>3, <1>4 DEF C, N

(* The queue, apart from what has been popped. *)
LEMMA QueueFacts ==
    ASSUME NEW F, F \in Texts, NEW R, R \in Texts, IsInjective(F \o R)
    PROVE  IsInjective(R) /\ Range(F) \cap Range(R) = {}
<1>1. /\ Len(F) \in Nat /\ Len(R) \in Nat
      /\ DOMAIN F = 1 .. Len(F) /\ DOMAIN R = 1 .. Len(R)
      /\ DOMAIN (F \o R) = 1 .. Len(F) + Len(R)
      /\ \A i \in 1 .. Len(F) : (F \o R)[i] = F[i]
      /\ \A i \in 1 .. Len(R) : (F \o R)[Len(F) + i] = R[i]
  BY DEF Texts
<1>2. ASSUME NEW i \in 1 .. Len(R), NEW j \in 1 .. Len(R), R[i] = R[j] PROVE i = j
  <2>1. Len(F) + i \in DOMAIN (F \o R) /\ Len(F) + j \in DOMAIN (F \o R)
    BY <1>1
  <2>2. (F \o R)[Len(F) + i] = (F \o R)[Len(F) + j]
    BY <1>1, <1>2
  <2>3. Len(F) + i = Len(F) + j
    BY <2>1, <2>2 DEF IsInjective
  <2> QED
    BY <1>1, <2>3
<1>3. ASSUME NEW i \in 1 .. Len(F), NEW j \in 1 .. Len(R), F[i] = R[j] PROVE FALSE
  <2>1. i \in DOMAIN (F \o R) /\ Len(F) + j \in DOMAIN (F \o R)
    BY <1>1
  <2>2. (F \o R)[i] = (F \o R)[Len(F) + j]
    BY <1>1, <1>3
  <2>3. i = Len(F) + j
    BY <2>1, <2>2 DEF IsInjective
  <2> QED
    BY <1>1, <2>3
<1>4. IsInjective(R)
  BY <1>1, <1>2 DEF IsInjective
<1>5. Range(F) \cap Range(R) = {}
  BY <1>1, <1>3 DEF Range
<1> QED
  BY <1>4, <1>5

(* (The part of Distinct that is not a type.) *)
LEMMA DistinctValues == ASSUME NEW s, Distinct(s) PROVE IsInjective(s)
  BY DEF Distinct

(* The queue holds the next level when a whole level has been popped.      *)
LEMMA NextIsQueue ==
    ASSUME NEW D, NEW Q, D \cup Q = Fed(Leaving(D)), D \cap Q = {}
    PROVE  Q = NextBatch(D)
<1>1. \A n \in Nodes : n \in Fed(Leaving(D)) <=> \A e \in In(n) : source[e] \in D
  BY DEF Fed, Leaving, In
<1>2. Fed(Leaving(D)) \subseteq Nodes
  BY DEF Fed
<1> QED
  BY <1>1, <1>2 DEF NextBatch

(* A level has a node. *)
LEMMA LongerConcat ==
    ASSUME NEW F, F \in Texts, NEW R, R \in Texts, R # <<>>, NEW N \in Nat, N <= Len(F)
    PROVE  N + 1 <= Len(F \o R)
<1>1. Len(F) \in Nat /\ Len(R) \in Nat /\ Len(R) > 0 /\ Len(F \o R) = Len(F) + Len(R)
  BY DEF Texts
<1> QED
  BY <1>1

(* A turn of execution_batches with a level left keeps the invariant.      *)
LEMMA AdvanceStep ==
    ASSUME GraphTypeOK, NEW f, Turns(f), NEW s, Scheduling(f, s), s.front.released # <<>>
    PROVE  Scheduling(f, Advance(s)) /\ Len(Advance(s).batches) = Len(s.batches) + 1
<1> DEFINE B == s.batches
           F == FlattenSeq(B)
           R == s.front.released
           N == Len(B)
           C == Append(B, R)
           t == Advance(s)
<1>1. PICK k \in 0 .. Cardinality(Nodes) : s.front = f[k].front /\ f[k].order = F
  BY DEF Scheduling
<1>2. s.front \in Fronts /\ Pieces(B) /\ s.scheduled = Range(F) \cup Range(R)
  BY DEF Scheduling
<1>3. R \in Texts
  BY <1>2, ReleasedFacts
<1>4. PICK m \in 0 .. Cardinality(Nodes) : f[m].order = F \o R /\ f[m].front = Level(s)
  <2> HIDE DEF F, R
  <2>1. s.scheduled = Range(f[k].order) \cup Range(s.front.released) /\ s.front = f[k].front
    BY <1>1, <1>2 DEF R
  <2>2. PICK m \in 0 .. Cardinality(Nodes) : AfterLevel(f, k, s, m)
    BY <2>1, LevelIsPopped
  <2>3. f[m].order = f[k].order \o R /\ f[m].front = Level(s)
    BY <2>2 DEF AfterLevel, R
  <2>4. f[k].order \o R = F \o R
    BY <1>1
  <2> QED
    BY <2>4, <2>3
<1>5. t.front = Level(s) /\ t.scheduled = s.scheduled \cup Range(Level(s).released) /\ t.batches = C
  BY DEF Advance
<1>6. Level(s) \in Fronts
  BY <1>2, LevelTypes
<1> HIDE DEF t, R, B
<1>7. F \in Texts /\ FlattenSeq(C) = F \o R
  BY <1>2, <1>3, FlattenAppend
<1>8. Pieces(C) /\ Len(C) = N + 1 /\ C[N + 1] = R /\ N \in Nat
  BY <1>2, <1>3, PieceAppended, PieceFacts
<1>9. IsInjective(F \o R) /\ Range(F \o R) = Fed(Leaving(Range(F)))
  <2>1. Sorting(f[k])
    BY DEF Turns
  <2>2. f[k].order = F /\ f[k].front.released = R
    BY <1>1 DEF R
  <2> HIDE DEF F
  <2>3. Distinct(F \o R) /\ Range(F \o R) = Fed(Leaving(Range(F)))
    BY <2>1, <2>2 DEF Sorting
  <2>4. IsInjective(F \o R)
    BY <2>3, DistinctValues
  <2> QED
    BY <2>3, <2>4
<1> HIDE DEF F
<1>10. IsInjective(R) /\ Range(F) \cap Range(R) = {}
  BY <1>3, <1>7, <1>9, QueueFacts
<1>11. Range(F \o R) = Range(F) \cup Range(R)
  <2>1. F \in Seq(Nodes) /\ R \in Seq(Nodes)
    BY <1>3, <1>7 DEF Texts
  <2> QED
    BY <2>1, RangeConcat
<1>12. Range(R) = NextBatch(Range(F))
  BY <1>9, <1>10, <1>11, NextIsQueue
<1>13. Before(B, N + 1) = Range(F) /\ N <= Len(F) /\ \A j \in 1 .. N : IsLevel(B, j)
  BY DEF Scheduling, F, B
<1>14. /\ Before(C, N + 1) = Range(F) /\ Before(C, N + 2) = Range(F \o R)
       /\ \A j \in 1 .. N : IsLevel(C, j)
  <2> HIDE DEF C, N
  <2>1. N + 1 \in 1 .. N + 1
    BY <1>8
  <2>2. /\ \A j \in 1 .. N + 1 : Before(C, j) = Before(B, j)
        /\ Before(C, N + 2) = Before(B, N + 1) \cup Range(R)
        /\ \A j \in 1 .. N : IsLevel(B, j) => IsLevel(C, j)
    BY <1>2, <1>3, BeforeAppended DEF C, N
  <2> QED
    BY <1>11, <1>13, <2>1, <2>2
<1> HIDE DEF C, N
<1>15. \A j \in 1 .. N + 1 : IsLevel(C, j)
  <2>1. IsLevel(C, N + 1)
    BY <1>8, <1>10, <1>12, <1>14 DEF IsLevel
  <2>2. \A j \in 1 .. N + 1 : j \in 1 .. N \/ j = N + 1
    BY <1>8
  <2> QED
    BY <1>14, <2>1, <2>2
<1>16. N + 1 <= Len(F \o R)
  BY <1>3, <1>7, <1>8, <1>13, LongerConcat DEF R
<1>17. (N + 1) + 1 = N + 2
  BY <1>8
<1>18. Len(t.batches) = N + 1 /\ FlattenSeq(t.batches) = F \o R
  BY <1>5, <1>7, <1>8
<1>19. Before(t.batches, Len(t.batches) + 1) = Range(FlattenSeq(t.batches))
  BY <1>5, <1>14, <1>17, <1>18
<1>20. t.scheduled = Range(FlattenSeq(t.batches)) \cup Range(t.front.released)
  BY <1>2, <1>5, <1>11, <1>18
<1>21. \E l \in 0 .. Cardinality(Nodes) : t.front = f[l].front /\ f[l].order = FlattenSeq(t.batches)
  BY <1>4, <1>5, <1>18
<1>22. /\ t.front \in Fronts /\ Pieces(t.batches)
       /\ Len(t.batches) <= Len(FlattenSeq(t.batches))
       /\ \A j \in 1 .. Len(t.batches) : IsLevel(t.batches, j)
  BY <1>5, <1>6, <1>8, <1>15, <1>16, <1>18
<1>23. Scheduling(f, t)
  BY <1>19, <1>20, <1>21, <1>22 DEF Scheduling
<1> QED
  BY <1>18, <1>23 DEF t, N, B

(* The batches before the first turn. *)
LEMMA NoPieces ==
    /\ Pieces(<<>>) /\ Len(<<>>) = 0 /\ Range(<<>>) = {} /\ Before(<<>>, 0 + 1) = {}
<1>1. Pieces(<<>>) /\ Len(<<>>) = 0
  BY DEF Pieces
<1>2. Range(<<>>) = {}
  BY DEF Range
<1>3. 1 .. ((0 + 1) - 1) = {}
  OBVIOUS
<1>4. Before(<<>>, 0 + 1) = {}
  BY <1>3 DEF Before
<1> QED
  BY <1>1, <1>2, <1>4

(* The invariant holds when the loop is entered. *)
LEMMA ScheduleStart ==
    ASSUME GraphTypeOK, NEW f, Turns(f), NEW h, BatchTurns(h)
    PROVE  Scheduling(f, h[0]) /\ Len(h[0].batches) = 0
<1> DEFINE s == h[0]
<1>1. s.front = Start /\ s.scheduled = Range(Roots) /\ s.batches = <<>>
  BY DEF BatchTurns
<1>2. f[0].front = Start /\ f[0].order = <<>> /\ 0 \in 0 .. Cardinality(Nodes)
  BY Documents DEF Turns
<1> HIDE DEF s
<1>3. \E k \in 0 .. Cardinality(Nodes) : s.front = f[k].front /\ f[k].order = FlattenSeq(s.batches)
  BY <1>1, <1>2, FlattenNone
<1>4. FlattenSeq(s.batches) = <<>> /\ Len(s.batches) = 0 /\ Pieces(s.batches)
  BY <1>1, FlattenNone, NoPieces
<1>5. s.front \in Fronts /\ s.front.released = Roots
  BY <1>1, RootsFacts
<1>6. s.scheduled = Range(FlattenSeq(s.batches)) \cup Range(s.front.released)
  BY <1>1, <1>4, <1>5, NoPieces
<1>7. Before(s.batches, Len(s.batches) + 1) = Range(FlattenSeq(s.batches))
  BY <1>1, <1>4, NoPieces
<1>8. /\ Len(s.batches) <= Len(FlattenSeq(s.batches))
      /\ \A j \in 1 .. Len(s.batches) : IsLevel(s.batches, j)
  BY <1>4, NoPieces
<1>9. Scheduling(f, s)
  BY <1>3, <1>4, <1>5, <1>6, <1>7, <1>8 DEF Scheduling
<1> QED
  BY <1>4, <1>9 DEF s

(* The invariant holds after every turn, with one batch per turn.          *)
LEMMA ScheduleCounts ==
    ASSUME GraphTypeOK, NEW f, Turns(f), NEW h, BatchTurns(h)
    PROVE  \A b \in 0 .. Cardinality(Nodes) :
               Scheduling(f, h[b]) /\ (h[b].front.released # <<>> => Len(h[b].batches) = b)
<1> DEFINE K == Cardinality(Nodes)
           P(b) == Scheduling(f, h[b]) /\ (h[b].front.released # <<>> => Len(h[b].batches) = b)
           T == {b \in 0 .. K : P(b)}
<1>1. K \in Nat
  BY Documents
<1>2. 0 \in T
  <2>1. P(0)
    BY ScheduleStart
  <2> HIDE DEF P, K
  <2> QED
    BY <1>1, <2>1
<1>3. ASSUME NEW b \in 0 .. K - 1, b \in T PROVE b + 1 \in T
  <2>1. b + 1 \in 0 .. K /\ b + 1 \in 1 .. K /\ (b + 1) - 1 = b
    BY <1>1
  <2>2. \A c \in 1 .. K : h[c] = Advance(h[c - 1])
    BY DEF BatchTurns
  <2>3. h[b + 1] = Advance(h[b])
    <3>1. h[b + 1] = Advance(h[(b + 1) - 1])
      BY <2>1, <2>2
    <3> QED
      BY <2>1, <3>1
  <2>4. P(b)
    BY <1>3
  <2>5. P(b + 1)
    <3>1. CASE h[b].front.released = <<>>
      <4>1. h[b + 1] = h[b]
        BY <2>3, <3>1 DEF Advance
      <4> QED
        BY <2>4, <3>1, <4>1
    <3>2. CASE h[b].front.released # <<>>
      <4>1. Scheduling(f, Advance(h[b])) /\ Len(Advance(h[b]).batches) = Len(h[b].batches) + 1
        BY <2>4, <3>2, AdvanceStep
      <4>2. Len(h[b].batches) = b
        BY <2>4, <3>2
      <4> QED
        BY <2>3, <4>1, <4>2
    <3> QED
      BY <3>1, <3>2
  <2> HIDE DEF P, K
  <2> QED
    BY <2>1, <2>5
<1>4. 0 .. K \subseteq T
  <2> HIDE DEF T, K
  <2> QED
    BY <1>1, <1>2, <1>3, UpTo
<1> QED
  BY <1>4

(* A level that is left after one turn per node would be one node too many.*)
LEMMA SchedulesEnd ==
    ASSUME GraphTypeOK, NEW f, Turns(f), NEW h, BatchTurns(h)
    PROVE  h[Cardinality(Nodes)].front.released = <<>>
<1> DEFINE K == Cardinality(Nodes)
           s == h[K]
           F == FlattenSeq(s.batches)
           R == s.front.released
<1>1. K \in Nat /\ K \in 0 .. K /\ IsFiniteSet(Nodes)
  BY Documents
<1> SUFFICES ASSUME R # <<>> PROVE FALSE
  OBVIOUS
<1>2. Scheduling(f, s) /\ Len(s.batches) = K
  BY <1>1, ScheduleCounts
<1> HIDE DEF s
<1>3. PICK k \in 0 .. Cardinality(Nodes) : s.front = f[k].front /\ f[k].order = F
  BY <1>2 DEF Scheduling
<1>4. Sorting(f[k])
  BY DEF Turns
<1>5. R \in Texts /\ F \in Texts
  <2>1. Pieces(s.batches) /\ s.front \in Fronts
    BY <1>2 DEF Scheduling
  <2>2. R \in Texts
    BY <2>1, ReleasedFacts
  <2> QED
    BY <2>1, <2>2, FlattenAppend
<1>6. Distinct(F \o R)
  <2>1. f[k].order = F /\ f[k].front.released = R
    BY <1>3
  <2> HIDE DEF F, R
  <2> QED
    BY <1>4, <2>1 DEF Sorting
<1>7. K <= Len(F)
  BY <1>2 DEF Scheduling
<1> HIDE DEF F, R
<1>8. K + 1 <= Len(F \o R)
  <2> HIDE DEF K
  <2> QED
    BY <1>1, <1>5, <1>7, LongerConcat
<1>9. F \o R \in Seq(Nodes) /\ IsInjective(F \o R)
  BY <1>6 DEF Distinct
<1>10. Len(F \o R) <= K /\ Len(F \o R) \in Nat
  <2>1. Len(F \o R) <= K
    BY <1>1, <1>9, Enumerates
  <2>2. Len(F \o R) \in Nat
    BY <1>9
  <2> QED
    BY <2>1, <2>2
<1> DEFINE l == Len(F \o R)
<1>11. K + 1 <= l /\ l <= K /\ l \in Nat
  BY <1>8, <1>10
<1> HIDE DEF l, K
<1> QED
  BY <1>1, <1>11

(* The sort stays where its queue is empty. *)
LEMMA SortEnds ==
    ASSUME GraphTypeOK, NEW f, Turns(f), NEW k \in 0 .. Cardinality(Nodes),
           f[k].front.released = <<>>
    PROVE  TopoSort = f[k].order
<1> DEFINE K == Cardinality(Nodes)
           P(j) == j >= k => f[j] = f[k]
           T == {j \in 0 .. K : P(j)}
<1>1. K \in Nat /\ k \in 0 .. K /\ k \in Nat
  BY Documents
<1>2. 0 \in T
  <2>1. 0 >= k => k = 0
    BY <1>1
  <2>2. P(0)
    BY <2>1
  <2> HIDE DEF P, K
  <2> QED
    BY <1>1, <2>2
<1>3. ASSUME NEW j \in 0 .. K - 1, j \in T PROVE j + 1 \in T
  <2>1. j + 1 \in 0 .. K /\ j + 1 \in 1 .. K /\ (j + 1) - 1 = j
    BY <1>1
  <2>2. \A i \in 1 .. K : f[i] = Pop(f[i - 1])
    BY DEF Turns
  <2>3. f[j + 1] = Pop(f[j])
    <3>1. f[j + 1] = Pop(f[(j + 1) - 1])
      BY <2>1, <2>2
    <3> QED
      BY <2>1, <3>1
  <2>4. P(j + 1)
    <3>1. CASE j >= k
      <4>1. f[j] = f[k]
        BY <1>3, <3>1
      <4>2. Pop(f[k]) = f[k]
        BY DEF Pop
      <4> QED
        BY <2>3, <4>1, <4>2
    <3>2. CASE ~ (j >= k)
      <4>1. j + 1 >= k => j + 1 = k
        BY <1>1, <3>2
      <4> QED
        BY <4>1
    <3> QED
      BY <3>1, <3>2
  <2> HIDE DEF P, K
  <2> QED
    BY <2>1, <2>4
<1>4. 0 .. K \subseteq T
  <2> HIDE DEF T, K
  <2> QED
    BY <1>1, <1>2, <1>3, UpTo
<1>5. K \in 0 .. K /\ K >= k
  <2> HIDE DEF K
  <2> QED
    BY <1>1
<1>6. f[K] = f[k]
  BY <1>4, <1>5
<1> QED
  BY <1>6 DEF Turns

(* Both loops, from their turns. *)
LEMMA LoopsAgree ==
    ASSUME GraphTypeOK
    PROVE  /\ Len(TopoSort) = Cardinality(Nodes) <=> Acyclic
           /\ FlattenSeq(ExecutionBatches) = TopoSort
           /\ \A j \in DOMAIN ExecutionBatches : IsLevel(ExecutionBatches, j)
<1> DEFINE K == Cardinality(Nodes)
<1>1. PICK f : Turns(f)
  BY SortFacts
<1>2. PICK h : BatchTurns(h)
  BY BatchRuns
<1> DEFINE s == h[K]
<1>3. s.front.released = <<>> /\ ExecutionBatches = s.batches
  BY <1>1, <1>2, SchedulesEnd DEF BatchTurns
<1>4. K \in 0 .. K
  BY Documents
<1>5. Scheduling(f, s)
  BY <1>1, <1>2, <1>4, ScheduleCounts
<1> HIDE DEF s
<1>6. PICK k \in 0 .. Cardinality(Nodes) : s.front = f[k].front /\ f[k].order = FlattenSeq(s.batches)
  BY <1>5 DEF Scheduling
<1>7. TopoSort = FlattenSeq(s.batches)
  <2>1. f[k].front.released = <<>>
    BY <1>3, <1>6
  <2>2. TopoSort = f[k].order
    BY <1>1, <2>1, SortEnds
  <2> QED
    BY <1>6, <2>2
<1>8. DOMAIN s.batches = 1 .. Len(s.batches)
  <2>1. Pieces(s.batches)
    BY <1>5 DEF Scheduling
  <2> QED
    BY <2>1 DEF Pieces
<1>9. \A j \in DOMAIN s.batches : IsLevel(s.batches, j)
  BY <1>5, <1>8 DEF Scheduling
<1>10. Len(TopoSort) = Cardinality(Nodes) <=> Acyclic
  BY <1>1, SortVerdict
<1> QED
  BY <1>3, <1>7, <1>9, <1>10

(* The property follows from the type of the graph alone. *)
LEMMA LoopsOfTypes == GraphTypeOK => LoopsComputeLevels
<1> SUFFICES ASSUME GraphTypeOK PROVE LoopsComputeLevels
  OBVIOUS
<1>1. /\ Len(TopoSort) = Cardinality(Nodes) <=> Acyclic
      /\ FlattenSeq(ExecutionBatches) = TopoSort
  BY LoopsAgree
<1>2. ASSUME NEW j \in DOMAIN ExecutionBatches
      PROVE  /\ IsInjective(ExecutionBatches[j])
             /\ Range(ExecutionBatches[j])
                    = NextBatch(UNION {Range(ExecutionBatches[l]) : l \in 1 .. (j - 1)})
  <2>1. IsLevel(ExecutionBatches, j)
    BY LoopsAgree
  <2> QED
    BY <2>1 DEF IsLevel, Before
<1> QED
  BY <1>1, <1>2 DEF LoopsComputeLevels

(* On every graph and in every order of the document, topo_sort and        *)
(* execution_batches see every node exactly when the graph is acyclic,     *)
(* batch k is NextBatch of the batches before it, and the batches one      *)
(* after another are the order of topo_sort: what GraphRunner takes from   *)
(* NextBatch and Acyclic is what the loops of graph.py compute.            *)
THEOREM LoopsAreLevels == Spec => []LoopsComputeLevels
<1>1. TypeOK => LoopsComputeLevels
  BY LoopsOfTypes DEF TypeOK
<1> QED
  BY <1>1, TypeCorrect, PTL

-----------------------------------------------------------------------------
(* ApiGenPipeline. *)

(* Only generate has stages; what has been deployed is about to be         *)
(* reported, or the workflow has closed.                                   *)
StagesOfGenerate ==
    /\ pc = "invoke" => kind # "generate"
    /\ pc \notin {"invoke", "closed"} => kind = "generate"
    /\ deployed => pc \in {"finish", "closed"}

(* What each stage takes as settled by the stages before it.               *)
Cleared ==
    /\ pc \in {"prepare", "review", "record", "policy", "deploy"} => validated
    /\ pc \in {"policy", "deploy"} => decision = "approved"
    /\ pc = "deploy" => policy # "none"

(* The status that is being reported fits the deployment, and the record   *)
(* does not succeed ahead of the report unless that report was lost.       *)
ReportMatches ==
    /\ pc = "finish" =>
         /\ report \in {"succeeded", "failed", "rejected", "needs_input"}
         /\ report = "succeeded" => deployed
         /\ report \in {"rejected", "needs_input"} => ~deployed
         /\ lost = 0 /\ deployed => report = "succeeded"
    /\ pc # "closed" /\ lost = 0 => record # "succeeded"

Safe == StagesOfGenerate /\ Cleared /\ ReportMatches
        /\ DeployedAsCleared /\ OutcomeMatchesDeployment

LEMMA InitSafe == PipelineInit => PipelineTypeOK /\ Safe
<1> SUFFICES ASSUME PipelineInit PROVE PipelineTypeOK /\ Safe
  OBVIOUS
<1> USE DEF PipelineInit
<1>1. PipelineTypeOK
  <2>1. 0 \in Rounds /\ 0 \in 0 .. MaxLost
    BY PipelineAssumption DEF PipelineAssumption, Rounds
  <2> QED  BY <2>1 DEF PipelineTypeOK, ValuesOK, FlagsOK, Stages, Decisions
<1>2. StagesOfGenerate /\ Cleared /\ ReportMatches
  BY DEF StagesOfGenerate, Cleared, ReportMatches
<1>3. DeployedAsCleared /\ OutcomeMatchesDeployment
  BY DEF DeployedAsCleared, OutcomeMatchesDeployment
<1> QED  BY <1>1, <1>2, <1>3 DEF Safe

LEMMA StepValues == ValuesOK /\ [PipelineNext]_pipelineVars => ValuesOK'
<1> SUFFICES ASSUME ValuesOK, [PipelineNext]_pipelineVars PROVE ValuesOK'
  OBVIOUS
<1> USE DEF ValuesOK, Stages, Decisions, GoTo, End, Raise
<1>0. /\ 1 \in Rounds
      /\ round \in Rounds /\ round < ClarifyRounds => round + 1 \in Rounds
      /\ round \in Rounds /\ round < RepairRounds => round + 1 \in Rounds
      /\ \A i \in 0 .. MaxLost : i < MaxLost => i + 1 \in 0 .. MaxLost
  BY PipelineAssumption DEF PipelineAssumption, Rounds
<1>1. CASE Classify  BY <1>0, <1>1 DEF Classify
<1>2. CASE Clarify  BY <1>0, <1>2 DEF Clarify, Attempt
<1>3. CASE Draft  BY <1>0, <1>3 DEF Draft, Attempt
<1>4. CASE GenerateCode  BY <1>0, <1>4 DEF GenerateCode
<1>5. CASE Validate  BY <1>0, <1>5 DEF Validate
<1>6. CASE Repair  BY <1>0, <1>6 DEF Repair
<1>7. CASE Prepare  BY <1>0, <1>7 DEF Prepare, Publish, Lose
<1>8. CASE SeeDecision  BY <1>0, <1>8 DEF SeeDecision
<1>9. CASE TimeOut  BY <1>0, <1>9 DEF TimeOut
<1>10. CASE RecordDecision
  <2>1. StatusAfter(decision) \in {"running", "rejected", "escalated", record}
    BY DEF StatusAfter
  <2> QED  BY <1>0, <1>10, <2>1 DEF RecordDecision, Publish, Lose
<1>11. CASE AskPolicy  BY <1>0, <1>11 DEF AskPolicy
<1>12. CASE Deploy  BY <1>0, <1>12 DEF Deploy, Lose
<1>13. CASE Finish
  <2>1. Event(report) \in {"succeeded", "failed"}  BY DEF Event
  <2> QED  BY <1>0, <1>13, <2>1 DEF Finish, Publish, Lose, Close
<1>14. CASE Invoke  BY <1>0, <1>14 DEF Invoke, Act, Close, Lose
<1>15. CASE \E d \in Decisions : Signal(d)  BY <1>15 DEF Signal
<1>16. CASE UNCHANGED pipelineVars  BY <1>16 DEF pipelineVars
<1> QED  BY <1>1, <1>2, <1>3, <1>4, <1>5, <1>6, <1>7, <1>8, <1>9, <1>10, <1>11,
            <1>12, <1>13, <1>14, <1>15, <1>16 DEF PipelineNext, Pipeline

LEMMA StepFlags == FlagsOK /\ [PipelineNext]_pipelineVars => FlagsOK'
<1> SUFFICES ASSUME FlagsOK, [PipelineNext]_pipelineVars PROVE FlagsOK'
  OBVIOUS
<1> USE DEF FlagsOK, GoTo, End, Raise
<1>1. CASE Classify  BY <1>1 DEF Classify
<1>2. CASE Clarify  BY <1>2 DEF Clarify, Attempt
<1>3. CASE Draft  BY <1>3 DEF Draft, Attempt
<1>4. CASE GenerateCode  BY <1>4 DEF GenerateCode
<1>5. CASE Validate  BY <1>5 DEF Validate
<1>6. CASE Repair  BY <1>6 DEF Repair
<1>7. CASE Prepare  BY <1>7 DEF Prepare
<1>8. CASE SeeDecision  BY <1>8 DEF SeeDecision
<1>9. CASE TimeOut  BY <1>9 DEF TimeOut
<1>10. CASE RecordDecision  BY <1>10 DEF RecordDecision
<1>11. CASE AskPolicy  BY <1>11 DEF AskPolicy
<1>12. CASE Deploy  BY <1>12 DEF Deploy
<1>13. CASE Finish  BY <1>13 DEF Finish, Close
<1>14. CASE Invoke  BY <1>14 DEF Invoke, Act, Close
<1>15. CASE \E d \in Decisions : Signal(d)  BY <1>15 DEF Signal
<1>16. CASE UNCHANGED pipelineVars  BY <1>16 DEF pipelineVars
<1> QED  BY <1>1, <1>2, <1>3, <1>4, <1>5, <1>6, <1>7, <1>8, <1>9, <1>10, <1>11,
            <1>12, <1>13, <1>14, <1>15, <1>16 DEF PipelineNext, Pipeline

LEMMA StepSafe == PipelineTypeOK /\ Safe /\ [PipelineNext]_pipelineVars => Safe'
<1> SUFFICES ASSUME PipelineTypeOK, Safe, [PipelineNext]_pipelineVars PROVE Safe'
  OBVIOUS
<1>0. lost \in Nat /\ deployed \in BOOLEAN /\ caught \in BOOLEAN
  BY PipelineAssumption DEF PipelineAssumption, PipelineTypeOK, ValuesOK, FlagsOK
<1> USE DEF Safe, StagesOfGenerate, Cleared, ReportMatches, DeployedAsCleared,
            OutcomeMatchesDeployment, GoTo, End, Raise
<1>1. CASE Classify  BY <1>0, <1>1 DEF Classify
<1>2. CASE Clarify  BY <1>0, <1>2 DEF Clarify, Attempt
<1>3. CASE Draft  BY <1>0, <1>3 DEF Draft, Attempt
<1>4. CASE GenerateCode  BY <1>0, <1>4 DEF GenerateCode
<1>5. CASE Validate  BY <1>0, <1>5 DEF Validate
<1>6. CASE Repair  BY <1>0, <1>6 DEF Repair
<1>7. CASE Prepare  BY <1>0, <1>7 DEF Prepare, Publish, Lose
<1>8. CASE SeeDecision  BY <1>0, <1>8 DEF SeeDecision
<1>9. CASE TimeOut  BY <1>0, <1>9 DEF TimeOut
<1>10. CASE RecordDecision
  <2>1. StatusAfter(decision) = "succeeded" => record = "succeeded"
    BY DEF PipelineTypeOK, ValuesOK, Decisions, StatusAfter
  <2> QED  BY <1>0, <1>10, <2>1 DEF RecordDecision, Publish, Lose
<1>11. CASE AskPolicy  BY <1>0, <1>11 DEF AskPolicy
<1>12. CASE Deploy  BY <1>0, <1>12 DEF Deploy, Lose
<1>13. CASE Finish
  <2>1. Event(report) = "succeeded" <=> report = "succeeded"
    BY DEF Event
  <2> USE <1>0, <1>13, <2>1 DEF Finish, Close
  <2>2. CASE Publish(Event(report)) /\ Close(report)
    <3>1. StagesOfGenerate' /\ Cleared' /\ ReportMatches' /\ DeployedAsCleared'
      BY <2>2
    <3>2. OutcomeMatchesDeployment'  BY <2>2 DEF Publish, Lose
    <3> QED  BY <3>1, <3>2
  <2>3. CASE Lose /\ IF caught THEN Close("raised") ELSE Raise /\ UNCHANGED result
    <3>1. lost' # 0  BY <2>3 DEF Lose
    <3>2. CASE caught  BY <2>3, <3>1, <3>2
    <3>3. CASE ~caught  BY <2>3, <3>1, <3>3
    <3> QED  BY <3>2, <3>3
  <2> QED  BY <2>2, <2>3
<1>14. CASE Invoke
  <2> USE <1>0, <1>14 DEF Invoke, Close
  <2>1. CASE (Close("failed") \/ Close("raised")) /\ UNCHANGED <<deployed, lost>>  BY <2>1
  <2>2. CASE Close("succeeded") /\ Act  BY <2>2 DEF Act
  <2>3. CASE Close("raised") /\ Act /\ Lose
    <3>1. lost' # 0  BY <2>3 DEF Lose
    <3> QED  BY <2>3, <3>1 DEF Act
  <2> QED  BY <2>1, <2>2, <2>3
<1>15. CASE \E d \in Decisions : Signal(d)  BY <1>15 DEF Signal
<1>16. CASE UNCHANGED pipelineVars  BY <1>16 DEF pipelineVars
<1> QED  BY <1>1, <1>2, <1>3, <1>4, <1>5, <1>6, <1>7, <1>8, <1>9, <1>10, <1>11,
            <1>12, <1>13, <1>14, <1>15, <1>16 DEF PipelineNext, Pipeline

LEMMA SpecSafe == PipelineSpec => [](PipelineTypeOK /\ Safe)
<1>1. PipelineTypeOK /\ Safe /\ [PipelineNext]_pipelineVars => (PipelineTypeOK /\ Safe)'
  BY StepValues, StepFlags, StepSafe DEF PipelineTypeOK
<1> QED  BY InitSafe, <1>1, PTL DEF PipelineSpec

(* The pipeline's stages, rounds and statuses keep their types, however    *)
(* many rounds there are.                                                  *)
THEOREM PipelineTypes == PipelineSpec => []PipelineTypeOK
  BY SpecSafe, PTL

(* The generate workflow deploys only a bundle that was validated since it *)
(* was generated, was approved, and about which the policy was asked.      *)
THEOREM DeployedOnlyAsCleared == PipelineSpec => []DeployedAsCleared
<1>1. Safe => DeployedAsCleared  BY DEF Safe
<1> QED  BY SpecSafe, <1>1, PTL

(* The outcome of an APIGen workflow, and the record it reports on, tell   *)
(* whether it deployed; they may differ only when something was lost.      *)
THEOREM OutcomeTellsDeployment == PipelineSpec => []OutcomeMatchesDeployment
<1>1. Safe => OutcomeMatchesDeployment  BY DEF Safe
<1> QED  BY SpecSafe, <1>1, PTL
=============================================================================
