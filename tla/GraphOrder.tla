----------------------------- MODULE GraphOrder -----------------------------
(***************************************************************************)
(* topo_sort and execution_batches (graph.py), the two passes of Kahn's    *)
(* algorithm that NodeGraphRunner.run makes before it awaits anything: the *)
(* sort whose last node may become the run's output, and the levels that   *)
(* are gathered.  GraphRunner takes the levels from NextBatch and the      *)
(* verdict from Acyclic; this module computes both as the loops do.        *)
(***************************************************************************)
EXTENDS GraphRunner, Naturals, Sequences, SequencesExt

CONSTANTS NodeList, EdgeList   \* the nodes and edges, in document order

ASSUME OrderAssumption == /\ IsFiniteSet(Edges)
                          /\ NodeList \in SetToSeqs(Nodes)
                          /\ EdgeList \in SetToSeqs(Edges)

(* incoming, and the nodes it is zero for: the queue, or the first level.  *)
(* (SelectSeq, written out: it has no axioms in the prover.)               *)
Degree == [n \in Nodes |-> Cardinality(In(n))]

Roots ==
    LET upTo[i \in 0 .. Len(NodeList)] ==
            IF i = 0 THEN <<>>
            ELSE IF In(NodeList[i]) = {} THEN Append(upTo[i - 1], NodeList[i])
            ELSE upTo[i - 1]
    IN upTo[Len(NodeList)]

Start == [incoming |-> Degree, released |-> Roots]

(* Mutant: the released node is put in front.                              *)
TraverseInFront(s, e, scheduled) ==
    LET left == s.incoming[target[e]] - 1
    IN [incoming |-> [s.incoming EXCEPT ![target[e]] = left],
        released |-> IF left = 0 /\ target[e] \notin scheduled
                     THEN <<target[e]>> \o s.released ELSE s.released]

(* One edge: the count of its target goes down, and at zero the target is  *)
(* appended.                                                               *)
Traverse(s, e, scheduled) ==
    LET left == s.incoming[target[e]] - 1
    IN [incoming |-> [s.incoming EXCEPT ![target[e]] = left],
        released |-> IF left = 0 /\ target[e] \notin scheduled
                     THEN Append(s.released, target[e]) ELSE s.released]

(* The edges of adjacency[n], which are in document order.                 *)
Relax(s, n, scheduled) ==
    LET upTo[i \in 0 .. Len(EdgeList)] ==
            IF i = 0 THEN s
            ELSE IF EdgeList[i] \in Out(n) THEN Traverse(upTo[i - 1], EdgeList[i], scheduled)
            ELSE upTo[i - 1]
    IN upTo[Len(EdgeList)]

(* topo_sort: pop the queue until it is empty.  No node is queued twice,   *)
(* so the loop has at most one turn per node.                              *)
Pop(s) ==
    IF s.front.released = <<>> THEN s
    ELSE [front |-> Relax([s.front EXCEPT !.released = Tail(@)], Head(s.front.released), {}),
          order |-> Append(s.order, Head(s.front.released))]

TopoSort ==
    LET turn[k \in 0 .. Cardinality(Nodes)] ==
            IF k = 0 THEN [front |-> Start, order |-> <<>>] ELSE Pop(turn[k - 1])
    IN turn[Cardinality(Nodes)].order

(* execution_batches: the nodes of one level, one after another, release   *)
(* those of the next that are not scheduled.  (scheduled is looked up once *)
(* per node: the edges of one node bring a count to zero only once.)       *)
Level(s) ==
    LET upTo[i \in 0 .. Len(s.front.released)] ==
            IF i = 0 THEN [s.front EXCEPT !.released = <<>>]
            ELSE Relax(upTo[i - 1], s.front.released[i],
                       s.scheduled \cup Range(upTo[i - 1].released))
    IN upTo[Len(s.front.released)]

Advance(s) ==
    IF s.front.released = <<>> THEN s
    ELSE [front     |-> Level(s),
          scheduled |-> s.scheduled \cup Range(Level(s).released),
          batches   |-> Append(s.batches, s.front.released)]

ExecutionBatches ==
    LET turn[k \in 0 .. Cardinality(Nodes)] ==
            IF k = 0 THEN [front |-> Start, scheduled |-> Range(Roots), batches |-> <<>>]
            ELSE Advance(turn[k - 1])
    IN turn[Cardinality(Nodes)].batches

-----------------------------------------------------------------------------
(* Both loops see every node exactly on acyclic graphs, so ValueError is   *)
(* raised by topo_sort and never by execution_batches after it.  Then each *)
(* batch is the next level of the batches before it, and the sort is the   *)
(* batches one after another: the node resolve_output_node_id falls back   *)
(* to (order[-1]) is the last of the last batch.                           *)
LoopsComputeLevels ==
    phase = "sorting" =>
        LET batches == ExecutionBatches
            before(k) == UNION {Range(batches[j]) : j \in 1 .. (k - 1)}
        IN /\ Len(TopoSort) = Cardinality(Nodes) <=> Acyclic
           /\ FlattenSeq(batches) = TopoSort
           /\ \A k \in DOMAIN batches :
                  IsInjective(batches[k]) /\ Range(batches[k]) = NextBatch(before(k))
=============================================================================
