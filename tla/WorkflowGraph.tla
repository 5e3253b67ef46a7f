--------------------------- MODULE WorkflowGraph ---------------------------
(***************************************************************************)
(* The workflow graph a run executes, after normalize_workflow_graph: the  *)
(* executing nodes and the data and error edges between them.  Provider    *)
(* children, attach edges and dangling edges are already gone.             *)
(*                                                                         *)
(* The graph is a pair of variables that no action changes, so that one    *)
(* model-checking run ranges over every graph on the given nodes and edges *)
(* (parallel edges and self loops included).                               *)
(***************************************************************************)
EXTENDS FiniteSets

CONSTANTS
    Nodes,       \* node ids
    Edges,       \* edge ids (distinct: _edge_key is the id)
    ErrorEdges   \* the edges of kind "error"; the others are data edges

ASSUME GraphAssumption == /\ IsFiniteSet(Nodes)
                          /\ ErrorEdges \subseteq Edges

VARIABLES
    source,   \* the node an edge leaves
    target    \* the node an edge enters

graph == <<source, target>>

GraphTypeOK == /\ source \in [Edges -> Nodes]
               /\ target \in [Edges -> Nodes]

In(n)  == {e \in Edges : target[e] = n}
Out(n) == {e \in Edges : source[e] = n}

DataOut(n)  == Out(n) \ ErrorEdges
ErrorOut(n) == Out(n) \cap ErrorEdges

(* topo_sort and execution_batches raise ValueError on a cycle: some set   *)
(* of nodes every member of which waits for another member.                *)
Acyclic ==
    \A S \in SUBSET Nodes :
        S # {} => \E n \in S : \A e \in Edges :
                      target[e] = n => source[e] \notin S

(* The level execution_batches emits after the nodes of done: those whose  *)
(* incoming count has just reached zero.                                   *)
NextBatch(done) == {n \in Nodes \ done : \A e \in In(n) : source[e] \in done}
=============================================================================
