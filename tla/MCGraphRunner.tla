--------------------------- MODULE MCGraphRunner ---------------------------
(* Every graph on four nodes and four edges: one error edge, one data edge *)
(* whose predicate is malformed, one node with onError = "continue".       *)
EXTENDS GraphOrder

CONSTANTS n1, n2, n3, n4, e1, e2, e3, e4

MCNodeList == <<n1, n2, n3, n4>>
MCEdgeList == <<e1, e2, e3, e4>>
=============================================================================
