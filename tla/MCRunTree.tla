----------------------------- MODULE MCRunTree -----------------------------
(* A document with a provider child, a config edge, an edge from the       *)
(* child, a condition, an error edge and a stored child with a review; one *)
(* with a review beside two levels of inline children; a pipeline beside a *)
(* Wait node; one that includes itself; a cyclic and an empty one; one     *)
(* that names a definition that is not stored and an invalid one beside a  *)
(* review; and one that names none beside a review.                        *)
EXTENDS RunTree

N(id, parent, kind, ref, continues) ==
    [id |-> id, parent |-> parent, kind |-> kind, ref |-> ref, continues |-> continues]
E(source, target, kind, when) ==
    [source |-> source, target |-> target, kind |-> kind, when |-> when]
Doc(nodes, edges) == [valid |-> TRUE, nodes |-> nodes, edges |-> edges]

MCDocuments ==
    [ main    |-> Doc(<<N("a", "", "Approval", "", FALSE),
                        N("c", "a", "Activity", "", FALSE),
                        N("s", "", "Stored", "review", FALSE),
                        N("o", "", "Activity", "", TRUE)>>,
                      {E("a", "s", "data", TRUE), E("s", "o", "error", FALSE),
                       E("a", "o", "data", FALSE), E("o", "a", "config", FALSE),
                       E("c", "s", "data", FALSE)}),
      review  |-> Doc(<<N("r", "", "Approval", "", FALSE)>>, {}),
      outer   |-> Doc(<<N("i", "", "Inline", "inner", FALSE),
                        N("w", "", "Approval", "", FALSE)>>, {}),
      inner   |-> Doc(<<N("i", "", "Inline", "review", TRUE)>>, {}),
      api     |-> Doc(<<N("g", "", "Pipeline", "", FALSE),
                        N("t", "", "Wait", "", FALSE),
                        N("e", "", "Activity", "", FALSE)>>,
                      {E("g", "e", "error", FALSE)}),
      self    |-> Doc(<<N("x", "", "Stored", "self", FALSE)>>, {}),
      invalid |-> [Doc(<<N("b", "", "Activity", "", FALSE)>>, {}) EXCEPT !.valid = FALSE],
      cyclic  |-> Doc(<<N("b", "", "Activity", "", FALSE)>>, {E("b", "b", "data", FALSE)}),
      empty   |-> Doc(<<>>, {}),
      broken  |-> Doc(<<N("m", "", "Stored", "missing", FALSE),
                        N("k", "", "Inline", "invalid", TRUE),
                        N("r", "", "Approval", "", FALSE)>>, {}),
      noref   |-> Doc(<<N("u", "", "Stored", "", FALSE),
                        N("r", "", "Approval", "", FALSE)>>, {}) ]
=============================================================================
