--------------------------- MODULE MCRunCreation ---------------------------
(* Two deliveries of one key and one request without a key. *)
EXTENDS RunCreation, TLC

Symmetry == Permutations(Keyed)
=============================================================================
