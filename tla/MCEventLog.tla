----------------------------- MODULE MCEventLog -----------------------------
(* Three appends, any of them under the one key, and one client.           *)
EXTENDS EventLog, TLC

Symmetry == Permutations(Writers)
=============================================================================
