----------------------------- MODULE MCLocalRun -----------------------------
(* Two nodes that execute, one of them with an error edge, and a Wait      *)
(* node; two attempts each, two store calls that raise.                    *)
EXTENDS LocalRun
=============================================================================
