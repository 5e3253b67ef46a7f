-------------------------- MODULE MCApiGenPipeline --------------------------
(* All three workflows, started either way, with the code's own rounds.    *)
EXTENDS ApiGenPipeline
=============================================================================
