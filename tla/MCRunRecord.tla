---------------------------- MODULE MCRunRecord ----------------------------
(* The reporting scripts of the worker: a plain run, one whose output is a *)
(* dictionary, a pipeline as a run and as a node of one, a run with one    *)
(* Approval node for each decision (the workflow then completes or fails,  *)
(* and its output may be the node's), complete_run("succeeded") followed   *)
(* by complete_run("failed"), and a run of which the worker posts no more. *)
EXTENDS RunRecord

Success(output) == [type |-> "run_succeeded", output |-> output]
Other(type)     == [type |-> type, output |-> "none"]

Reviewed(decision, outcome) == <<Other("run_awaiting_review"), Other(decision), outcome>>

MCScripts ==
    {<<Success("text")>>, <<Success("dict")>>, <<Success("none")>>, <<Other("run_failed")>>,
     <<Success("none"), Success("text")>>, <<Success("text"), Other("run_failed")>>,
     <<Other("run_awaiting_review"), Other("approved")>>,
     Reviewed("approved", Success("dict")), Reviewed("approved", Other("run_failed")),
     Reviewed("rejected", Success("text")), Reviewed("timeout", Other("run_failed")),
     Reviewed("request_changes", Success("text"))}
=============================================================================
