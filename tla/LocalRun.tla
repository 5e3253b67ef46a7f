------------------------------ MODULE LocalRun ------------------------------
(***************************************************************************)
(* execute_local_run (apps/api/app/main.py): the fallback that executes a  *)
(* run as a task of the API process.  Every await on the store is a step   *)
(* and may raise, with or without having taken effect (the reply of a      *)
(* committed statement can be lost as well as the statement).              *)
(*                                                                         *)
(* The graph is one batch here; GraphRunner has the rest.  Of the events   *)
(* the log keeps those that end the run.                                   *)
(***************************************************************************)
EXTENDS Naturals, Sequences, SequencesExt

CONSTANTS
    Nodes,
    Handled,     \* nodes with an error edge or onError = "continue"
    Waits,       \* Wait nodes: they only sleep
    Attempts,    \* retry.attempts
    MaxFaults    \* bound: store calls that raise

ASSUME LocalAssumption == /\ Handled \cup Waits \subseteq Nodes
                          /\ Attempts \in Nat \ {0}
                          /\ MaxFaults \in Nat

VARIABLES
    pc,        \* the await execute_local_run is at
    node,      \* the await execute(node) is at, then its outcome
    attempt,   \* its loop variable
    worked,    \* how many times its dispatch has returned
    row,       \* runs.status
    log,       \* the events run_succeeded and run_failed, in order
    faults

vars == <<pc, node, attempt, worked, row, log, faults>>
nodeVars == <<node, attempt, worked>>

(* Positions of the task and of its nodes. *)
TypeOK ==
    /\ pc \in {"begin", "prepare", "graph", "write_succeeded", "statuses",
               "announce_succeeded", "write_failed", "announce_failed", "over", "dead"}
    /\ node \in [Nodes -> {"new", "dispatching", "reporting", "succeeded", "failed",
                           "cancelled"}]
    /\ attempt \in [Nodes -> 1 .. Attempts]
    /\ worked \in [Nodes -> 0 .. Attempts]
    /\ row \in {"queued", "running", "succeeded", "failed"}
    /\ log \in Seq({"succeeded", "failed"})
    /\ faults \in 0 .. MaxFaults

Init ==
    /\ pc = "begin"
    /\ node = [n \in Nodes |-> "new"]
    /\ attempt = [n \in Nodes |-> 1]
    /\ worked = [n \in Nodes |-> 0]
    /\ row = "queued"
    /\ log = <<>>
    /\ faults = 0

-----------------------------------------------------------------------------
Fault == faults < MaxFaults /\ faults' = faults + 1

(* update_run with status s at `here`: on to `there`, or it raises. *)
Write(s, here, there, raised) ==
    /\ pc = here
    /\ \/ pc' = there /\ row' = s /\ UNCHANGED faults
       \/ pc' = raised /\ Fault /\ row' \in {row, s}
    /\ UNCHANGED <<nodeVars, log>>

(* emit_event of run_succeeded or run_failed. *)
Report(e, here, there, raised) ==
    /\ pc = here
    /\ \/ pc' = there /\ log' = Append(log, e) /\ UNCHANGED faults
       \/ pc' = raised /\ Fault /\ log' \in {log, Append(log, e)}
    /\ UNCHANGED <<nodeVars, row>>

(* The first write is outside the try: if it raises the task is gone. *)
Begin == Write("running", "begin", "prepare", "dead")

(* normalize_workflow_graph and _resolve_local_secret_refs, which raise    *)
(* for a bad graph or an unreachable store.                                *)
Prepare ==
    /\ pc = "prepare"
    /\ pc' \in {"graph", "write_failed"}
    /\ UNCHANGED <<nodeVars, row, log, faults>>

-----------------------------------------------------------------------------
(* execute(node), while run() is awaited. *)

At(n, s) == pc = "graph" /\ node[n] = s

(* A Wait node neither emits nor retries. *)
Sleep(n) ==
    /\ At(n, "new")
    /\ n \in Waits
    /\ node' = [node EXCEPT ![n] = "succeeded"]
    /\ UNCHANGED <<pc, attempt, worked, row, log, faults>>

(* node_started is emitted before the try: an exception is not retried.    *)
EmitStarted(n) ==
    /\ At(n, "new")
    /\ n \notin Waits
    /\ \/ node' = [node EXCEPT ![n] = "dispatching"] /\ UNCHANGED faults
       \/ node' = [node EXCEPT ![n] = "failed"] /\ Fault
    /\ UNCHANGED <<pc, attempt, worked, row, log>>

(* The except branch of an attempt: the next one, or raise last_error. *)
Again(n) ==
    IF attempt[n] < Attempts
    THEN /\ attempt' = [attempt EXCEPT ![n] = @ + 1]
         /\ node' = [node EXCEPT ![n] = "dispatching"]
    ELSE /\ node' = [node EXCEPT ![n] = "failed"]
         /\ UNCHANGED attempt

(* Mutant: the result of the first attempt is not looked at.               *)
DispatchReturnsLate(n) ==
    /\ At(n, "dispatching")
    /\ worked' = [worked EXCEPT ![n] = @ + 1]
    /\ IF attempt[n] = 1 THEN Again(n)
       ELSE node' = [node EXCEPT ![n] = "reporting"] /\ UNCHANGED attempt
    /\ UNCHANGED <<pc, row, log, faults>>

DispatchReturns(n) ==
    /\ At(n, "dispatching")
    /\ worked' = [worked EXCEPT ![n] = @ + 1]
    /\ node' = [node EXCEPT ![n] = "reporting"]
    /\ UNCHANGED <<pc, attempt, row, log, faults>>

DispatchRaises(n) ==
    /\ At(n, "dispatching")
    /\ Again(n)
    /\ UNCHANGED <<pc, worked, row, log, faults>>

(* node_succeeded is emitted inside the try: if it raises, the node's work *)
(* is done again.                                                          *)
EmitSucceeded(n) ==
    /\ At(n, "reporting")
    /\ \/ node' = [node EXCEPT ![n] = "succeeded"] /\ UNCHANGED <<attempt, faults>>
       \/ Again(n) /\ Fault
    /\ UNCHANGED <<pc, worked, row, log>>

(* run() returns, or raises a failure that nothing handles. *)
GraphEnds ==
    /\ pc = "graph"
    /\ \A n \in Nodes : node[n] \in {"succeeded", "failed"}
    /\ pc' = IF \E n \in Nodes \ Handled : node[n] = "failed"
             THEN "write_failed" ELSE "write_succeeded"
    /\ UNCHANGED <<nodeVars, row, log, faults>>

Cancelled ==
    [n \in Nodes |-> IF node[n] \in {"succeeded", "failed"} THEN node[n] ELSE "cancelled"]

(* Mutant: the tasks are cancelled, the exception is not raised.           *)
TimeOutUncaught ==
    /\ pc = "graph"
    /\ node' = Cancelled
    /\ UNCHANGED <<pc, attempt, worked, row, log, faults>>

(* executionTimeoutS is over: wait_for cancels run() and raises. *)
TimeOut ==
    /\ pc = "graph"
    /\ node' = Cancelled
    /\ pc' = "write_failed"
    /\ UNCHANGED <<attempt, worked, row, log, faults>>

-----------------------------------------------------------------------------
(* What raises up to run_succeeded is caught, and the run becomes failed;  *)
(* what raises in an except branch ends the task.                          *)

WriteSucceeded == Write("succeeded", "write_succeeded", "statuses", "write_failed")

(* node_skipped and node_routed_to_error, for the nodes that have them. *)
EmitStatuses ==
    /\ pc = "statuses"
    /\ \/ pc' = "announce_succeeded" /\ UNCHANGED faults
       \/ pc' = "write_failed" /\ Fault
    /\ UNCHANGED <<nodeVars, row, log>>

AnnounceSucceeded == Report("succeeded", "announce_succeeded", "over", "write_failed")

(* Mutant: a status written before is kept.                                *)
WriteFailedUnlessEnded ==
    Write(IF row = "succeeded" THEN row ELSE "failed", "write_failed", "announce_failed", "dead")

WriteFailed == Write("failed", "write_failed", "announce_failed", "dead")

AnnounceFailed == Report("failed", "announce_failed", "over", "dead")

-----------------------------------------------------------------------------
Execute(n) == \/ Sleep(n)
              \/ EmitStarted(n)
              \/ DispatchReturns(n)
              \/ DispatchRaises(n)
              \/ EmitSucceeded(n)

Finish == \/ WriteSucceeded
          \/ EmitStatuses
          \/ AnnounceSucceeded
          \/ WriteFailed
          \/ AnnounceFailed

Next == \/ Begin
        \/ Prepare
        \/ \E n \in Nodes : Execute(n)
        \/ GraphEnds
        \/ TimeOut
        \/ Finish

(* The event loop resumes the task, and wait_for does time out. *)
Fairness == WF_vars(Begin \/ Prepare \/ Finish) /\ WF_vars(GraphEnds \/ TimeOut)

Spec == Init /\ [][Next]_vars /\ Fairness

-----------------------------------------------------------------------------
(* A run that is over has one answer: its row says what the last event of  *)
(* its log says.  run_failed is final; it follows run_succeeded only when  *)
(* announcing the success raised.  Success, wherever it is claimed, means  *)
(* that each node returned a result or had its failure handled.            *)
ReportsAgree ==
    /\ row = "succeeded" \/ (log # <<>> /\ Head(log) = "succeeded") =>
           \A n \in Nodes : node[n] = "succeeded" \/ (node[n] = "failed" /\ n \in Handled)
    /\ pc = "over" => log # <<>> /\ row = Last(log)
    /\ \/ log \in {<<>>, <<"succeeded">>, <<"failed">>}
       \/ log = <<"succeeded", "failed">> /\ faults > 0

(* A node's work is repeated only for a store call that raised.            *)
RepeatedOnlyByFaults == \A n \in Nodes : worked[n] <= faults + 1

(* The task ends, and unless a store call raised outside the try or in an  *)
(* except branch the run has ended with it.                                *)
LocalRunEnds == <>(pc = "dead" \/ (pc = "over" /\ row \in {"succeeded", "failed"}))
=============================================================================
