---------------------------- MODULE ApprovalGate ----------------------------
(***************************************************************************)
(* The Approval nodes of one level of an XFlowsWorkflow, the reviewers who *)
(* call the API about them, and the run's status in between:               *)
(* _run_approval_node and the signal handlers                              *)
(* (apps/workers/app/workflows.py), ApprovalGate (approval.py),            *)
(* prepare_approval / record_approval (activities.py),                     *)
(* _record_approval_signal and the status effects of                       *)
(* append_internal_event (apps/api/app/main.py).                           *)
(*                                                                         *)
(* A publish is one step here: it is ingested at once or, MaxLost times,   *)
(* never (RunRecord has the steps of an ingestion).                        *)
(***************************************************************************)
EXTENDS Naturals, FiniteSets

CONSTANTS
    Nodes,           \* Approval nodes that execute in parallel
    NoNode,          \* evidence without a nodeId
    Calls,           \* reviewer requests
    SignalTimeout,   \* signalTimeoutS
    RunTimeout,      \* run_timeout, around the whole graph
    MaxLost          \* bound: publishes that fail

ASSUME GateAssumption == /\ IsFiniteSet(Nodes)
                         /\ NoNode \notin Nodes
                         /\ {SignalTimeout, RunTimeout, MaxLost} \subseteq Nat

Signals == {"approve", "reject", "request_changes"}

(* normalize_decision; it also maps any unknown name to "timeout". *)
Normalized(signal) ==
    CASE signal = "approve" -> "approved"
      [] signal = "reject"  -> "rejected"
      [] OTHER              -> signal

Decisions == {Normalized(s) : s \in Signals}

VARIABLES
    signal,    \* the endpoint each call uses
    about,     \* evidence.nodeId of each call
    call,      \* the handler of each call
    task,      \* _run_approval_node of each node
    gate,      \* ApprovalGate._decisions, "none" when the key is absent
    outcome,   \* the local `decision` once wait_for is over
    status,    \* runs.status
    open,      \* the workflow accepts signals
    recorded,  \* event keys of the signal_received events in the log
    lost

vars == <<signal, about, call, task, gate, outcome, status, open, recorded, lost>>
calls == <<signal, about>>

(* Positions of handlers and nodes, decisions and statuses. *)
TypeOK ==
    /\ signal \in [Calls -> Signals]
    /\ about \in [Calls -> Nodes \cup {NoNode}]
    /\ call \in [Calls -> {"new", "signalling", "logging", "acknowledged",
                           "conflict", "unavailable"}]
    /\ task \in [Nodes -> {"preparing", "parked", "recording", "returned", "cancelled"}]
    /\ gate \in [Nodes -> Decisions \cup {"none"}]
    /\ outcome \in [Nodes -> Decisions \cup {"none", "timeout"}]
    /\ status \in {"running", "awaiting_review", "rejected", "escalated",
                   "succeeded", "failed"}
    /\ open \in BOOLEAN
    /\ recorded \subseteq (Nodes \cup Signals)
    /\ lost \in 0 .. MaxLost

Init ==
    /\ signal \in [Calls -> Signals]
    /\ about \in [Calls -> Nodes \cup {NoNode}]
    /\ call = [c \in Calls |-> "new"]
    /\ task = [n \in Nodes |-> "preparing"]
    /\ gate = [n \in Nodes |-> "none"]
    /\ outcome = [n \in Nodes |-> "none"]
    /\ status = "running"
    /\ open = TRUE
    /\ recorded = {}
    /\ lost = 0

(* A publish whose ingestion sets the status to s, unless it is lost. *)
Publish(s) ==
    \/ status' = s /\ UNCHANGED lost
    \/ lost < MaxLost /\ lost' = lost + 1 /\ UNCHANGED status

-----------------------------------------------------------------------------
(* The workflow. *)

Turn(n, from, to) == task[n] = from /\ task' = [task EXCEPT ![n] = to]

(* prepare_approval publishes run_awaiting_review; then the node parks. *)
Prepare(n) ==
    /\ Turn(n, "preparing", "parked")
    /\ Publish("awaiting_review")
    /\ UNCHANGED <<calls, call, gate, outcome, open, recorded>>

(* wait_condition holds.  Signals of an activation are applied before its  *)
(* timers, so a recorded decision is seen even if the timer is due.        *)
SeeDecision(n) ==
    /\ gate[n] # "none"
    /\ Turn(n, "parked", "recording")
    /\ outcome' = [outcome EXCEPT ![n] = gate[n]]
    /\ UNCHANGED <<calls, call, gate, status, open, recorded, lost>>

(* Mutant: the timer wins although a decision has arrived.                 *)
TimeOutAnyway(n) ==
    /\ SignalTimeout < RunTimeout
    /\ Turn(n, "parked", "recording")
    /\ outcome' = [outcome EXCEPT ![n] = "timeout"]
    /\ UNCHANGED <<calls, call, gate, status, open, recorded, lost>>

(* wait_for times out.  The run's own timer started earlier, so the node's *)
(* fires only if it is the shorter one.                                    *)
TimeOut(n) ==
    /\ gate[n] = "none"
    /\ SignalTimeout < RunTimeout
    /\ Turn(n, "parked", "recording")
    /\ outcome' = [outcome EXCEPT ![n] = "timeout"]
    /\ UNCHANGED <<calls, call, gate, status, open, recorded, lost>>

StatusAfter(decision) ==
    CASE decision = "approved"        -> "running"
      [] decision = "rejected"        -> "rejected"
      [] decision = "timeout"         -> "escalated"
      [] decision = "request_changes" -> status

(* record_approval publishes signal_received under the node's event key. *)
RecordDecision(n) ==
    /\ Turn(n, "recording", "returned")
    /\ \/ /\ status' = StatusAfter(outcome[n])
          /\ recorded' = recorded \cup {n}
          /\ UNCHANGED lost
       \/ /\ lost < MaxLost
          /\ lost' = lost + 1
          /\ UNCHANGED <<status, recorded>>
    /\ UNCHANGED <<calls, call, gate, outcome, open>>

(* The rest of the graph runs; complete_run; the workflow closes. *)
Complete ==
    /\ open
    /\ \A n \in Nodes : task[n] = "returned"
    /\ open' = FALSE
    /\ \E s \in {"succeeded", "failed"} : Publish(s)
    /\ UNCHANGED <<calls, call, task, gate, outcome, recorded>>

(* Mutant: the timed-out workflow fails without reporting it.              *)
RunTimesOutSilently ==
    /\ open
    /\ open' = FALSE
    /\ task' = [n \in Nodes |-> IF task[n] = "returned" THEN "returned" ELSE "cancelled"]
    /\ UNCHANGED <<calls, call, gate, outcome, status, recorded, lost>>

(* wait_for around the graph: every parked node is cancelled. *)
RunTimesOut ==
    /\ open
    /\ open' = FALSE
    /\ task' = [n \in Nodes |-> IF task[n] = "returned" THEN "returned" ELSE "cancelled"]
    /\ Publish("failed")
    /\ UNCHANGED <<calls, call, gate, outcome, recorded>>

-----------------------------------------------------------------------------
(* _record_approval_signal, one await per step. *)

Handle(c, from, to) == call[c] = from /\ call' = [call EXCEPT ![c] = to]

(* 409 unless the run is awaiting review. *)
CheckStatus(c) ==
    /\ Handle(c, "new", IF status = "awaiting_review" THEN "signalling" ELSE "conflict")
    /\ UNCHANGED <<calls, task, gate, outcome, status, open, recorded, lost>>

(* signal_workflow reaches the open workflow, whose handler records the    *)
(* decision if it names a node; the latest one replaces any earlier one.   *)
Signal(c) ==
    /\ open
    /\ Handle(c, "signalling", "logging")
    /\ gate' = [n \in Nodes |-> IF about[c] = n THEN Normalized(signal[c]) ELSE gate[n]]
    /\ UNCHANGED <<calls, task, outcome, status, open, recorded, lost>>

(* Mutant: an unconnected signal result is not looked at.                  *)
SignalFailsUnnoticed(c) ==
    /\ Handle(c, "signalling", "logging")
    /\ UNCHANGED <<calls, task, gate, outcome, status, open, recorded, lost>>

(* The workflow is closed (or Temporal unreachable): 503. *)
SignalFails(c) ==
    /\ Handle(c, "signalling", "unavailable")
    /\ UNCHANGED <<calls, task, gate, outcome, status, open, recorded, lost>>

(* emit_event, keyed by run and signal; then {"status": "signal_sent"}. *)
LogSignal(c) ==
    /\ Handle(c, "logging", "acknowledged")
    /\ recorded' = recorded \cup {signal[c]}
    /\ UNCHANGED <<calls, task, gate, outcome, status, open, lost>>

-----------------------------------------------------------------------------
Approve(n) == open /\ (Prepare(n) \/ SeeDecision(n) \/ TimeOut(n) \/ RecordDecision(n))

Review(c) == CheckStatus(c) \/ Signal(c) \/ SignalFails(c) \/ LogSignal(c)

Next == \/ \E n \in Nodes : Approve(n)
        \/ Complete
        \/ RunTimesOut
        \/ \E c \in Calls : Review(c)

(* Temporal drives the workflow, its activities and its timers; reviewers  *)
(* owe nothing.                                                            *)
Fairness == /\ \A n \in Nodes : WF_vars(Approve(n))
            /\ WF_vars(Complete)
            /\ WF_vars(RunTimesOut)

Spec == Init /\ [][Next]_vars /\ Fairness

-----------------------------------------------------------------------------
(* Each Approval node gives one outcome, the latest decision it had been   *)
(* sent; late signals change nothing, and a decision that has arrived is   *)
(* never overruled by the timer.                                           *)
Promise == INSTANCE ReviewDecision WITH latest <- gate
KeepsDecision == Promise!Spec

(* No decision is lost on its way: what the API acknowledged about a node  *)
(* has reached that node's gate, and what a node decided has reached the   *)
(* log, unless its publish failed.                                         *)
DecisionsArrive ==
    /\ \A c \in Calls : call[c] = "acknowledged" /\ about[c] # NoNode => gate[about[c]] # "none"
    /\ Cardinality({n \in Nodes : task[n] = "returned" /\ n \notin recorded}) <= lost

(* A run leaves review: unless publishes fail, its final status is not     *)
(* awaiting_review, however reviewers behave.                              *)
ReviewEnds == <>[](lost > 0 \/ status # "awaiting_review")
=============================================================================
