--------------------------- MODULE ApiGenPipeline ---------------------------
(***************************************************************************)
(* The APIGen workflows (apps/workers/app/workflows.py): generate, which   *)
(* classifies, clarifies, drafts, generates code, validates, has it        *)
(* reviewed, asks the policy and deploys; and validate and deploy, alone.  *)
(* The API starts one for a run, or a SubWorkflow node of a graph does.    *)
(*                                                                         *)
(* A stage is one step: its activities return or, after their retries,     *)
(* raise.  ApprovalGate takes the review apart.                            *)
(***************************************************************************)
EXTENDS Naturals

CONSTANTS
    Kinds,           \* which of the three workflows are used
    Hosts,           \* "run": started by the API; "node": by a SubWorkflow node
    ClarifyRounds,   \* MAX_CLARIFY_ROUNDS, of the clarify and the spec loop
    RepairRounds,    \* MAX_REPAIR_ROUNDS
    MaxLost          \* bound: replies and publishes that are lost

ASSUME PipelineAssumption ==
    /\ Kinds \subseteq {"generate", "validate", "deploy"}
    /\ Hosts \subseteq {"run", "node"}
    /\ {ClarifyRounds, RepairRounds} \subseteq Nat \ {0}
    /\ MaxLost \in Nat

VARIABLES
    kind, host,
    pc,          \* the stage the workflow awaits
    round,       \* the loop variable of the current or the last loop
    validated,   \* the validate child has succeeded for the current bundle
    gate,        \* what the workflow's own gate holds for "review", or "none"
    decision,    \* the outcome of the review
    policy,      \* what iam-svc answered
    deployed,    \* the deployer has been invoked, and has acted
    report,      \* the status given to _finish
    caught,      \* in the except branch around all stages
    result,      \* how the workflow closed
    record,      \* status of the run whose id the workflow was given
    lost

pipelineVars == <<kind, host, pc, round, validated, gate, decision, policy, deployed,
                  report, caught, result, record, lost>>

Decisions == {"approved", "rejected", "request_changes"}
Stages == {"invoke", "classify", "clarify", "spec", "codegen", "validate", "repair",
           "prepare", "review", "record", "policy", "deploy", "finish", "closed"}

(* 0 before the first loop. *)
Rounds == (0 .. ClarifyRounds) \cup (0 .. RepairRounds)

ValuesOK ==
    /\ kind \in Kinds /\ host \in Hosts
    /\ pc \in Stages
    /\ round \in Rounds
    /\ gate \in Decisions \cup {"none"}
    /\ decision \in Decisions \cup {"none", "timeout"}
    /\ policy \in {"none", "allow", "deny"}
    /\ report \in {"none", "succeeded", "failed", "rejected", "needs_input"}
    /\ result \in {"none", "succeeded", "failed", "rejected", "needs_input", "raised"}
    /\ record \in {"running", "awaiting_review", "rejected", "escalated", "succeeded", "failed"}
    /\ lost \in 0 .. MaxLost

FlagsOK == /\ validated \in BOOLEAN
           /\ deployed \in BOOLEAN
           /\ caught \in BOOLEAN

(* Stages, rounds, statuses and flags. *)
PipelineTypeOK == ValuesOK /\ FlagsOK

PipelineInit ==
    /\ kind \in Kinds /\ host \in Hosts
    /\ pc = IF kind = "generate" THEN "classify" ELSE "invoke"
    /\ round = 0
    /\ validated = FALSE /\ deployed = FALSE /\ caught = FALSE
    /\ gate = "none" /\ decision = "none" /\ policy = "none"
    /\ report = "none" /\ result = "none"
    /\ record = "running"
    /\ lost = 0

(* The workflow goes on to another stage, ends with a status, or raises    *)
(* into the except branch around all stages.                               *)
GoTo(stage) == pc' = stage /\ UNCHANGED <<report, caught>>
End(status) == pc' = "finish" /\ report' = status /\ UNCHANGED caught
Raise == pc' = "finish" /\ report' = "failed" /\ caught' = TRUE

Lose == lost < MaxLost /\ lost' = lost + 1

(* A publish on the record's run: ingested, or lost and nobody notices. *)
Publish(status) == \/ record' = status /\ UNCHANGED lost
                   \/ Lose /\ UNCHANGED record

-----------------------------------------------------------------------------
(* The stages up to a valid bundle. *)

(* classify and classify-validate: accept, reject, or an activity fails. *)
Classify ==
    /\ pc = "classify"
    /\ \/ GoTo("clarify") /\ round' = 1
       \/ (End("rejected") \/ Raise) /\ UNCHANGED round
    /\ UNCHANGED <<kind, host, validated, gate, decision, policy, deployed, result, record, lost>>

(* One round: ready, or (failed, invalid, more questions) the next round.  *)
Attempt(loop, next, exhausted, rounds) ==
    /\ pc = loop
    /\ \/ GoTo(next) /\ round' = 1
       \/ round < rounds /\ GoTo(loop) /\ round' = round + 1
       \/ round = rounds /\ End(exhausted) /\ UNCHANGED round
    /\ UNCHANGED <<kind, host, validated, gate, decision, policy, deployed, result, record, lost>>

Clarify == Attempt("clarify", "spec", "needs_input", ClarifyRounds)

(* Agent, schema and lint. *)
Draft == Attempt("spec", "codegen", "failed", ClarifyRounds)

GenerateCode ==
    /\ pc = "codegen"
    /\ \/ GoTo("validate") /\ round' = 1
       \/ Raise /\ UNCHANGED round
    /\ validated' = FALSE
    /\ UNCHANGED <<kind, host, gate, decision, policy, deployed, result, record, lost>>

(* The validate child: its exceptions count as a failed validation. *)
Validate ==
    /\ pc = "validate"
    /\ \/ GoTo("prepare") /\ validated' = TRUE
       \/ GoTo("repair") /\ validated' = FALSE
    /\ UNCHANGED <<kind, host, round, gate, decision, policy, deployed, result, record, lost>>

(* Mutant: the loop falls through after the last repair.                   *)
RepairThenReview ==
    /\ pc = "repair"
    /\ \/ round < RepairRounds /\ GoTo("validate") /\ round' = round + 1
       \/ round = RepairRounds /\ GoTo("prepare") /\ UNCHANGED round
       \/ Raise /\ UNCHANGED round
    /\ validated' = FALSE
    /\ UNCHANGED <<kind, host, gate, decision, policy, deployed, result, record, lost>>

(* Mutant: rounds are not counted.                                         *)
RepairForEver ==
    /\ pc = "repair"
    /\ (GoTo("validate") \/ Raise) /\ UNCHANGED round
    /\ validated' = FALSE
    /\ UNCHANGED <<kind, host, gate, decision, policy, deployed, result, record, lost>>

(* The bundle is generated anew; after the last round it is not validated  *)
(* again, and the run fails.                                               *)
Repair ==
    /\ pc = "repair"
    /\ \/ round < RepairRounds /\ GoTo("validate") /\ round' = round + 1
       \/ round = RepairRounds /\ End("failed") /\ UNCHANGED round
       \/ Raise /\ UNCHANGED round
    /\ validated' = FALSE
    /\ UNCHANGED <<kind, host, gate, decision, policy, deployed, result, record, lost>>

-----------------------------------------------------------------------------
(* Review, policy, deployment. *)

(* prepare_approval announces the review under the id the workflow has. *)
Prepare ==
    /\ pc = "prepare"
    /\ \/ GoTo("review") /\ Publish("awaiting_review")
       \/ Raise /\ UNCHANGED <<record, lost>>
    /\ UNCHANGED <<kind, host, round, validated, gate, decision, policy, deployed, result>>

SeeDecision ==
    /\ pc = "review" /\ gate # "none"
    /\ GoTo("record")
    /\ decision' = gate
    /\ UNCHANGED <<kind, host, round, validated, gate, policy, deployed, result, record, lost>>

(* wait_for times out; a decision that has arrived is seen first. *)
TimeOut ==
    /\ pc = "review" /\ gate = "none"
    /\ GoTo("record")
    /\ decision' = "timeout"
    /\ UNCHANGED <<kind, host, round, validated, gate, policy, deployed, result, record, lost>>

StatusAfter(d) == CASE d = "approved"        -> "running"
                    [] d = "rejected"        -> "rejected"
                    [] d = "timeout"         -> "escalated"
                    [] OTHER                 -> record

(* record_approval, then the check of the decision. *)
RecordDecision ==
    /\ pc = "record"
    /\ \/ /\ Publish(StatusAfter(decision))
          /\ IF decision = "approved" THEN GoTo("policy") ELSE End("rejected")
       \/ Raise /\ UNCHANGED <<record, lost>>
    /\ UNCHANGED <<kind, host, round, validated, gate, decision, policy, deployed, result>>

(* XWSIAMEvaluate gives a Boolean; _as_dict keeps dictionaries only; the   *)
(* verdict is looked up with TRUE as the default.                          *)
Value(answer) == answer = "allow"
AsDict(value) == IF value \in BOOLEAN THEN [key \in {} |-> FALSE] ELSE value
Get(dict, key, default) == IF key \in DOMAIN dict THEN dict[key] ELSE default
Allowed(answer) ==
    LET value == AsDict(Value(answer)) IN Get(value, "allowed", Get(value, "decision", TRUE))

AskPolicy ==
    /\ pc = "policy"
    /\ \/ \E answer \in {"allow", "deny"} :
            /\ policy' = answer
            /\ IF Allowed(answer) THEN GoTo("deploy") ELSE End("rejected")
       \/ Raise /\ UNCHANGED policy
    /\ UNCHANGED <<kind, host, round, validated, gate, decision, deployed, result, record, lost>>

(* The deploy child: it succeeds, or raises before or after the deployer   *)
(* has acted.  Its exceptions are caught within the outer try.             *)
Deploy ==
    /\ pc = "deploy"
    /\ \/ deployed' = TRUE /\ End("succeeded") /\ UNCHANGED lost
       \/ deployed' = FALSE /\ End("failed") /\ UNCHANGED lost
       \/ deployed' = TRUE /\ End("failed") /\ Lose
    /\ UNCHANGED <<kind, host, round, validated, gate, decision, policy, result, record>>

-----------------------------------------------------------------------------
(* The end. *)

(* Mutant: the event names failures only.                                  *)
EventUnlessFailed(status) == IF status = "failed" THEN "failed" ELSE "succeeded"

(* The status that complete_run's event leads to. *)
Event(status) == IF status = "succeeded" THEN "succeeded" ELSE "failed"

Close(status) == pc' = "closed" /\ result' = status /\ UNCHANGED <<report, caught>>

(* _finish.  If complete_run times out, before or after it published, the  *)
(* except branch finishes once more, and is itself not protected.          *)
Finish ==
    /\ pc = "finish"
    /\ \/ Publish(Event(report)) /\ Close(report)
       \/ /\ Lose
          /\ record' \in {record, Event(report)}
          /\ IF caught THEN Close("raised") ELSE Raise /\ UNCHANGED result
    /\ UNCHANGED <<kind, host, round, validated, gate, decision, policy, deployed>>

(* What the invoked function does. *)
Act == \/ kind = "deploy" /\ deployed' = TRUE
       \/ kind = "validate" /\ UNCHANGED deployed

(* The validate and deploy workflows.  A run's input is a string, in which *)
(* they find no bundle hash; a node's may be a dictionary that has one.    *)
(* They report nothing.                                                    *)
Invoke ==
    /\ pc = "invoke"
    /\ \/ Close("failed") /\ UNCHANGED <<deployed, lost>>
       \/ host = "node" /\ Close("succeeded") /\ Act /\ UNCHANGED lost
       \/ host = "node" /\ Close("raised") /\ UNCHANGED <<deployed, lost>>
       \/ host = "node" /\ Close("raised") /\ Act /\ Lose
    /\ UNCHANGED <<kind, host, round, validated, gate, decision, policy, record>>

(* A reviewer's call about "review" (ApprovalGate has its steps): the      *)
(* signal goes to {workflow}:{run}, which for a child is its parent.       *)
Signal(d) ==
    /\ record = "awaiting_review"
    /\ pc # "closed"
    /\ gate' = IF host = "run" THEN d ELSE gate
    /\ UNCHANGED <<kind, host, pc, round, validated, decision, policy, deployed,
                   report, caught, result, record, lost>>

Pipeline ==
    \/ Classify \/ Clarify \/ Draft \/ GenerateCode \/ Validate \/ Repair
    \/ Prepare \/ SeeDecision \/ TimeOut \/ RecordDecision
    \/ AskPolicy \/ Deploy \/ Finish \/ Invoke

PipelineNext == Pipeline \/ \E d \in Decisions : Signal(d)

(* Temporal drives the workflow, its children and timers; reviewers owe    *)
(* nothing.                                                                *)
PipelineSpec == PipelineInit /\ [][PipelineNext]_pipelineVars /\ WF_pipelineVars(Pipeline)

-----------------------------------------------------------------------------
(* Nothing generated is deployed but a bundle that was validated after it  *)
(* was last generated, that a reviewer approved, and about which the       *)
(* policy service has been asked.                                          *)
DeployedAsCleared ==
    deployed /\ kind = "generate" => /\ validated
                                     /\ decision = "approved"
                                     /\ policy # "none"

(* The outcome tells whether there was a deployment: a rejected run has    *)
(* none, a successful one has, and unless a reply or a report was lost a   *)
(* deployment makes the workflow, and the record it reports on, succeed.   *)
OutcomeMatchesDeployment ==
    pc = "closed" =>
        /\ result = "succeeded" /\ kind # "validate" => deployed
        /\ result \in {"rejected", "needs_input"} => ~deployed
        /\ lost = 0 /\ deployed => result = "succeeded"
        /\ lost = 0 /\ kind = "generate" => (record = "succeeded" <=> deployed)

(* However reviewers, agents and validators behave, the workflow ends.     *)
PipelineEnds == <>(pc = "closed")
=============================================================================
