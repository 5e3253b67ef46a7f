---------------------------- MODULE RunCreation ----------------------------
(***************************************************************************)
(* _create_run_impl (apps/api/app/main.py) over PostgresStore.create_run   *)
(* and TemporalGateway.start_workflow: requests for one workflow, many of  *)
(* them carrying the same idempotency key (webhook redeliveries, duplicate *)
(* scheduler ticks, client retries).  Each await is a step, so requests    *)
(* interleave, replies get lost and the API process may crash in between.  *)
(* Each await of the store may raise, with or without effect, and then the *)
(* request gets a 500 and the rest of the handler is not executed.         *)
(*                                                                         *)
(* A run is named after the request whose transaction inserted its row.    *)
(***************************************************************************)
EXTENDS Naturals, FiniteSets

CONSTANTS
    Requests,      \* deliveries of POST .../runs, a webhook or a tick
    Keyed,         \* those that carry the idempotency key
    NoRun,
    MaxCrashes,    \* bound: crashes of the API process
    MaxLost,       \* bound: start replies lost after Temporal started
    MaxExpiries,   \* bound: times the key's TTL passes
    MaxFaults      \* bound: store calls that raise, starts out of Temporal's reach

ASSUME CreationAssumption ==
    /\ IsFiniteSet(Requests)
    /\ Keyed \subseteq Requests
    /\ NoRun \notin Requests
    /\ {MaxCrashes, MaxLost, MaxExpiries, MaxFaults} \subseteq Nat

VARIABLES
    pc,         \* where each request's handler is
    run,        \* the run create_run returned to it
    answer,     \* the run in its response
    archived,   \* workflow.status = "archived"
    durable,    \* workflow.durable: no local fallback
    key,        \* the unexpired idempotency_keys row, or NoRun
    status,     \* runs.status; "ended" stands for any worker-reported terminal
    announced,  \* run_started events appended by the API, per run
    temporal,   \* the Temporal workflow {workflow}:{run}
    started,    \* how many times Temporal started it
    spawned,    \* execute_local_run tasks created for it, not yet begun
    local,      \* those that have begun
    alive,      \* those begun and still running in the API process
    lost, crashes, expiries, faults

vars == <<pc, run, answer, archived, durable, key, status, announced, temporal, started,
          spawned, local, alive, lost, crashes, expiries, faults>>

(* Handler positions, rows and counters. *)
TypeOK ==
    /\ pc \in [Requests -> {"new", "creating", "announcing", "starting", "confirming",
                            "refusing", "falling_back", "answered", "refused", "raised",
                            "crashed"}]
    /\ run \in [Requests -> Requests \cup {NoRun}]
    /\ answer \in [Requests -> Requests \cup {NoRun}]
    /\ {archived, durable} \subseteq BOOLEAN
    /\ key \in Requests \cup {NoRun}
    /\ status \in [Requests -> {"absent", "queued", "running", "failed", "ended"}]
    /\ announced \in [Requests -> Nat]
    /\ temporal \in [Requests -> {"none", "open", "closed"}]
    /\ started \in [Requests -> Nat]
    /\ spawned \in [Requests -> Nat]
    /\ local \in [Requests -> Nat]
    /\ alive \in [Requests -> Nat]
    /\ lost \in [Requests -> Nat]
    /\ crashes \in Nat
    /\ expiries \in Nat
    /\ faults \in 0 .. MaxFaults

Executions(x) == started[x] + local[x]
Starters(x)   == {r \in Requests : run[r] = x}
Starting      == {"announcing", "starting", "confirming", "refusing", "falling_back"}

At(r, from, to) == pc[r] = from /\ pc' = [pc EXCEPT ![r] = to]

Init ==
    /\ pc = [r \in Requests |-> "new"]
    /\ run = [r \in Requests |-> NoRun]
    /\ answer = [r \in Requests |-> NoRun]
    /\ archived = FALSE
    /\ durable \in BOOLEAN
    /\ key = NoRun
    /\ status = [r \in Requests |-> "absent"]
    /\ announced = [r \in Requests |-> 0]
    /\ temporal = [r \in Requests |-> "none"]
    /\ started = [r \in Requests |-> 0]
    /\ spawned = [r \in Requests |-> 0]
    /\ local = [r \in Requests |-> 0]
    /\ alive = [r \in Requests |-> 0]
    /\ lost = [r \in Requests |-> 0]
    /\ crashes = 0
    /\ expiries = 0
    /\ faults = 0

-----------------------------------------------------------------------------
(* The handler of a request, one action per await. *)

workflowVars == <<archived, durable>>
executionVars == <<temporal, started, spawned, local, alive, lost>>
boundVars == <<crashes, expiries>>

Fault == faults < MaxFaults /\ faults' = faults + 1

(* get_workflow: 409 when archived. *)
RefuseArchived(r) ==
    /\ archived
    /\ At(r, "new", "refused")
    /\ UNCHANGED <<run, answer, workflowVars, key, status, announced, executionVars,
                   boundVars, faults>>

(* find_run_by_idempotency_key hits: the existing run is the answer. *)
FindExisting(r) ==
    /\ ~archived
    /\ r \in Keyed
    /\ key # NoRun
    /\ At(r, "new", "answered")
    /\ answer' = [answer EXCEPT ![r] = key]
    /\ UNCHANGED <<run, workflowVars, key, status, announced, executionVars, boundVars,
                   faults>>

FindNothing(r) ==
    /\ ~archived
    /\ r \in Keyed => key = NoRun
    /\ At(r, "new", "creating")
    /\ UNCHANGED <<run, answer, workflowVars, key, status, announced, executionVars,
                   boundVars, faults>>

LookUpRaises(r) ==
    /\ At(r, "new", "raised")
    /\ Fault
    /\ UNCHANGED <<run, answer, workflowVars, key, status, announced, executionVars,
                   boundVars>>

(* Mutant: the transaction does not look the key up again under its lock.  *)
CreateRunUnchecked(r) ==
    /\ At(r, "creating", "announcing")
    /\ run' = [run EXCEPT ![r] = r]
    /\ status' = [status EXCEPT ![r] = "queued"]
    /\ key' = IF r \in Keyed THEN r ELSE key
    /\ UNCHANGED <<answer, workflowVars, announced, executionVars, boundVars, faults>>

Duplicate(r) == r \in Keyed /\ key # NoRun

Insert(r) ==
    /\ status' = [status EXCEPT ![r] = "queued"]
    /\ key' = IF r \in Keyed THEN r ELSE key

(* create_run, one transaction under the key's advisory lock: the run the  *)
(* key already names, or a new queued row that the key now names.          *)
CreateRun(r) ==
    /\ At(r, "creating", "announcing")
    /\ IF Duplicate(r)
       THEN run' = [run EXCEPT ![r] = key] /\ UNCHANGED <<key, status>>
       ELSE run' = [run EXCEPT ![r] = r] /\ Insert(r)
    /\ UNCHANGED <<answer, workflowVars, announced, executionVars, boundVars, faults>>

(* It rolls back, or commits and is not heard of. *)
CreateRunRaises(r) ==
    /\ At(r, "creating", "raised")
    /\ Fault
    /\ \/ UNCHANGED <<key, status>>
       \/ ~Duplicate(r) /\ Insert(r)
    /\ UNCHANGED <<run, answer, workflowVars, announced, executionVars, boundVars>>

Announced(r) == announced' = [announced EXCEPT ![run[r]] = @ + 1]

(* emit_event(run.id, "run_started"), without an event key. *)
Announce(r) ==
    /\ At(r, "announcing", "starting")
    /\ Announced(r)
    /\ UNCHANGED <<run, answer, workflowVars, key, status, executionVars, boundVars, faults>>

AnnounceRaises(r) ==
    /\ At(r, "announcing", "raised")
    /\ Fault
    /\ UNCHANGED announced \/ Announced(r)
    /\ UNCHANGED <<run, answer, workflowVars, key, status, executionVars, boundVars>>

NotConnected == IF durable THEN "refusing" ELSE "falling_back"

(* start_workflow reaches Temporal.  The workflow id is taken only while   *)
(* an execution with it is open.                                           *)
StartAccepted(r) ==
    /\ temporal[run[r]] # "open"
    /\ temporal' = [temporal EXCEPT ![run[r]] = "open"]
    /\ started' = [started EXCEPT ![run[r]] = @ + 1]

(* Mutant: the test of result.connected is inverted.                       *)
StartConfirmedFallsBack(r) ==
    /\ At(r, "starting", NotConnected)
    /\ StartAccepted(r)
    /\ UNCHANGED <<run, answer, workflowVars, key, status, announced, spawned, local, alive,
                   lost, boundVars, faults>>

StartConfirmed(r) ==
    /\ At(r, "starting", "confirming")
    /\ StartAccepted(r)
    /\ UNCHANGED <<run, answer, workflowVars, key, status, announced, spawned, local, alive,
                   lost, boundVars, faults>>

(* ... but the reply does not arrive: any exception is connected=False. *)
StartReplyLost(r) ==
    /\ At(r, "starting", NotConnected)
    /\ lost[run[r]] < MaxLost
    /\ StartAccepted(r)
    /\ lost' = [lost EXCEPT ![run[r]] = @ + 1]
    /\ UNCHANGED <<run, answer, workflowVars, key, status, announced, spawned, local, alive,
                   boundVars, faults>>

(* WorkflowAlreadyStarted is connected=False too ... *)
StartRefused(r) ==
    /\ At(r, "starting", NotConnected)
    /\ temporal[run[r]] = "open"
    /\ UNCHANGED <<run, answer, workflowVars, key, status, announced, executionVars,
                   boundVars, faults>>

(* ... as is a Temporal that cannot be reached. *)
StartUnreachable(r) ==
    /\ At(r, "starting", NotConnected)
    /\ Fault
    /\ UNCHANGED <<run, answer, workflowVars, key, status, announced, executionVars,
                   boundVars>>

Answer(r) == answer' = [answer EXCEPT ![r] = run[r]]

SetStatus(x, s) == status' = [status EXCEPT ![x] = s]

(* Connected: update_run writes the whole record with status "running". *)
Confirm(r) ==
    /\ At(r, "confirming", "answered")
    /\ SetStatus(run[r], "running")
    /\ Answer(r)
    /\ UNCHANGED <<run, workflowVars, key, announced, executionVars, boundVars, faults>>

ConfirmRaises(r) ==
    /\ At(r, "confirming", "raised")
    /\ Fault
    /\ UNCHANGED status \/ SetStatus(run[r], "running")
    /\ UNCHANGED <<run, answer, workflowVars, key, announced, executionVars, boundVars>>

(* Mutant: the 503 is raised before the run is marked failed.              *)
RefuseDurableUnmarked(r) ==
    /\ At(r, "refusing", "refused")
    /\ UNCHANGED <<run, answer, workflowVars, key, status, announced, executionVars,
                   boundVars, faults>>

(* Durable: the run is marked failed, run_failed emitted, and the request  *)
(* gets a 503 ...                                                          *)
RefuseDurable(r) ==
    /\ At(r, "refusing", "refused")
    /\ SetStatus(run[r], "failed")
    /\ UNCHANGED <<run, answer, workflowVars, key, announced, executionVars, boundVars,
                   faults>>

(* ... or a 500, when update_run raises, or the event after it. *)
RefuseDurableRaises(r) ==
    /\ At(r, "refusing", "raised")
    /\ Fault
    /\ UNCHANGED status \/ SetStatus(run[r], "failed")
    /\ UNCHANGED <<run, answer, workflowVars, key, announced, executionVars, boundVars>>

(* Otherwise: asyncio.create_task(execute_local_run(...)). *)
FallBack(r) ==
    /\ At(r, "falling_back", "answered")
    /\ spawned' = [spawned EXCEPT ![run[r]] = @ + 1]
    /\ Answer(r)
    /\ UNCHANGED <<run, workflowVars, key, status, announced, temporal, started, local,
                   alive, lost, boundVars, faults>>

-----------------------------------------------------------------------------
(* The environment. *)

(* An execution has its status written, unless that fails. *)
Reported(x, s) == \/ SetStatus(x, s) /\ UNCHANGED faults
                  \/ UNCHANGED status /\ Fault

(* The worker finishes the workflow and its terminal event is ingested. *)
TemporalEnds(x) ==
    /\ temporal[x] = "open"
    /\ temporal' = [temporal EXCEPT ![x] = "closed"]
    /\ Reported(x, "ended")
    /\ UNCHANGED <<pc, run, answer, workflowVars, key, announced, started, spawned,
                   local, alive, lost, boundVars>>

(* The task's first act is to write status "running". *)
LocalBegins(x) ==
    /\ spawned[x] > 0
    /\ spawned' = [spawned EXCEPT ![x] = @ - 1]
    /\ local' = [local EXCEPT ![x] = @ + 1]
    /\ alive' = [alive EXCEPT ![x] = @ + 1]
    /\ Reported(x, "running")
    /\ UNCHANGED <<pc, run, answer, workflowVars, key, announced, temporal, started, lost,
                   boundVars>>

LocalEnds(x) ==
    /\ alive[x] > 0
    /\ alive' = [alive EXCEPT ![x] = @ - 1]
    /\ Reported(x, "ended")
    /\ UNCHANGED <<pc, run, answer, workflowVars, key, announced, temporal, started, spawned,
                   local, lost, boundVars>>

Archive ==
    /\ ~archived
    /\ archived' = TRUE
    /\ UNCHANGED <<durable, pc, run, answer, key, status, announced, executionVars,
                   boundVars, faults>>

(* idempotency_keys.expires_at passes. *)
Expire ==
    /\ expiries < MaxExpiries
    /\ key # NoRun
    /\ key' = NoRun
    /\ expiries' = expiries + 1
    /\ UNCHANGED <<pc, run, answer, workflowVars, status, announced, executionVars, crashes,
                   faults>>

(* The API process dies: its handlers and local tasks vanish, the database *)
(* and Temporal stay.  Requests not received yet arrive after the restart. *)
Crash ==
    /\ crashes < MaxCrashes
    /\ crashes' = crashes + 1
    /\ pc' = [r \in Requests |->
                IF pc[r] \in {"new", "answered", "refused", "raised"} THEN pc[r]
                ELSE "crashed"]
    /\ spawned' = [x \in Requests |-> 0]
    /\ alive' = [x \in Requests |-> 0]
    /\ UNCHANGED <<run, answer, workflowVars, key, status, announced, temporal, started,
                   local, lost, expiries, faults>>

-----------------------------------------------------------------------------
Handle(r) ==
    \/ RefuseArchived(r)
    \/ FindExisting(r)
    \/ FindNothing(r)
    \/ LookUpRaises(r)
    \/ CreateRun(r)
    \/ CreateRunRaises(r)
    \/ Announce(r)
    \/ AnnounceRaises(r)
    \/ StartConfirmed(r)
    \/ StartReplyLost(r)
    \/ StartRefused(r)
    \/ StartUnreachable(r)
    \/ Confirm(r)
    \/ ConfirmRaises(r)
    \/ RefuseDurable(r)
    \/ RefuseDurableRaises(r)
    \/ FallBack(r)

Execute(x) == TemporalEnds(x) \/ LocalBegins(x) \/ LocalEnds(x)

Next == \/ \E r \in Requests : Handle(r) \/ Execute(r)
        \/ Archive
        \/ Expire
        \/ Crash

Spec == Init /\ [][Next]_vars

-----------------------------------------------------------------------------
(* Within one TTL every delivery of a key that is answered gets the same   *)
(* run, however lookups and transactions interleave.                       *)
SameRunReturned ==
    expiries = 0 =>
        \A r, s \in Keyed : answer[r] # NoRun /\ answer[s] # NoRun => answer[r] = answer[s]

(* A run executes no more often than handlers came out of create_run with  *)
(* it, plus once for each start whose reply was lost.                      *)
ExecutionsAccounted ==
    \A x \in Requests : Executions(x) <= Cardinality(Starters(x)) + lost[x]

(* A duplicate delivery does not execute the run a second time: a run that *)
(* Temporal has started is not executed by the local fallback as well.     *)
NeverInBothPlaces == \A x \in Requests : started[x] = 0 \/ local[x] = 0

UnderWay(x) == \/ Executions(x) + spawned[x] > 0
               \/ \E r \in Starters(x) : pc[r] \in Starting

(* Which runs may be forgotten.  A run that is still queued is being       *)
(* started by a handler or has been started, unless its own request got no *)
(* answer (a store call raised, or the process died) or was answered after *)
(* handing it to a local task that the process took down with it.  So a    *)
(* run whose request was refused is never left in the queue, and one of a  *)
(* durable workflow never once it has been answered.  (Redeliveries are    *)
(* answered with a forgotten run, FindExisting, and nothing starts it.)    *)
QueuedIsUnderWay ==
    \A x \in Requests : status[x] = "queued" /\ ~UnderWay(x) =>
        \/ pc[x] \in {"crashed", "raised"}
        \/ pc[x] = "answered" /\ crashes > 0 /\ ~durable
=============================================================================
