# TLA+ models of XFlows

XFlows is a visual workflow platform: a web editor draws graphs of components, a FastAPI
service stores them and creates runs, a Temporal worker (or, as a fallback, the API process
itself) executes the graph, and every run reports itself as a log of events that clients
follow over SSE.  This directory holds TLA+ models of the parts of it where order, failure and
concurrency decide whether it is right, TLC configurations that check them, and proofs about
all of them.

Paths below are relative to the repository root (`apps/...`, `packages/...`).

## The system

| component | state it keeps | operations | what is hard about it |
|---|---|---|---|
| **Graph engine** `packages/xflows-engine/xflows_engine/graph.py` | nodes, edges, queues of deliveries, statuses | `normalize_workflow_graph`, `topo_sort`, `execution_batches`, `NodeGraphRunner.run` | tasks of a batch finish in any order, fail, are cancelled; a node must be reached or skipped exactly once |
| **Run creation** `apps/api/app/main.py`, `store.py`, `temporal_client.py` | `runs`, `idempotency_keys` | `_create_run_impl`, `create_run`, `start_workflow` | concurrent deliveries of one key, crash between commit and start, lost replies |
| **Run record and ingestion** `main.py`, `store.py`, `apps/workers/app/activities.py` | the row, its Redis entry | `append_internal_event`, `get_run`, `update_run`, `publish_event` | read-modify-write through a cache, posts given up on while they are being ingested |
| **Event log and stream** `main.py`, `store.py` | `run_events` | `append_event`, `get_events`, `stream_run_events` | ids drawn before commit, cursors, reconnection |
| **Local run** `main.py` | the run's task in the API process | `execute_local_run` | any store call may raise at any point of it |
| **Trigger scheduler** `apps/api/app/triggers.py` | the idempotency keys of slots | `fire_due_triggers`, `trigger_scheduler_loop` | several processes tick at once; a slot must not be missed or repeated |
| **Approval gate** `apps/workers/app/approval.py`, `workflows.py`, `main.py` | decisions per node, run status | `_run_approval_node`, signal handlers, review endpoints | reviewers, timers, parallel nodes and the run's own timeout race |
| **XFlowsWorkflow** `apps/workers/app/workflows.py` | workflow state in Temporal | `run`, `execute_node`, `complete_run` | retried activities, partial results of failed runs |
| **APIGen pipelines, SubWorkflow children** `workflows.py` | stage, round, decision | classify, clarify, draft, generate code, validate, repair, review, policy, deploy; child workflows | stages that must precede others, calls that act although they fail, children reporting on the parent's run |
| **Node execution** `apps/workers/app/activities.py`, `provider_router.py`, `xws/`, `packages/.../executors/` | attempts; iterations, tokens and repairs of an executor; cached credentials | `execute_node`, `dispatch`, the agent loop, the repair loop, fallback models, XWS calls and vending | budgets, retries inside retries, expiry, a worker that goes on after Temporal gave up on it |
| **Stores** `apps/api/app/store.py`, `persistence.py` | projects, workflows, runs, triggers, secrets, users; a Redis entry per project | CRUD; `InMemoryStore`, `PostgresStore`, `DualWriteStore` | check-then-act across awaits, two stores that may diverge, a stale cache entry |
| **Auth, config, models, metrics** `apps/api/app/` | none | pure checks | -- |
| **Web editor** `apps/web/src/` | canvas, run view | connection rules, validation, following a run | -- |

How they interact: a client, a webhook or the scheduler calls `_create_run_impl`, which writes
a run under its idempotency key and asks Temporal to start `XFlowsWorkflow`; if that fails it
spawns `execute_local_run`.  Either way `NodeGraphRunner.run` executes the graph, calling back
for each node.  Runs of workflows marked as APIGen are dispatched to a pipeline instead, and a
SubWorkflow node of a graph can start one as a child.  The worker reports over HTTP to
`append_internal_event`, which appends to the event log and writes the run's record; local runs
write to the store directly.  Each node of a Temporal run is an activity, which retries
and reports by itself; its executor may call models and XWS services.  Reviewers call
the API, which checks the run's status and signals the workflow.  The web client reads the
record through the cache and follows the log.

What makes each of them correct, in a sentence: the engine settles each node once, after its
predecessors, and delivers what outcomes decide; a key yields one run and one execution; a
record is a function of the events ingested; a log is read in order and whole; a local run's
row and log agree; a slot fires once; an Approval node returns the latest decision it was sent
and its run leaves review; a pipeline deploys only what was cleared, and its outcome tells
whether it deployed; a node reaches only services it may reach, within its budget, and the
workflow hears of it; runs keep their workflow and the definition they were sent, and the two
stores of a dual mode agree.  `PROJECT.json` lists the hazards, each at the line where it bites.

## The modules

| module | models | state and actions |
|---|---|---|
| `WorkflowGraph` | what `normalize_workflow_graph` guarantees, and the level `execution_batches` emits next | graph variables `source`, `target`; `In`, `Out`, `Acyclic`, `NextBatch` |
| `Dataflow` | abstract: what the engine promises | a node settles once, after its predecessors, skipped iff unfed; edges carry by outcome |
| `GraphRunner` | `NodeGraphRunner.run` | `phase` is the coroutine, `task[n]` the task of a node, `pending` / `input` its queue before and after `pending.pop`, `statuses`, `failure`; one action per stretch between awaits |
| `GraphOrder` | `topo_sort`, `execution_batches` | their loops as recursive functions, an edge (`Traverse`) and a node (`Pop`, `Level`) at a time, over the order of nodes and edges in the document; where `GraphRunner` starts, they compute the `NextBatch` and the verdict it uses |
| `RunCreation` | `_create_run_impl` and what it calls | `pc[r]` is a request's handler; `key`, `status` the rows; `temporal`, `started`, `spawned`, `local` the executions; one action per await, and one for each await that raises, plus crash, key expiry, archiving |
| `RunRecord` | `append_internal_event`, `get_run`, `update_run`, `publish_event`, `complete_run`, the confirmation of the start by `_create_run_impl` | `ingest[i]` is the handler of the i-th post with its own `copy` of the record, a post being an event or a repetition of one whose reply was late or lost; `confirm` the handler that confirms the start; `row`, `cache`, a polling `reader`; a success has a text for its output, a dictionary, which the table refuses (`WriteRefused`), or none; any call may raise and the post be answered 500 |
| `EventLog` | `append_event`, `get_events`, `stream_run_events` | writers insert, conflict, commit, abort; clients fetch a page, yield, idle, drop, reconnect |
| `LocalRun` | `execute_local_run` | `pc` is its await, `node[n]` that of `execute(node)`; each store call may raise, with or without effect |
| `TriggerScheduler` | `fire_due_triggers`, `trigger_scheduler_loop` | a clock in units of the loop's 30 s, each process's tick with the triggers it has still to do (`todo`), the key index with expiry times; whatever raises in a tick ends it |
| `ReviewDecision` | abstract: what an Approval node promises | the latest decision sent, or a timeout if none, given once |
| `ApprovalGate` | `_run_approval_node`, signals, review endpoints, status effects | `task[n]`, `gate`, `outcome`, `call[c]`, the run's `status`, and whether the workflow is `open` |
| `ApiGenPipeline` | the three APIGen workflows, as a run or as a child | `pc` is the stage awaited, `round` the loop variable, `report` and `caught` where `_finish` was called from, `record` the status of the run it reports on; one action per stage |
| `NodeExecution` | `execute_node` with its retry policy and timeout, the agent, LLM and XWS executors, `provider_router`, `xws/client.py`, `xws/creds.py` | `state` is the activity as the workflow sees it, `pc` where the worker is; `iter`, `used`, `late`, `repair`, `fallback`, `try` the loop variables of each level; `left` the life left in each credential, `beyond` whether a call has met what the margin is not made for; one action per answer |
| `RunTree` | `XFlowsWorkflow.run` from the document to the last event, with `normalize_workflow_graph`, `_execute_subworkflow`, `complete_run` and `record_node_statuses` | `exec` is the executions by path, the run being `<<>>` and a child its node below its parent, each with a `phase`, the statuses of its nodes, what it has `raised` and its `result`; `events` those of the run, `adrift` those that workers may still publish for activities given up on; one action per await |
| `StoreTables` | the statements of `InMemoryStore` and `PostgresStore` | the tables of one project as a record; an operator per statement |
| `Stores` | the handlers of `main.py` that create, change and delete a project, its workflow, runs, triggers and secret, and `DualWriteStore` | `plan[r]` is what a handler still has to do, one statement per action; `mem`, `sql`, `cache`; statements may raise, the process may restart |
| `M_proofs`, for eight of the above | -- | theorems about `M`, which they extend; `RunCreation_proofs` extends `TriggerScheduler`, `GraphRunner_proofs` extends `GraphOrder` and `ApiGenPipeline`, and `RunRecord_proofs` extends `RunTree` as well |

`GraphOrder` extends `GraphRunner`, which extends `WorkflowGraph`.  `GraphRunner` implements
`Dataflow`, and `ApprovalGate` implements `ReviewDecision`, each through `INSTANCE ... WITH` and
the abstract specification as a property.  The abstract counterpart of a dual store is the other
store: `StoresAgree` compares the two.  `Stores` executes on `StoreTables`.  `ApprovalGate` takes a
publish as one step, which `RunRecord` takes apart; `TriggerScheduler` takes `create_run` as one step, which `RunCreation`
takes apart; `LocalRun` takes the graph as one batch, which `GraphRunner` takes apart;
`GraphRunner` takes a node as one step, which `NodeExecution` takes apart; `Stores` takes what
follows a run's creation as done, which `RunCreation` and `RunRecord` take apart; and
`ApiGenPipeline` takes a reviewer's call as one step, which `ApprovalGate` takes apart.
`RunTree` puts these together, each reduced to its outcomes: a batch of `GraphRunner`, an activity of
`NodeExecution`, a decision of `ApprovalGate`, a publish of `RunRecord`, a pipeline of
`ApiGenPipeline`.

Each `MC*` module gives values to constants for TLC.  In the models a definition preceded by
`(* Mutant: ... *)` is a plausible bug of the definition that follows; nothing uses it, and
`PROJECT.json` says which property must find it.

### What is abstracted

Payloads, prompts, outputs, traces and metrics are left out.  A delivery is the edge it came by.
Which `when` predicates hold is any subset of the well-formed ones.  `execute_node` returns or
raises at any time.  `ended` in `RunCreation` stands for any terminal status that a worker
reports.  PostgreSQL statements are atomic and take effect at their commit; a transaction under
an advisory lock is one step.  In `ApiGenPipeline` agents, schemas and lint accept or
reject freely, an activity's retries are one outcome, and a parent graph is only the place where
reports and signals go.

`NodeExecution`: arguments, prompts and answers are left out, so a model may call any tool and an
answer may fit its schema or not; the path segments that a model chooses are left out with them.
What an executor raises after it has read the answer of a service, and what ending a span raises, is left out.  Only the last success a node reported is kept of its events.
A worker that dies is not missed before the schedule-to-close timeout, since activities have no
heartbeat.  `AssumeRole` takes no time; secret references, metrics and the stripping of the
gateway's prefix are left out.

`Stores`: one project, workflow, trigger and secret, which is enough for every foreign key; users
are left out, being referred to by nothing.  A project is created without description.  The
metadata of a workflow names its own project; the rest of it is what the caller wrote (`tags`) and the
`source` that `create_project_run` writes over it (`ProjectRun`).  The two loads of the workflow in
`_create_run_impl` are one.  Reads that decide nothing are left out.

`RunTree`: of the parameters that a container takes over from its first child the model keeps the
definition a SubWorkflow node names; of the events it keeps the ends of runs, the announcements of
reviews and what is said of skipped and routed nodes.  Two children of one run differ by their
path, as their ids do in the code.  Malformed predicates stay in `GraphRunner`.  What Temporal does is
taken from temporalio 1.8.0 on Python 3.11, the versions of the worker: an exception that leaves
`run()` closes the execution if it is a `FailureError` or a timeout, and otherwise fails the workflow task, which
is tried again for ever (`worker.py` sets no `workflow_failure_exception_types`, the starters no
timeouts): the execution is `stuck`.  An activity that is cancelled is over for the workflow at once
(`TRY_CANCEL`), not for its worker, which has no heartbeat to be told by.  A cancelled await on a child waits for the child.
In a local run (`GraphRunner`) the same `NodeGraphRunner` is cancelled by asyncio, in process, and a task has no one else to go on for it.

Time is real in `TriggerScheduler`, and in `NodeExecution` as the life left in a credential;
elsewhere a timeout is an action that may happen.

## The runs

| run | bounds | what it shows |
|---|---|---|
| `graph_runner` | every graph of 4 nodes and 4 edges, one error edge, one malformed predicate, one `onError = "continue"` node | the loops of `graph.py` compute the levels and reject exactly the cyclic graphs; deliveries are complete, tasks survive the run only after a malformed predicate, the run ends, and `Dataflow` is implemented: nodes settle once, after their predecessors, and edges follow outcomes |
| `run_creation` | two deliveries of one key, one request without; one crash, one lost reply per run, one expiry, two calls of the store or Temporal that raise; durable or not | deliveries agree on the run within a TTL; executions are accounted for by handlers and lost replies; a queued run that nobody starts was left by its own request, which got no answer, or by a crash |
| `run_record` | twelve reporting scripts with outputs of each kind, three posts (events or repetitions), one given up on, one call that raises | records claim only what was reported; if every post gets through and no call raises, the last event that can be written decides, unless the confirmation was last; the cache comes to agree |
| `approval_gate` | 2 parallel nodes, 2 calls about either or none, one lost publish | acknowledged decisions reach their gate and the log; the run leaves review; `ReviewDecision` is implemented, so the latest decision decides |
| `event_log` | 3 appends with or without the one key, pages of 2, one lost connection | one row per key; frames in order and once; only out-of-order commits are passed over; the rest arrives |
| `local_run` | 3 nodes (one with an error edge, one Wait), 2 attempts, 2 raising store calls | row and log agree and claim success only of a graph that succeeded, work is repeated only for faults, the task ends |
| `trigger_scheduler` | 2 processes, 3 triggers (one broken), one store call that raises, one operator action, clock to 7 | repeats are a TTL apart; slots fire in time, and none is missed that has room for one tick more than there were raising calls |
| `apigen` | three workflows, as run and as child, 5 and 3 rounds as in the code, 2 losses | deployments were validated, approved and put to the policy; outcome and record tell of them; every workflow ends |
| `stores` | four persistence modes, scripts of 2 to 4 requests, two of them at once, one raising statement or restart | a workflow with runs is not deleted by its own DELETE, runs execute what they were sent, a version names one definition, an archived workflow takes no runs, updates are not undone, nothing outlives its project, and the two stores of a dual mode agree while nothing disturbs them (new metadata with the old graph does) |
| `node_execution` | one node of each kind, 2 attempts, 2 iterations, cap 2 tokens, answers of 0 or 2, the times and tries of the code, tries of 0, 30 or 90 s, cached credentials with 0, 60 or 120.1 s left and vended ones with 0, 60 or 900 s | only allowed services are reached, a cap is overshot by less than one answer, calls are signed with a valid credential save the last retry of one, calls with a try that outlasted the timeout and short-lived credentials; a success that is known stands, and the workflow hears of the node |
| `run_tree` | eleven documents: containers with children, config edges, dangling edges, cycles, a pipeline, a definition that includes itself, one that is missing, one that is invalid, one without nodes, a node that names none; 3 levels below the run, 2 losses | whoever reports an end awaits nothing and has no descendant that acts, but for children that an interruption has left; the log says nothing untrue of the run and its nodes, and all of it once if nothing was lost; every execution ends, unless its task or that of a child it awaits fails for ever |
| `run_creation_once` | 2 deliveries of one key, nothing fails | a finding, see below |

Type invariants are proved, and therefore not checked again in the runs.

Why the bounds are enough to be of interest: a diamond, a self loop, parallel edges, a skipped
branch and a node fed by a data and an error edge all occur in graphs of four nodes and four
edges.  Races over one key need two deliveries; the third request shows that they do not
disturb others.  Two raising calls let a request's own failure meet that of its
redelivery, and a Temporal that cannot be reached meet a store that raises.  Three events are the longest report of a run with one review.  A second append
commits out of order, a third follows the gap; pages of two make a page break and a connection
lost in the middle of a page.  Two raising calls let the handler of a first failure fail too.
The clock of `trigger_scheduler` covers three slots of the frequent triggers and a slow slot (4)
that outlasts the TTL (3); the slow slot has room for a tick that raises.  Two losses let a deployment lose its reply
and the report of that failure fail too.  Two requests to the
stores in progress at once, after up to two that have ended, are enough for each check-then-act of
a handler to be overtaken; the scripts name the pairs that touch the same rows, and one of four
requests is what it takes for a cache entry to survive a deletion and answer for the project
created after it.  Two attempts of a
node let the second repeat what the first did, two iterations let the second meet the cap of the
first; of `StartLeft` one value is an expired credential, one lies within the margin and one
just above it; of `Sessions`, what a vended credential may have, one is expired, one lies within the margin
and one is what was asked for; of `TryTimes` one is the timeout, which httpx applies to each phase of a try, and one three of them.  Three levels of children let a timeout pass through
an execution that is neither the run nor a leaf; at the bound a child that includes itself simply
is not started, as when Temporal is slow, and the timeout has to reach it all the same.  Every
bound is a named constant: `MaxCrashes`, `MaxLost`, `MaxExpiries`, `MaxPosts`, `MaxFailures`, `MaxRaises`, `MaxDrops`, `MaxFaults`, `MaxToggles`,
`Horizon`,
`MaxOps`, `MaxOpen`, `MaxTroubles`, `MaxDepth`.

Deadlock is not checked: all these systems stop (runs end, clients fall silent, the clock ends).
Symmetry is used in `run_creation`, which checks invariants only.

### Fairness

Safety properties need none.  Liveness assumes, action by action:
- `GraphRunner`: the event loop runs ready tasks, and each `execute_node` ends (activities have a
  schedule-to-close timeout).  Nothing is assumed of the run timeout.
- `RunRecord`: handlers are resumed, the worker posts on, a Redis entry expires (`setex`).
- `ApprovalGate`: Temporal drives the workflow, its activities and timers.  Reviewers owe nothing.
- `EventLog`: transactions are decided, the generator is resumed, and a client whose stream
  closes reconnects with its last id, as a browser's `EventSource` does.  The repository's own
  web client closes the source on an error instead, and has no such guarantee.
- `ApiGenPipeline`: Temporal drives the workflow, its activities, children and timers: the
  activities have timeouts and the review has its own.  Reviewers owe nothing.
- `LocalRun`: the task is resumed, and `wait_for` does time out; nodes owe nothing.
- `NodeExecution`: a worker starts what is scheduled and goes on with what it has started (unless
  it died, which it may), and Temporal's schedule-to-close timer fires.
- `RunTree`: some step is taken as long as there is one.  Temporal goes on with every workflow,
  activity and timer; reviewers owe nothing, and neither do workers given up on or tasks that fail
  for ever.

`Stores` and `TriggerScheduler` have no liveness.  `MaxTick`, the longest a tick may take, is an
assumption the code does not enforce, and `SlotsFire` is relative to it.

## Findings

One run violates what the repository says of itself.

`run_creation_once` (`NeverInBothPlaces`): two deliveries of one key that both miss the lookup both come
out of `create_run` with the same run, and both start it.  Temporal, which executes the run by then,
refuses the second start; `start_workflow` reports that as it reports an unavailable Temporal, and the handler
executes the run of a workflow that is not durable a second time, in process.  `main.py:744` says
that a duplicate delivery must return the original run "without starting it again", and names just this fall-through.
(`run_creation` has the other way to two executions: once the first has closed, Temporal
accepts the second start.)

Others were met while modelling and proving.  Five of them contradict a document or a comment as well; the
models contain them, and the properties of the passing runs name or except them:
- an Approval node returns a rejection, or its timeout, as a value and the graph goes on; the end of
  the workflow then overwrites `rejected` or `escalated`, which `docs/features/runs.md:8` and
  `docs/reference/run-events.md:22` call terminal (`Apply`; `LastEventDecides` says that the last event decides);
- the output of a run whose output node is an Approval is a dictionary.  `append_internal_event`
  appends `run_succeeded`, `update_run` raises for the TEXT column, and nobody looks at the 500: the run
  is over in the log and stays as it was in the table, although `docs/features/runs.md:23` has the API
  apply the side effects of a terminal event (`WriteRefused`);
- a child that refuses its definition reports that it failed and raises an exception that is none of
  Temporal's, so its workflow task is tried for ever.  The node of the parent waits for it, beyond
  every timeout, although `docs/features/node-catalog.md:284` says that "a child that does not succeed
  fails the node".  The same happens to a run whose pipeline returns another status than
  `succeeded`, or whose SubWorkflow node names no workflow, once that has been reported (`Raises`, `Record`);
- a decision without `evidence.nodeId` is signalled with an empty node, which the workflow drops; the
  API logs it and answers `signal_sent`.  `docs/features/runs.md:48` says that the endpoint resumes the gate,
  `workflows.py:339` that the API always sends a node (`DecisionsArrive` speaks of named nodes only);
- `XWSIAMEvaluate` returns the policy's verdict as a Boolean; the pipeline reads it as a dictionary,
  finds nothing, and takes the default, which is to allow (`Allowed`).  A denial never stops a
  deployment, although `docs/features/node-catalog.md:296` has such a run rejected (`DeployedAsCleared`
  says only that the policy was asked).  When the service cannot be reached the activity raises and nothing is deployed.

In run creation, records and logs:
- what `QueuedIsUnderWay` excepts: a crash between `create_run` and the start, or `emit_event` or
  `update_run` raising there, leaves a queued run that redeliveries are answered with and nothing
  starts; and so does a crash that takes along the local task of a run that was answered;
- a start that is refused or lost although the run executes is a failure to a durable workflow and
  a second, local execution to one that is not, and Temporal accepts a start again when the first
  execution has closed;
- a durable run whose start reply is lost, or whose second delivery is refused by Temporal, is
  marked `failed` while Temporal executes it (`ExecutionsAccounted` counts the execution);
- rows committed after one with a higher id are never streamed to a client that was ahead
  (`late` in `EventLog`);
- a slot longer than the idempotency TTL fires once per TTL (`RepeatsAreTtlApart`), and a broken
  trigger silences those listed after it (`SlotsFire`); a single store call that raises ends the
  tick too, and slots shorter than two ticks behind it are missed;
- the handler writes status `running` from its own copy after `start_workflow` has returned, over
  a terminal event ingested in between: a run that is over is `running` for ever, without output
  and error (`LastEventDecides` excepts it, and says that nothing else is);
- the success of a generate pipeline carries no `output` (`workflows.py:811`), so its row has none;
- a node that fails in a local run emits no `node_failed`.

In approvals and pipelines:
- the run has one status for all its gates, though `approval.py:8` allows parallel ones: after a
  first decision the endpoints answer 409 about a second node that is still parked;
- the key of a decision's event, `approval:{run}:{signal}`, does not name the node, so equal
  decisions about two nodes are one event;
- with the default timeouts, 900 s for the run and 72 h for a node, no Approval node ever
  times out by itself (`TimeOut` requires `SignalTimeout < RunTimeout`);
- a generate pipeline started by a SubWorkflow node announces its review on the parent's run, but
  decisions are signalled to the parent's workflow: its own gate only ever times out
  (`Signal` in `ApiGenPipeline`), and its end marks the parent's run as ended;
- the last repair of a bundle is never validated (`Repair`), and since code generation is
  deterministic every repair yields the same bundle and the same idempotency key;
- the validate and deploy workflows never call `complete_run`, so a run the API dispatched to one
  stays `running` (`docs/features/runs.md:21` has every run end); they also expect a dictionary
  where a run's input is a string, so such a run always ends for want of a bundle hash;
- `docs/features/runs.md:27` names the metadata value `generate`, where the code looks for
  `apigen.generate`.

In the workflow of a run and its children:
- a child that executes a stored or inline definition reports under `run_id:node_id`, for which the
  API has no run: every event of it is answered 404 (`main.py:884`), which `publish_event` does not
  look at.  A review in a child is never announced and cannot be decided, although
  `docs/features/runs.md:21` says that an Approval node parks the run (`Publish` in `RunTree`);
- when the graph raises, the statuses it had collected are lost, and no `node_skipped` or
  `node_routed_to_error` is ever told of a failed run; when it returns they are posted after
  `run_succeeded`, while the editor closes its stream at the first poll that finds the run ended
  (`AppShell.jsx:530`);
- the shape the tests use for an inline definition, `{"name", "nodes", "edges"}`, lacks fields that
  `WorkflowDefinition` requires, so a real child refuses it;
- nothing limits a definition that includes itself but the timeout of the outermost run;
- a `complete_run("succeeded")` that times out makes `run_failed` of a graph that succeeded, and
  both events may be in the log (`ReportSuccess`);
- activities that were cancelled with the run, or timed out, go on in their worker and publish, a
  `run_awaiting_review` for one, beside and after `run_failed` (`Late`, `LateEvent`);
- a cancellation that reaches a Wait node or a gate leaves the children beside it executing while
  the run reports its end; Temporal terminates them when it closes (`Interrupted`, `Terminate`).

In node execution:
- an agent that declares the tool `XWSGatewayLLM` can never use it: its route
  `/v1/gateway/complete` is not on the allowlist of the client (`xws/client.py`), though
  `xws_tools.py:3` calls the executors wired end to end;
- a 429 is not retried, though the client's docstring says so;
- a retry of an XWS call may be signed with an expired credential.  The margin is 120 s, and five tries
  of 30 s take up to 123 s before the last; the 30 s are httpx's timeout of each phase, so a try may take longer; and
  what `AssumeRole` returns is used without a look at its `Expiration` (`SignedInTime` excepts
  these three, and says that there is no other);
- an attempt that Temporal has given up on still calls its tools and still reports (`SuccessStands`
  says what it cannot do: take back a success).

In the stores (`src/apps/api/app/store.py`, `main.py`):
- `delete_workflow` counts runs and then deletes; a run created in between loses its workflow
  (`RunHistoryRetained` excepts overlapping requests); in `dual_memory`, where the count is
  taken from memory, a restart is enough: the count is 0 and the rows in SQL go;
- two project runs created at once share `wf_{project}`, and either may run the other's graph
  (`RunsOwnGraph` excepts overlapping requests);
- a cached project outlives `delete_project`, which does not drop the entry although
  `data-model.md:132` says that project mutations do; `ensure_project` then skips its insert, and
  the request ends in a foreign key error;
- the same entry answers a later PATCH of a project created anew, which then writes columns of
  the deleted one over it (`PatchesKept` excepts `dual_sql` after a deletion; the exception was found
  when its proof failed);
- `InMemoryStore.delete_project` leaves the secrets, PostgreSQL cascades to them;
- in dual modes a trigger has a different id in each store, so `DELETE` answers 404 from memory
  while the trigger in SQL stays enabled;
- SQL bumps the version of a workflow when anything in its definition differs, and its metadata, all
  that a caller sends along with it included, is part of the definition; memory bumps it only for nodes and edges
  (`StoresAgree` excepts a workflow that is re-sent with its graph and other metadata, `Relabels`);
- `data-model.md:58` and `api-reference.md:145` say that an upsert keeps the version, which it
  bumps; `data-model.md:154` and `api-reference.md:97` say that there are no DELETE endpoints,
  which there are.

## The proofs

`GraphRunner_proofs` proves, for every finite or infinite set of nodes and edges that satisfies
`GraphAssumption` and `RunnerAssumption` (error edges are edges, malformed predicates sit on data
edges, `NoNode` is not a node):

| theorem | states |
|---|---|
| `TypeCorrect` | `Spec => []TypeOK` |
| `RunsInDependencyOrder` | `Spec => []PredecessorsSettled` |
| `DeliveriesComplete` | `Spec => []NoDeliveryLost` |
| `ErrorRouting` | `Spec => []EdgesFollowOutcome` |
| `ReturnsComplete` | `Spec => []ReturnedMeansSettled` |
| `OrphanFree` | `Spec => []OrphansOnlyAfterBadWhen` |
| `FailureStopsBatches` | `Spec => NoBatchAfterEnd` |
| `KeepsPromise` | `Spec => ImplementsDataflow` |

None of these invariants is inductive.  `NoDeliveryLost`, for one, says that nothing arrives at a
node that has popped; whether that can happen depends on which nodes can still be executing,
hence on the order in which batches were opened.  The inductive invariant `IndInv` adds what the
tasks keep: deliveries lie in the queue of the node their edge enters, and an executing node was fed
or is a root (`DeliveriesInPlace`); a node has a status exactly when its task is over
(`DoneMeansSettled`); only the run's cancellation cancels a task (`CancelledWithRun`); a failed
node's exception has been kept (`FailureRecorded`); nothing is scheduled before the sort, and what
is scheduled afterwards is acyclic (`SortedFirst`); a run that ended left no task behind save the
orphans of a malformed predicate (`EndedQuietly`).  The step proof has
one case per action; the theorems follow from `IndInv`, and `KeepsPromise` maps each action to a
`Settle` of `Dataflow` or a stutter.  `NextBatch` and `Acyclic` enter by their definitions only: a
node is batched when all its predecessors are.

It also proves about `GraphOrder`, from `OrderAssumption` (finitely many edges; the document lists
every node and every edge once), for any graph, parallel edges and self loops included, and any
order of the document:

| theorem | states |
|---|---|
| `LoopsAreLevels` | `Spec => []LoopsComputeLevels` |

So what `GraphRunner` takes from `NextBatch` and `Acyclic` is what the two loops of `graph.py`
compute.  The state of a loop is told by the set D of nodes it has popped: the count of a node is
the number of its edges that do not leave D (`Rest`), so what has been released is what is
fed by D alone (`Fed`).  `RelaxFacts` follows the edges of one node; `Sorting` is the invariant of
`topo_sort`, and `PopStep` its turn.  When the queue is empty, D is all it feeds: nodes left over
wait for each other, and the order of D is a proof that its nodes do not (`CompleteIfAcyclic`).
`execution_batches` does the same a level at a time: `LevelStep` says that the nodes of a level are
turns of `topo_sort` (`Partway`), so after a level the sort has popped it and its queue is the next
one (`LevelIsPopped`), which is `NextBatch`; `Scheduling` collects this over the levels.

These proofs need induction over the turns of a loop, and the theorems of induction in the library take
an operator, which no prover here can supply.  They are done with sets: that less-than on the
naturals is well-founded gives every nonempty set of naturals a least element (`Least`), and so a
set that has 0 and steps by one has every number up to a bound (`UpTo`).  A recursive function is, to the
prover, some function that satisfies its equation: `Iterates` builds the run of a
loop, which does, and `OneRun` shows that it is the only one.

`RunCreation_proofs` proves, from `CreationAssumption` and so for any finite set of requests and
any bounds on crashes, losses, expiries and calls that raise:

| theorem | states |
|---|---|
| `CreationTypes` | `Spec => []TypeOK` |
| `OneRunPerKey` | `Spec => []SameRunReturned` |
| `NothingForgotten` | `Spec => []QueuedIsUnderWay` |
| `ExecutionsBounded` | `Spec => []ExecutionsAccounted` |

`SameRunReturned` compares answers, but what keeps them equal is where they come from: until it
expires, the key names the run of every keyed handler that holds one (`KeyNamesRun`), and handlers
hold runs from `create_run` on (`Placed`).  `QueuedIsUnderWay` follows a run from the transaction that
inserted it and says what holds on to it (`Held`): an execution, that request on its way to the start, or
the local task it left; what lets go of a queued run is a call that raises or a crash (`Unforgotten`).  `ExecutionsAccounted` counts handlers that came out of
`create_run`; it is inductive only in the sharper form `ExecutionsSpent`, which charges an execution,
or a spawned task that has not begun, to a handler that is past its start, be it that it raised or died there (`Spent`).  The counting rests on
`FiniteSetTheorems`.

It also proves about `TriggerScheduler`, from `SchedulerAssumption`, for any processes, triggers,
intervals of two units or more, TTL, length of ticks, operator actions and calls that raise:

| theorem | states |
|---|---|
| `SchedulerTypes` | `SchedulerSpec => []SchedulerTypeOK` |
| `RepeatsApart` | `SchedulerSpec => []RepeatsAreTtlApart` |
| `NoSlotMissed` | `SchedulerSpec => []SlotsFire` |

Repeats are a TTL apart because the key of a slot expires a TTL after the slot's last run
(`KeysLastATtl`), however many ticks look at it in between.  `SlotsFire` speaks of slots that are over,
but a slot is fired by whichever tick begins in it, so the invariant speaks of ticks: no loop
oversleeps (`OnTime`), and a loop that sleeps leaves no slot unfired that will be over when it wakes,
one that ticks none that was over when it began, nor, once it is done with the trigger, the slot
it began in (`CaughtUp`).  A tick that raised has looked at none of the slots it left, so the promise is
given to slots in which a tick more begins than there were raising calls (`Reach`).

`GraphRunner_proofs` also proves about `ApiGenPipeline`, from `PipelineAssumption`, for any numbers
of rounds and losses:

| theorem | states |
|---|---|
| `PipelineTypes` | `PipelineSpec => []PipelineTypeOK` |
| `DeployedOnlyAsCleared` | `PipelineSpec => []DeployedAsCleared` |
| `OutcomeTellsDeployment` | `PipelineSpec => []OutcomeMatchesDeployment` |

The invariant adds what each stage takes as settled by the ones before it (`Cleared`), that a
deployment is followed by nothing but its report (`StagesOfGenerate`), and that the status being
reported fits the deployment unless a reply was lost (`ReportMatches`).

`RunRecord_proofs` proves, for any scripts, any number of posts, failures and calls that raise:

| theorem | states |
|---|---|
| `RecordTypes` | `Spec => []TypeOK` |
| `RecordsKept` | `Spec => []RecordsConsistent` |
| `WorkerDecides` | `Spec => []LastEventDecides` |

A handler writes back a copy it may have read long before, so what makes a row consistent is that
every place a record can be in is: copies, cache entry and row (`AllConsistent`), each measured against the log,
where a success with that output, or a failure, is found.  That the last event
decides rests on the worker posting one event at a time (`OneAtATime`): while none was given up on,
at most one ingestion is under way, and the row holds what the last event that can be written made of it
(`LastWritten`, `Newest`), or, as long as there is none, what the handler confirmed.  A write that raises
for the output leaves the row to the event before it, which is why `Newest` skips it.

It also proves about `RunTree`, from `TreeAssumption` (documents have node ids that are not empty,
and hold the inline definitions they use), for any documents, depth and number of lost posts:

| theorem | states |
|---|---|
| `EndsAreTold` | `TreeSpec => []OutcomeTold` |

`TreeInv` is inductive.  `TreeTypes` adds that executions form a tree: with a path come its
ancestors.  `Awaited` says that an execution which is not closed has a node of its parent waiting for it, so
one that has no node under way has only closed children.  An interruption breaks that: an execution
that is interrupted at a Wait node or a gate, cancelled or terminated ends while children go on.  `Closing` says that nothing else does:
between an execution that reports and one below it that is not closed is one that has left its
children (`Parted`), which it can only do interrupted, cancelled or terminated (`Leaves`), and the
run itself, which has no parent, is never cancelled or terminated (`Free`).  What an execution
keeps about itself is `Coherent`: that it reports with no node under way or left its children, that a success
was returned, and that a refused document never started a node.

`Tells` is about the log, in three parts.  `AllTrue`: of what was logged, and of what workers given
up on may still post (`adrift`), nothing is untrue of how the run and its nodes ended; those workers hold only events that
say nothing of it (`CalmEvents`).  `EndSaid`: unless a post was lost, there is one report of the run's end once it has
reported, and none before.  `NodesSaid`: every node that was skipped or routed is told of once the run is
closed, since `record_node_statuses` goes through an enumeration of them (`OrdersCover`, by
`FiniteSetTheorems`).  A step changes one execution (`Evolves`) and at most adds an event that says nothing
of the ends (`Calm`), save the start of a child, the three reports of the run, and late events, which
change no execution.

`Stores_proofs` proves, from `StoreAssumption`, for any scripts, graphs and persistence modes, any
number of requests in progress, failing statements and restarts:

| theorem | states |
|---|---|
| `StoreTypes` | `Spec => []TypeOK` |
| `NothingOutlivesItsProject` | `Spec => []OwnedFollowsOwner` |
| `RunsAreKept` | `Spec => RunHistoryRetained` |
| `VersionsAreDefinitions` | `Spec => []VersionNamesDefinition` |
| `RunsTheGraphSent` | `Spec => []RunsOwnGraph` |
| `ArchivedStaysIdle` | `Spec => []ArchivedTakesNoRuns` |
| `PatchesStand` | `Spec => []PatchesKept` |
| `StoresStayInStep` | `Spec => []StoresAgree` |

What a handler may do next depends on what it has done, which is gone from the state; what it has
still to do, `plan[i]`, is there.  So the invariants are statements about plans: that the plans of
a request are what is left of the few it may be given (`Handlers`), in which a later statement comes
after an earlier one (`Preceded`), and that a fact which a statement establishes holds of every
plan in which the later one is no longer preceded by it.  `StoreTypes` needs this already: that no
row is made of a project or workflow which its handler has not found (`HasRead`, `HasLoaded`).
`Counted` says so of a deletion that has counted no runs: it overlaps every request whose run has
come since.  `Versions` compares the runs there are, and those that handlers are about to make of a
workflow they have loaded (`Claims`), with the workflow as it is (`Current`) and with each other;
`OwnGraphs` says whose graph a project run has found.  `ArchiveHolds` says that after the stamp of an
archive the reader's workflow is archived, and that no handler which arrived since has loaded it.
`PatchesLast` follows a PATCH through the row, the cache entry and what later handlers have read of
either, for one that overlaps nothing; it rests on no cache entry outliving its row, which holds while no project was
deleted (`CacheHonest`).  One lemma per table operation says which part of a database it leaves
alone (`ProjectTablesKeepRuns`, `SqlProject`), and `StepCases` says what kinds of step there are.

`StoresStayInStep` asks more of the plans.  `Ordered`: a plan of the dual mode is the rest of the one
its handler was given, so its first statement says all that is still to come.  `InStep`: while nothing
disturbs the stores, at most one request is at work; `Half` says by its plan how far that one has
taken a store ahead of the other, down to the row the second is still to be given; and what the
cache or the request has read of a project is what SQL holds (`CacheCurrent`, `SeenCurrent`).  Between requests
nothing is due, so the stores agree (`Agree`).  Each statement either keeps `Half` for the rest of
the plan or, where it ends the request early, must leave the stores equal: that is the point of the
theorem, and why the conditions of `disturbed` are what they are: `Relabels`, new metadata with
the old graph, was found to be one of them since SQL and memory count it differently.

`EventLog_proofs` proves, for any clients, page size and number of lost connections:

| theorem | states |
|---|---|
| `LogTypes` | `Spec => []TypeOK` |
| `KeysNameOneRow` | `Spec => []KeyedOnce` |
| `FramesInOrder` | `Spec => []ReceivedInOrder` |
| `NoFrameSkipped` | `Spec => []NothingPassedOver` |

`RowsKept` says which rows the appends hold; `Frames`, that what a client has, then its page,
ascend and end at its cursor; `Complete`, that up to the cursor nothing committed in order is missing.  The
last is kept by two facts: the first n rows above a cursor pass over no visible row, and a row that
is committed in order has an id above all visible ones, hence above every cursor.

`ApprovalGate_proofs` proves, for any finite set of nodes, any calls and timeouts:

| theorem | states |
|---|---|
| `GateTypes` | `Spec => []TypeOK` |
| `NoDecisionLost` | `Spec => []DecisionsArrive` |
| `GateKeepsPromise` | `Spec => KeepsDecision` |

`DecidedOnce` ties a gate's outcome to its task and `Signalled` a call to the gate it signalled.  How
many decisions the log may lack is a count (`Missing`): a failed publish adds one node to it and
one to the failures.  `GateKeepsPromise` is a refinement: a signal is an `Offer` of `ReviewDecision`, the
end of a wait its `Decide` or `Expire`, everything else stutters.

`LocalRun_proofs` proves, for any nodes, handlers of failures and number of raising store calls:

| theorem | states |
|---|---|
| `LocalTypes` | `Spec => []TypeOK` |
| `LocalReportsAgree` | `Spec => []ReportsAgree` |
| `LocalWorkOnce` | `Spec => []RepeatedOnlyByFaults` |

`Reported` says what row and log hold at each await of the task, which differs by whether the write
before it raised; `Worked` charges each repeated dispatch to a fault.

`NodeExecution_proofs` proves, for any nodes, chains of models, budgets and times:

| theorem | states |
|---|---|
| `ExecutionTypes` | `Spec => []TypeOK` |
| `OnlyAllowedEffects` | `Spec => []EffectsAllowed` |
| `BudgetOvershoot` | `Spec => []BudgetKept` |
| `SuccessIsFinal` | `Spec => []SuccessStands` |
| `RetriesAreSigned` | `Spec => []SignedInTime` |

`Allowed` follows a call from the model's wish to the service; `Counted` bounds the tokens used by
where the loop is, since the cap is looked at only before a call; `Final` says what is known of
a success at each place it passes through.  `RetriesAreSigned` is about numbers, a sum of backoffs
against a margin: it takes them from `MarginAssumption`, which says that the margin outlasts every
retry but the last if each try takes the timeout once (in the code, three tries of 30 s with backoffs of up to 0.8 s
precede the fourth of five; the margin is 120 s).  `SignedLasts` says that such a try costs a credential no
more than the slowest of them.  It is not assumed that tries are like that: one that takes longer, or a credential
vended for less than the margin, sets `beyond`, and the theorem is about calls that met neither.

Only model-checked: liveness (`Terminates`, `CacheConverges`, `ReviewEnds`, `EventsArrive`,
`LocalRunEnds`, `PipelineEnds`, `NodeEnds`, `TreeEnds`), which is out of the prover's reach.
Every safety property of a passing run is also proved.

## Not modelled, and the plan

In this order:
1. **The editor's connection rules** against what the engine accepts.
2. **Trigger rows that change while a tick is under way**: a composition of `TriggerScheduler` with
   `Stores`.

Left out for good: authentication and signatures (pure checks over bytes), configuration,
metrics, users, catalog and type declarations, executors that only call a service and format its
answer, DDL and migrations (the constraints they declare are in `StoreTables`, `RunCreation` and
`EventLog`), rendering, the evaluation tools, deployment files and the legacy
prototype under `migrations/`.
