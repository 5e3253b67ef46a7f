---------------------------- MODULE NodeExecution ----------------------------
(***************************************************************************)
(* One node as the activity xflows.execute_node: what Temporal makes of    *)
(* its attempts (apps/workers/app/workflows.py), the attempt in the worker *)
(* (activities.py), the executor it dispatches to (agent_loop.py, llm.py   *)
(* and xws_tools.py of the engine), the model router (provider_router.py), *)
(* and the XWS client with its vended credentials (xws/client.py, creds.py)*)
(*                                                                         *)
(* An activity has a schedule-to-close timeout and no heartbeat: the next  *)
(* attempt starts only when the last has raised, and a worker whose        *)
(* attempt has timed out, or has died, is not told and not missed.         *)
(*                                                                         *)
(* Times are tenths of a second.  Only differences count: of a credential  *)
(* the time it has left.                                                   *)
(***************************************************************************)
EXTENDS Integers, Sequences, SequencesExt

CONSTANTS
    Nodes,          \* the nodes to execute, see NodeRecords
    Chains,         \* model hint, project model and fallbacks, in this order
    MaxAttempts,    \* retry.attempts
    MaxIterations,  \* maxIterations of the agent loop
    TokenCap,       \* its tokenCap
    CallTokens,     \* tokens one LLM answer may report
    ChatTime,       \* what an LLM call may take
    CallTime,       \* the client's timeout, of each phase of a try
    TryTimes,       \* what a try may take
    Margin,         \* _EXPIRY_MARGIN_S
    Sessions,       \* what vended credentials may have left
    Tries,          \* attempts of ExponentialRetry
    StartLeft       \* what the credentials of the run may have left at first

VARIABLES
    node,      \* the node
    models,    \* the candidate models of its LLM calls
    ready,     \* whether XWS is configured
    state,     \* the activity, as the workflow sees it
    attempt,   \* attempts started
    pc,        \* where the worker is in the attempt
    iter, used, late,   \* agent loop: iteration, tokens_used, deadline passed
    repair,    \* LLM executors: repair_attempts
    rest,      \* candidate models not yet asked
    call,      \* the tool call: tool and toolClass
    try,       \* attempt of XWSClient.request
    signed,    \* what the credentials of the call have left
    beyond,    \* auxiliary: whether the call has met what the margin is not made for
    left,      \* the same of the credentials cached for each toolClass
    reached,   \* auxiliary: services that have done something for the node
    answered,  \* auxiliary: whether the client has read that one of them did
    log        \* attempts with a node_succeeded in the log of the run

vars == <<node, models, ready, state, attempt, pc, iter, used, late, repair, rest, call,
          try, signed, beyond, left, reached, answered, log>>
worker  == <<iter, used, late, repair, rest, call, try, signed, beyond, left>>
history == <<reached, answered, log>>
setting == <<node, models, ready>>

-----------------------------------------------------------------------------
(* TOOL_CLASS_ROUTES, with the path prefixes reduced to the service. *)
TOOL_CLASS_ROUTES ==
    {<<"s3", "s3">>, <<"lambda", "lambda">>, <<"iam", "iam">>, <<"relay", "relay">>,
     <<"audit", "events">>, <<"dms-ro", "dms">>, <<"apigw", "apigw">>, <<"llm", "llm">>}

Classes == {r[1] : r \in TOOL_CLASS_ROUTES}

(* What the executors in xws_tools.py call, and whether they let the       *)
(* client retry and treat a failure as a result.                           *)
ToolTable ==
    {[tool |-> "XWSS3", class |-> "s3", service |-> "s3", retry |-> TRUE, parks |-> FALSE],
     [tool |-> "XWSLambdaInvoke", class |-> "lambda", service |-> "lambda",
      retry |-> FALSE, parks |-> FALSE],
     [tool |-> "XWSIAMEvaluate", class |-> "iam", service |-> "iam",
      retry |-> FALSE, parks |-> FALSE],
     [tool |-> "XWSRelayNotify", class |-> "relay", service |-> "relay",
      retry |-> FALSE, parks |-> TRUE],
     [tool |-> "XWSGatewayLLM", class |-> "llm", service |-> "gateway",
      retry |-> TRUE, parks |-> FALSE],
     [tool |-> "XWSAudit", class |-> "audit", service |-> "events",
      retry |-> FALSE, parks |-> FALSE]}

Tools    == {t.tool : t \in ToolTable}
Tool(t)  == CHOOSE x \in ToolTable : x.tool = t
Services == {t.service : t \in ToolTable}

InertTools == {"XWSDmsIntrospect", "XWSApigwRegister"}   \* not implemented in v1
LoopTools  == {"XWSS3", "XWSLambdaInvoke", "XWSIAMEvaluate", "XWSRelayNotify"}

(* allow: the allowlist of an agent, the toolClass of a tool node.  schema *)
(* and repairs: outputSchema, strictSchema and maxRepairAttempts.          *)
NodeRecords == [kind : {"AgentLoop", "LLM"} \cup Tools \cup InertTools,
                allow : SUBSET Classes,
                schema : {"none", "strict", "lenient"},
                repairs : 0 .. 5]

ASSUME NodeAssumption ==
    /\ Nodes \subseteq NodeRecords
    /\ \A n \in Nodes : n.kind \in Tools => \E c \in Classes : n.allow = {c}
    /\ MaxAttempts \in Nat \ {0} /\ MaxIterations \in Nat \ {0} /\ TokenCap \in Nat \ {0}
    /\ CallTokens \subseteq Nat /\ CallTokens # {}
    /\ {ChatTime, CallTime, Margin} \cup TryTimes \cup Sessions \subseteq Nat
    /\ Tries \in Nat \ {0}
    /\ StartLeft \subseteq Nat

(* _candidate_models: each model once, at its first place. *)
Candidates(chain) ==
    FoldLeft(LAMBDA unique, m : IF Contains(unique, m) THEN unique ELSE Append(unique, m),
             <<>>, chain)

(* Mutant: any class the client knows will do.                             *)
KnowsClass(class, service) == class \in Classes

check_allowlist(class, service) == <<class, service>> \in TOOL_CLASS_ROUTES

backoff_seconds(k) == 2 * 2 ^ (k - 1)

(* The margin, 120 s, outlasts every retry of a call but the last, of      *)
(* tries that take the timeout once.                                       *)
ASSUME MarginAssumption ==
    \E slowest \in 0 .. Margin :
        /\ \A k \in 1 .. Tries - 2 : CallTime + backoff_seconds(k) <= slowest
        /\ (Tries - 2) * slowest <= Margin

NoCall   == [tool |-> "none", class |-> "none"]
Expired  == [c \in Classes |-> 0]

TypeOK ==
    /\ node \in Nodes /\ ready \in BOOLEAN
    /\ models \in {Candidates(c) : c \in Chains}
    /\ state \in {"open", "succeeded", "failed", "timed_out"}
    /\ attempt \in 0 .. MaxAttempts
    /\ pc \in {"idle", "begin", "check", "ask", "reply", "request", "send", "report",
               "return", "fail", "raise", "done"}
    /\ iter \in 0 .. MaxIterations
    /\ used \in Nat /\ late \in BOOLEAN
    /\ repair \in 0 .. node.repairs
    /\ call \in [tool : Tools, class : Classes] \cup {NoCall}
    /\ try \in 0 .. Tries
    /\ signed \in Int /\ beyond \in BOOLEAN
    /\ left \in [Classes -> Nat]
    /\ reached \subseteq Services
    /\ answered \in BOOLEAN
    /\ log \subseteq 1 .. MaxAttempts

Init ==
    /\ node \in Nodes
    /\ \E c \in Chains : models = Candidates(c)
    /\ ready \in BOOLEAN
    /\ state = "open"
    /\ attempt = 0
    /\ pc = "idle"
    /\ iter = 0 /\ used = 0 /\ late = FALSE /\ repair = 0
    /\ rest = <<>>
    /\ call = NoCall
    /\ try = 0
    /\ signed = 0 /\ beyond = FALSE
    /\ \E l \in StartLeft : left = [c \in Classes |-> IF c \in node.allow THEN l ELSE 0]
    /\ reached = {}
    /\ answered = FALSE
    /\ log = {}

-----------------------------------------------------------------------------
(* Credentials about to expire are as good as none, so the time they have  *)
(* left is not followed below the margin.                                  *)
Age(t) == left' = [c \in Classes |-> IF left[c] - t > Margin THEN left[c] - t ELSE 0]

(* The deadline of the agent loop may pass in any call that takes time. *)
Elapse(t) == Age(t) /\ late' \in {late, t > 0 /\ node.kind = "AgentLoop"}

GoTo(p) == pc' = p

(* publish_event: best effort, a post that fails is only logged.  Of the   *)
(* events of the node, node_succeeded is kept.                             *)
publish_event == log' \in {log, log \cup {attempt}}

(* Temporal hands the activity to a worker, at first or after a failure.   *)
Start ==
    /\ state = "open"
    /\ pc = "idle"
    /\ attempt < MaxAttempts
    /\ attempt' = attempt + 1
    /\ GoTo("begin")
    /\ UNCHANGED <<setting, state, worker, history>>

(* build_xws_client: the run keeps its client, and with it credentials,   *)
(* unless other runs have filled the cache meanwhile.                      *)
build_xws_client == left' \in {left, Expired}

(* execute_node up to the first call of the executor, which raises if an   *)
(* argument is missing or there is no client.                              *)
Begin ==
    /\ pc = "begin"
    /\ build_xws_client
    /\ \/ node.kind = "LLM" /\ GoTo("ask") /\ rest' = models /\ UNCHANGED call
       \/ /\ node.kind = "AgentLoop"
          /\ GoTo(IF ready THEN "check" ELSE "fail")
          /\ UNCHANGED <<rest, call>>
       \/ /\ node.kind \in Tools /\ ready
          /\ GoTo("request")
          /\ \E c \in node.allow : call' = [tool |-> node.kind, class |-> c]
          /\ UNCHANGED rest
       \/ node.kind \in Tools \cup InertTools /\ GoTo("fail") /\ UNCHANGED <<rest, call>>
    /\ UNCHANGED <<setting, state, attempt, iter, used, late, repair, try, signed, beyond, history>>

-----------------------------------------------------------------------------
(* AgentLoopExecutor. *)

(* Mutant: one call too many at the cap.                                   *)
CheckOver ==
    /\ pc = "check"
    /\ IF iter = MaxIterations \/ late \/ used > TokenCap
       THEN GoTo("report") /\ UNCHANGED <<iter, rest>>
       ELSE GoTo("ask") /\ iter' = iter + 1 /\ rest' = models
    /\ UNCHANGED <<setting, state, attempt, used, late, repair, call, try, signed, beyond, left,
                   history>>

(* Mutant: tool calls do not count as iterations.                          *)
CheckEndless ==
    /\ pc = "check"
    /\ IF late \/ used >= TokenCap
       THEN GoTo("report") /\ UNCHANGED <<iter, rest>>
       ELSE GoTo("ask") /\ iter' = 1 /\ rest' = models
    /\ UNCHANGED <<setting, state, attempt, used, late, repair, call, try, signed, beyond, left,
                   history>>

(* The next iteration, or the end of the loop, which the node survives.    *)
Check ==
    /\ pc = "check"
    /\ IF iter = MaxIterations \/ late \/ used >= TokenCap
       THEN GoTo("report") /\ UNCHANGED <<iter, rest>>
       ELSE GoTo("ask") /\ iter' = iter + 1 /\ rest' = models
    /\ UNCHANGED <<setting, state, attempt, used, late, repair, call, try, signed, beyond, left,
                   history>>

(* The envelope is final, or not one: the loop ends. *)
Conclude ==
    /\ pc = "reply" /\ node.kind = "AgentLoop"
    /\ GoTo("report")
    /\ UNCHANGED <<setting, state, attempt, worker, history>>

(* It names a tool and a toolClass, each as the model pleases.  What is    *)
(* not allowed, unknown or incomplete is an observation.                   *)
UseTool(tool, class) ==
    /\ pc = "reply" /\ node.kind = "AgentLoop"
    /\ \/ GoTo("check") /\ UNCHANGED call
       \/ /\ class \in node.allow /\ tool \in LoopTools
          /\ GoTo("request")
          /\ call' = [tool |-> tool, class |-> class]
    /\ UNCHANGED <<setting, state, attempt, iter, used, late, repair, rest, try, signed, beyond,
                   left, history>>

-----------------------------------------------------------------------------
(* LiteLLMRouter.chat: the candidates in order, until one answers.         *)

Answered ==
    /\ pc = "ask" /\ rest # <<>>
    /\ GoTo("reply")
    /\ \E t \in CallTokens : used' = IF node.kind = "AgentLoop" THEN used + t ELSE used
    /\ rest' = <<>>
    /\ \E t \in {0, ChatTime} : Elapse(t)
    /\ UNCHANGED <<setting, state, attempt, iter, repair, call, try, signed, beyond, history>>

NotAnswered ==
    /\ pc = "ask" /\ rest # <<>>
    /\ rest' = Tail(rest)
    /\ \E t \in {0, ChatTime} : Elapse(t)
    /\ UNCHANGED <<setting, state, attempt, pc, iter, used, repair, call, try, signed, beyond,
                   history>>

RoutingFailed ==
    /\ pc = "ask" /\ rest = <<>>
    /\ GoTo("fail")
    /\ UNCHANGED <<setting, state, attempt, worker, history>>

(* _chat_with_schema: an answer that does not fit the schema is repaired,  *)
(* fails the node, or is returned as it is.                                *)
Validate ==
    /\ pc = "reply" /\ node.kind = "LLM"
    /\ \/ GoTo("report") /\ UNCHANGED <<repair, rest>>
       \/ node.schema = "strict" /\ repair < node.repairs
          /\ GoTo("ask") /\ repair' = repair + 1 /\ rest' = models
       \/ node.schema = "strict" /\ repair = node.repairs
          /\ GoTo("fail") /\ UNCHANGED <<repair, rest>>
    /\ UNCHANGED <<setting, state, attempt, iter, used, late, call, try, signed, beyond, left,
                   history>>

-----------------------------------------------------------------------------
(* XWSClient.request. *)

(* An agent observes the failure of a call. *)
AfterCall(ok) ==
    /\ GoTo(IF node.kind = "AgentLoop" THEN "check"
            ELSE IF ok \/ Tool(node.kind).parks THEN "report" ELSE "fail")
    /\ call' = NoCall /\ try' = 0 /\ signed' = 0 /\ beyond' = FALSE

(* Mutant: credentials are used until they expire.                         *)
FreshEnough(class) == left[class] > 0

Fresh(class) == left[class] > Margin

(* _assume_role: the credentials of a class last for what iam-svc grants,  *)
(* which is not compared with the margin.                                  *)
Vend(class) ==
    \E granted \in Sessions :
        /\ left' = [left EXCEPT ![class] = granted]
        /\ beyond' = (granted <= Margin)

(* get_credentials: cached, or vended. *)
Request ==
    /\ pc = "request"
    /\ \/ /\ check_allowlist(call.class, Tool(call.tool).service)
          /\ \/ Fresh(call.class) /\ UNCHANGED <<left, beyond>>
             \/ ~Fresh(call.class) /\ Vend(call.class)
          /\ signed' = left'[call.class]
          /\ try' = 1
          /\ GoTo("send")
          /\ UNCHANGED call
       \/ /\ \/ ~check_allowlist(call.class, Tool(call.tool).service)
             \/ ~Fresh(call.class)       \* AssumeRole has failed
          /\ AfterCall(FALSE)
          /\ UNCHANGED left
    /\ UNCHANGED <<setting, state, attempt, iter, used, late, repair, rest, history>>

Reach == reached' = reached \cup {Tool(call.tool).service}

(* The service carries the call out and says so. *)
Carried ==
    /\ pc = "send" /\ signed > 0
    /\ Reach
    /\ answered' = TRUE
    /\ AfterCall(TRUE)
    /\ \E t \in TryTimes : Elapse(t)
    /\ UNCHANGED <<setting, state, attempt, iter, used, repair, rest, log>>

(* It refuses the call (4xx), as it does one that is signed too late, or   *)
(* carries it out with an answer the client cannot read.                   *)
Rejected ==
    /\ pc = "send"
    /\ UNCHANGED reached \/ (signed > 0 /\ Reach)
    /\ AfterCall(FALSE)
    /\ \E t \in TryTimes : Elapse(t)
    /\ UNCHANGED <<setting, state, attempt, iter, used, repair, rest, answered, log>>

(* 5xx or no answer: the call may have been carried out or not.  With      *)
(* retry it is signed and sent again, with the same credentials.  A try    *)
(* may take the timeout to connect, to write and for each read.            *)
Lost ==
    /\ pc = "send"
    /\ UNCHANGED reached \/ (signed > 0 /\ Reach)
    /\ \E t \in TryTimes :
           IF Tool(call.tool).retry /\ try < Tries
           THEN /\ try' = try + 1
                /\ signed' = signed - t - backoff_seconds(try)
                /\ beyond' = (beyond \/ t > CallTime)
                /\ Elapse(t + backoff_seconds(try))
                /\ UNCHANGED <<pc, call>>
           ELSE AfterCall(FALSE) /\ Elapse(t)
    /\ UNCHANGED <<setting, state, attempt, iter, used, repair, rest, answered, log>>

-----------------------------------------------------------------------------
(* The end of execute_node, and what Temporal makes of it. *)

(* What the attempt kept in local variables is gone. *)
Forget ==
    /\ iter' = 0 /\ used' = 0 /\ late' = FALSE /\ repair' = 0
    /\ rest' = <<>> /\ call' = NoCall /\ try' = 0 /\ signed' = 0 /\ beyond' = FALSE

(* Mutant: publish_event raises when it cannot tell.                       *)
ReportOrRaise ==
    /\ pc = "report"
    /\ publish_event
    /\ pc' \in {"return", "fail"}
    /\ UNCHANGED <<setting, state, attempt, worker, reached, answered>>

Report ==
    /\ pc = "report"
    /\ publish_event
    /\ GoTo("return")
    /\ UNCHANGED <<setting, state, attempt, worker, reached, answered>>

Return ==
    /\ pc = "return"
    /\ state' = IF state = "open" THEN "succeeded" ELSE state
    /\ GoTo("done")
    /\ Forget
    /\ UNCHANGED <<setting, attempt, left, history>>

Fail ==
    /\ pc = "fail"
    /\ GoTo("raise")
    /\ UNCHANGED <<setting, state, attempt, worker, history>>

Raise ==
    /\ pc = "raise"
    /\ IF state = "open" /\ attempt < MaxAttempts
       THEN GoTo("idle") /\ UNCHANGED state
       ELSE GoTo("done") /\ state' = IF state = "open" THEN "failed" ELSE state
    /\ Forget
    /\ UNCHANGED <<setting, attempt, left, history>>

(* schedule_to_close_timeout: the worker goes on. *)
TimeOut ==
    /\ state = "open"
    /\ state' = "timed_out"
    /\ GoTo(IF pc = "idle" THEN "done" ELSE pc)
    /\ UNCHANGED <<setting, attempt, worker, history>>

(* The worker dies, unnoticed. *)
Crash ==
    /\ pc \notin {"idle", "done"}
    /\ GoTo("done")
    /\ Forget
    /\ left' = Expired
    /\ UNCHANGED <<setting, state, attempt, history>>

AgentStep  == Check \/ Conclude \/ \E t \in Tools, c \in Classes : UseTool(t, c)
ChatStep   == Answered \/ NotAnswered \/ RoutingFailed \/ Validate
ClientStep == Request \/ Carried \/ Rejected \/ Lost
EndStep    == Report \/ Return \/ Fail \/ Raise
WorkerStep == Begin \/ AgentStep \/ ChatStep \/ ClientStep \/ EndStep

Next == Start \/ WorkerStep \/ TimeOut \/ Crash

(* Workers run what they have taken and Temporal's timers fire. *)
Spec == Init /\ [][Next]_vars /\ WF_vars(Start) /\ WF_vars(WorkerStep) /\ WF_vars(TimeOut)

-----------------------------------------------------------------------------
(* A node reaches only services of the classes it declares, although the   *)
(* model names tool and class of each call as it pleases: the loop checks  *)
(* the class against the allowlist, the client the path against the class. *)
EffectsAllowed ==
    \A s \in reached : \E c \in node.allow : <<c, s>> \in TOOL_CLASS_ROUTES

(* An attempt of an agent overshoots its token cap by less than one answer.*)
BudgetKept == \A most \in CallTokens :
    (\A t \in CallTokens : t <= most) => used <= TokenCap - 1 + most

(* The margin covers every retry but the last: an earlier try of a call is *)
(* signed with credentials that have expired only if iam-svc granted fewer *)
(* seconds than the margin, or if a try took longer than one timeout.      *)
SignedInTime == pc = "send" /\ try < Tries => signed > 0 \/ beyond

(* A success that is known stands.  A tool node has its call carried out   *)
(* again only if it could not read the answer: once it has read it, its    *)
(* attempt only reports, whatever becomes of the report, and no other      *)
(* follows.  Nor has a node failed which the log calls succeeded.          *)
SuccessStands ==
    /\ answered /\ node.kind \in Tools =>
           pc \in {"report", "return", "done"} /\ state # "failed"
    /\ \A k \in log : k = attempt /\ state # "failed"

(* The workflow hears of every node, also when its worker has died, and    *)
(* the worker comes to rest, also when the model reports no usage.         *)
NodeEnds == <>[](state # "open" /\ pc = "done")
=============================================================================
