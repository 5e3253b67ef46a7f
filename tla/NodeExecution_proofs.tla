------------------------ MODULE NodeExecution_proofs ------------------------
(***************************************************************************)
(* Proofs about NodeExecution, for any nodes, models, limits and times.    *)
(***************************************************************************)
EXTENDS NodeExecution, TLAPS

Loop == node.kind = "AgentLoop"

(* A call that is under way has passed the allowlists. *)
Allowed ==
    /\ pc \in {"request", "send"} =>
           call \in [tool : Tools, class : Classes] /\ call.class \in node.allow
    /\ pc = "send" => check_allowlist(call.class, Tool(call.tool).service)
    /\ EffectsAllowed

(* The model is only asked below the cap. *)
Counted ==
    /\ pc \in {"idle", "begin", "done"} \/ ~Loop => used = 0
    /\ pc = "ask" => used < TokenCap
    /\ BudgetKept

(* What has been reported or read is the last thing that happens. *)
Final ==
    /\ pc \notin {"idle", "done"} => attempt >= 1
    /\ log \subseteq {attempt}
    /\ log # {} => pc \in {"return", "done"}
    /\ state = "failed" => pc = "done" /\ log = {}
    /\ answered /\ node.kind \in Tools =>
           pc \in {"report", "return", "done"} /\ state # "failed"

IndInv == TypeOK /\ Allowed /\ Counted /\ Final

-----------------------------------------------------------------------------
LEMMA KindFacts ==
    /\ Tools = {"XWSS3", "XWSLambdaInvoke", "XWSIAMEvaluate", "XWSRelayNotify",
                "XWSGatewayLLM", "XWSAudit"}
    /\ LoopTools \subseteq Tools
    /\ "AgentLoop" \notin Tools /\ "LLM" \notin Tools
    /\ \A t \in Tools : Tool(t) \in ToolTable /\ Tool(t).service \in Services
  <1>1. /\ Tools = {"XWSS3", "XWSLambdaInvoke", "XWSIAMEvaluate", "XWSRelayNotify",
                    "XWSGatewayLLM", "XWSAudit"}
        /\ LoopTools \subseteq Tools
    BY DEF Tools, ToolTable, LoopTools
  <1>2. ASSUME NEW t \in Tools PROVE Tool(t) \in ToolTable
    <2>1. \E x \in ToolTable : x.tool = t BY DEF Tools
    <2> QED BY <2>1 DEF Tool
  <1>3. ASSUME NEW t \in Tools PROVE Tool(t).service \in Services BY <1>2 DEF Services
  <1> QED BY <1>1, <1>2, <1>3

LEMMA NodeFacts ==
    ASSUME TypeOK
    PROVE  node \in NodeRecords /\ node.allow \subseteq Classes /\ node.repairs \in Nat
  BY NodeAssumption DEF TypeOK, NodeAssumption, NodeRecords

LEMMA ConstantFacts ==
    /\ MaxAttempts \in Nat /\ MaxIterations \in Nat /\ TokenCap \in Nat /\ TokenCap >= 1
    /\ CallTokens \subseteq Nat
    /\ ChatTime \in Nat /\ CallTime \in Nat /\ Margin \in Nat
    /\ TryTimes \subseteq Nat /\ Sessions \subseteq Nat
    /\ Tries \in Nat /\ Tries >= 1
    /\ StartLeft \subseteq Nat
  BY NodeAssumption DEF NodeAssumption

LEMMA BackoffType == \A k \in 1 .. Tries : backoff_seconds(k) \in Int
  BY ConstantFacts DEF backoff_seconds

(* Time passes for the credentials: they stay a time left. *)
LEMMA AgeType ==
    ASSUME TypeOK, NEW t \in Int, Age(t)
    PROVE  left' \in [Classes -> Nat]
  BY ConstantFacts DEF TypeOK, Age

LEMMA ElapseType ==
    ASSUME TypeOK, NEW t \in Int, Elapse(t)
    PROVE  left' \in [Classes -> Nat] /\ late' \in BOOLEAN
  <1>1. left' \in [Classes -> Nat] BY AgeType DEF Elapse
  <1>2. late' \in {late, t > 0 /\ node.kind = "AgentLoop"} /\ late \in BOOLEAN
    BY DEF Elapse, TypeOK
  <1>3. late' \in BOOLEAN BY <1>2
  <1> QED BY <1>1, <1>3

(* The count survives a step that adds no tokens. *)
LEMMA CountedStep ==
    ASSUME TypeOK, Counted, node' = node, used' \in {0, used},
           pc' \in {"idle", "begin", "done"} => pc \in {"idle", "begin", "done"} \/ used' = 0,
           pc' = "ask" => used' < TokenCap
    PROVE  Counted'
  <1>1. used \in Nat /\ used' \in Nat /\ used' <= used BY DEF TypeOK
  <1>2. ASSUME NEW most \in CallTokens, \A t \in CallTokens : t <= most
        PROVE  used' <= TokenCap - 1 + most
    <2>1. used <= TokenCap - 1 + most BY <1>2 DEF Counted, BudgetKept
    <2> QED BY <2>1, <1>1, ConstantFacts
  <1>3. BudgetKept' BY <1>2 DEF BudgetKept
  <1>4. Loop' <=> Loop BY DEF Loop
  <1> QED BY <1>3, <1>4 DEF Counted

-----------------------------------------------------------------------------
LEMMA StartPreserves ==
    ASSUME IndInv, Start
    PROVE  IndInv'
  <1>1. TypeOK /\ Allowed /\ Counted /\ Final BY DEF IndInv
  <1>2. /\ state = "open" /\ pc = "idle" /\ pc' = "begin" /\ attempt < MaxAttempts
        /\ attempt' = attempt + 1 /\ state' = state
        /\ node' = node /\ models' = models /\ ready' = ready
        /\ iter' = iter /\ used' = used /\ late' = late /\ repair' = repair
        /\ call' = call /\ try' = try /\ signed' = signed /\ beyond' = beyond /\ left' = left
        /\ reached' = reached /\ answered' = answered /\ log' = log
    BY DEF Start, GoTo, setting, worker, history
  <1>3. attempt' \in 0 .. MaxAttempts BY <1>1, <1>2, ConstantFacts DEF TypeOK
  <1>4. TypeOK' BY <1>1, <1>2, <1>3 DEF TypeOK
  <1>5. Allowed' BY <1>1, <1>2 DEF Allowed, EffectsAllowed
  <1>6. Counted' BY <1>1, <1>2, CountedStep
  <1>7. Final' BY <1>1, <1>2, <1>3, ConstantFacts DEF Final, TypeOK
  <1> QED BY <1>4, <1>5, <1>6, <1>7 DEF IndInv

LEMMA BeginPreserves ==
    ASSUME IndInv, Begin
    PROVE  IndInv'
  <1>1. TypeOK /\ Allowed /\ Counted /\ Final BY DEF IndInv
  <1>2. /\ pc = "begin" /\ state' = state /\ attempt' = attempt
        /\ node' = node /\ models' = models /\ ready' = ready
        /\ iter' = iter /\ used' = used /\ late' = late /\ repair' = repair
        /\ try' = try /\ signed' = signed /\ beyond' = beyond /\ left' \in {left, Expired}
        /\ reached' = reached /\ answered' = answered /\ log' = log
    BY DEF Begin, build_xws_client, setting, history
  <1>3. /\ \/ pc' \in {"ask", "check", "fail"} /\ call' = call
           \/ /\ pc' = "request" /\ node.kind \in Tools
              /\ \E c \in node.allow : call' = [tool |-> node.kind, class |-> c]
    BY DEF Begin, GoTo
  <1>4. left' \in [Classes -> Nat] BY <1>1, <1>2 DEF TypeOK, Expired
  <1>5. pc' = "request" => /\ call' \in [tool : Tools, class : Classes]
                           /\ call'.class \in node.allow
    BY <1>1, <1>3, NodeFacts
  <1>6. TypeOK' BY <1>1, <1>2, <1>3, <1>4, <1>5 DEF TypeOK
  <1>7. Allowed' BY <1>1, <1>2, <1>3, <1>5 DEF Allowed, EffectsAllowed
  <1>8. used = 0 BY <1>1, <1>2 DEF Counted
  <1>9. Counted' BY <1>1, <1>2, <1>3, <1>8, CountedStep, ConstantFacts
  <1>10. Final' BY <1>1, <1>2, <1>3 DEF Final
  <1> QED BY <1>6, <1>7, <1>9, <1>10 DEF IndInv

(* A step of the loop, of an answer being looked at, or of an end being    *)
(* reached, which touches neither calls nor services.                      *)
LEMMA LocalStep ==
    ASSUME IndInv, UNCHANGED <<setting, state, attempt, late, try, signed, beyond, left, history>>,
           used' = used, call' = call,
           iter' \in 0 .. MaxIterations, repair' \in 0 .. node.repairs,
           pc \in {"check", "ask", "reply", "fail"},
           pc' \in {"check", "ask", "reply", "report", "fail", "raise"},
           pc' = "ask" => used < TokenCap,
           pc' = "report" => pc # "fail"
    PROVE  IndInv'
  <1>1. TypeOK /\ Allowed /\ Counted /\ Final BY DEF IndInv
  <1>2. /\ node' = node /\ models' = models /\ ready' = ready
        /\ state' = state /\ attempt' = attempt /\ late' = late /\ try' = try
        /\ signed' = signed /\ beyond' = beyond /\ left' = left
        /\ reached' = reached /\ answered' = answered /\ log' = log
    BY DEF setting, history
  <1>3. TypeOK' BY <1>1, <1>2 DEF TypeOK
  <1>4. Allowed' BY <1>1, <1>2 DEF Allowed, EffectsAllowed
  <1>5. Counted' BY <1>1, <1>2, CountedStep
  <1>6. Final' BY <1>1, <1>2 DEF Final
  <1> QED BY <1>3, <1>4, <1>5, <1>6 DEF IndInv

LEMMA CheckPreserves ==
    ASSUME IndInv, Check
    PROVE  IndInv'
  <1>1. TypeOK BY DEF IndInv
  <1>2. /\ UNCHANGED <<setting, state, attempt, late, try, signed, beyond, left, history>>
        /\ used' = used /\ call' = call /\ repair' = repair /\ pc = "check"
    BY DEF Check
  <1>3. repair' \in 0 .. node.repairs BY <1>1, <1>2 DEF TypeOK
  <1>4. CASE iter = MaxIterations \/ late \/ used >= TokenCap
    <2>1. pc' = "report" /\ iter' = iter BY <1>4 DEF Check, GoTo
    <2>2. iter' \in 0 .. MaxIterations BY <2>1, <1>1 DEF TypeOK
    <2> QED BY <2>1, <2>2, <1>2, <1>3, LocalStep
  <1>5. CASE ~ (iter = MaxIterations \/ late \/ used >= TokenCap)
    <2>1. pc' = "ask" /\ iter' = iter + 1 BY <1>5 DEF Check, GoTo
    <2>2. iter' \in 0 .. MaxIterations BY <2>1, <1>1, <1>5, ConstantFacts DEF TypeOK
    <2>3. used < TokenCap BY <1>1, <1>5, ConstantFacts DEF TypeOK
    <2> QED BY <2>1, <2>2, <2>3, <1>2, <1>3, LocalStep
  <1> QED BY <1>4, <1>5

LEMMA QuietPreserves ==
    ASSUME IndInv, Conclude \/ RoutingFailed \/ Validate \/ Fail
    PROVE  IndInv'
  <1>1. TypeOK /\ Counted BY DEF IndInv
  <1>2. /\ UNCHANGED <<setting, state, attempt, late, try, signed, beyond, left, history>>
        /\ used' = used /\ call' = call /\ iter' = iter
        /\ pc \in {"reply", "ask", "fail"}
    BY DEF Conclude, RoutingFailed, Validate, Fail, worker
  <1>3. iter' \in 0 .. MaxIterations BY <1>1, <1>2 DEF TypeOK
  <1>4. CASE Conclude \/ RoutingFailed \/ Fail
    <2>1. pc' \in {"report", "fail", "raise"} /\ repair' = repair /\ (pc' = "report" => pc # "fail")
      BY <1>4 DEF Conclude, RoutingFailed, Fail, GoTo, worker
    <2>2. repair' \in 0 .. node.repairs BY <2>1, <1>1 DEF TypeOK
    <2> QED BY <2>1, <2>2, <1>2, <1>3, LocalStep
  <1>5. CASE Validate
    <2>1. node.kind = "LLM" /\ pc = "reply" BY <1>5 DEF Validate
    <2>2. used = 0 /\ used < TokenCap BY <2>1, <1>1, ConstantFacts DEF Counted, Loop
    <2>3. repair' \in 0 .. node.repairs /\ pc' \in {"report", "ask", "fail"}
      BY <1>1, <1>5, NodeFacts DEF Validate, GoTo, TypeOK
    <2> QED BY <2>1, <2>2, <2>3, <1>2, <1>3, LocalStep
  <1> QED BY <1>4, <1>5

LEMMA UseToolPreserves ==
    ASSUME IndInv, NEW t \in Tools, NEW c \in Classes, UseTool(t, c)
    PROVE  IndInv'
  <1>1. TypeOK /\ Allowed /\ Counted /\ Final BY DEF IndInv
  <1>2. /\ pc = "reply" /\ state' = state /\ attempt' = attempt
        /\ node' = node /\ models' = models /\ ready' = ready
        /\ iter' = iter /\ used' = used /\ late' = late /\ repair' = repair
        /\ try' = try /\ signed' = signed /\ beyond' = beyond /\ left' = left
        /\ reached' = reached /\ answered' = answered /\ log' = log
        /\ \/ pc' = "check" /\ call' = call
           \/ pc' = "request" /\ c \in node.allow /\ call' = [tool |-> t, class |-> c]
    BY DEF UseTool, GoTo, setting, history
  <1>3. TypeOK' BY <1>1, <1>2 DEF TypeOK
  <1>4. Allowed' BY <1>1, <1>2 DEF Allowed, EffectsAllowed
  <1>5. Counted' BY <1>1, <1>2, CountedStep
  <1>6. Final' BY <1>1, <1>2 DEF Final
  <1> QED BY <1>3, <1>4, <1>5, <1>6 DEF IndInv

(* An answer adds its tokens to what was below the cap. *)
LEMMA AnsweredPreserves ==
    ASSUME IndInv, Answered
    PROVE  IndInv'
  <1>1. TypeOK /\ Allowed /\ Counted /\ Final BY DEF IndInv
  <1>2. /\ pc = "ask" /\ pc' = "reply" /\ state' = state /\ attempt' = attempt
        /\ node' = node /\ models' = models /\ ready' = ready
        /\ iter' = iter /\ repair' = repair /\ call' = call
        /\ try' = try /\ signed' = signed /\ beyond' = beyond
        /\ reached' = reached /\ answered' = answered /\ log' = log
        /\ \E t \in {0, ChatTime} : Elapse(t)
    BY DEF Answered, GoTo, setting, history
  <1>3. PICK t \in CallTokens : used' = IF node.kind = "AgentLoop" THEN used + t ELSE used
    BY DEF Answered
  <1>4. used \in Nat /\ t \in Nat /\ used < TokenCap /\ TokenCap \in Nat
    BY <1>1, <1>2, ConstantFacts DEF TypeOK, Counted
  <1>5. used' \in Nat /\ used' <= used + t BY <1>3, <1>4
  <1>6. left' \in [Classes -> Nat] /\ late' \in BOOLEAN
    BY <1>1, <1>2, ElapseType, ConstantFacts
  <1>7. TypeOK' BY <1>1, <1>2, <1>5, <1>6 DEF TypeOK
  <1>8. Allowed' BY <1>1, <1>2 DEF Allowed, EffectsAllowed
  <1>9. Counted'
    <2>1. ASSUME NEW most \in CallTokens, \A x \in CallTokens : x <= most
          PROVE  used' <= TokenCap - 1 + most
      <3>1. t <= most /\ most \in Nat BY <2>1, ConstantFacts
      <3> QED BY <3>1, <1>4, <1>5
    <2>2. BudgetKept' BY <2>1 DEF BudgetKept
    <2>3. ~Loop' => used' = 0 BY <1>1, <1>2, <1>3 DEF Counted, Loop
    <2> QED BY <2>2, <2>3, <1>2 DEF Counted
  <1>10. Final' BY <1>1, <1>2 DEF Final
  <1> QED BY <1>7, <1>8, <1>9, <1>10 DEF IndInv

LEMMA NotAnsweredPreserves ==
    ASSUME IndInv, NotAnswered
    PROVE  IndInv'
  <1>1. TypeOK /\ Allowed /\ Counted /\ Final BY DEF IndInv
  <1>2. /\ pc = "ask" /\ pc' = pc /\ state' = state /\ attempt' = attempt
        /\ node' = node /\ models' = models /\ ready' = ready
        /\ iter' = iter /\ used' = used /\ repair' = repair /\ call' = call
        /\ try' = try /\ signed' = signed /\ beyond' = beyond
        /\ reached' = reached /\ answered' = answered /\ log' = log
        /\ \E t \in {0, ChatTime} : Elapse(t)
    BY DEF NotAnswered, setting, history
  <1>3. left' \in [Classes -> Nat] /\ late' \in BOOLEAN
    BY <1>1, <1>2, ElapseType, ConstantFacts
  <1>4. TypeOK' BY <1>1, <1>2, <1>3 DEF TypeOK
  <1>5. Allowed' BY <1>1, <1>2 DEF Allowed, EffectsAllowed
  <1>6. Counted' BY <1>1, <1>2, CountedStep DEF Counted
  <1>7. Final' BY <1>1, <1>2 DEF Final
  <1> QED BY <1>4, <1>5, <1>6, <1>7 DEF IndInv

-----------------------------------------------------------------------------
(* How a call ends: the loop goes on, a tool node reports or fails. *)
LEMMA AfterCallFacts ==
    ASSUME NEW ok \in BOOLEAN, AfterCall(ok)
    PROVE  /\ pc' \in {"check", "report", "fail"}
           /\ ok /\ node.kind \in Tools => pc' = "report"
           /\ call' = NoCall /\ try' = 0 /\ signed' = 0 /\ beyond' = FALSE
  <1>1. node.kind \in Tools => node.kind # "AgentLoop" BY KindFacts
  <1> QED BY <1>1 DEF AfterCall, GoTo

(* A step of a call: it stays under way or ends, and services are reached  *)
(* only with what the client let pass.                                     *)
LEMMA CallStep ==
    ASSUME IndInv, UNCHANGED <<setting, state, attempt, iter, used, repair, rest, log>>,
           pc \in {"request", "send"},
           late' \in BOOLEAN, left' \in [Classes -> Nat],
           try' \in 0 .. Tries, signed' \in Int, beyond' \in BOOLEAN,
           \/ pc' \in {"check", "report", "fail"} /\ call' = NoCall
           \/ /\ pc' = "send" /\ call' = call
              /\ check_allowlist(call.class, Tool(call.tool).service),
           reached' = reached \/ (pc = "send" /\ Reach),
           \/ answered' = answered
           \/ answered' = TRUE /\ (node.kind \in Tools => pc' = "report")
    PROVE  IndInv'
  <1>1. TypeOK /\ Allowed /\ Counted /\ Final BY DEF IndInv
  <1>2. /\ node' = node /\ models' = models /\ ready' = ready
        /\ state' = state /\ attempt' = attempt /\ iter' = iter /\ used' = used
        /\ repair' = repair /\ log' = log
    BY DEF setting
  <1>3. /\ call \in [tool : Tools, class : Classes] /\ call.class \in node.allow
        /\ call.tool \in Tools
    BY <1>1 DEF Allowed
  <1>4. reached' \subseteq Services
    <2>1. Tool(call.tool).service \in Services BY <1>3, KindFacts
    <2> QED BY <2>1, <1>1 DEF TypeOK, Reach
  <1>5. TypeOK'
    <2>1. answered' \in BOOLEAN BY <1>1 DEF TypeOK
    <2>2. call' \in [tool : Tools, class : Classes] \cup {NoCall} BY <1>3
    <2>3. pc' \in {"check", "report", "fail", "send"} OBVIOUS
    <2> QED BY <2>1, <2>2, <2>3, <1>1, <1>2, <1>4 DEF TypeOK
  <1>6. Allowed'
    <2>1. EffectsAllowed'
      <3>1. CASE reached' = reached BY <3>1, <1>1, <1>2 DEF Allowed, EffectsAllowed
      <3>2. CASE pc = "send" /\ Reach
        <4>1. <<call.class, Tool(call.tool).service>> \in TOOL_CLASS_ROUTES
          BY <3>2, <1>1 DEF Allowed, check_allowlist
        <4>2. reached' = reached \cup {Tool(call.tool).service} BY <3>2 DEF Reach
        <4> QED BY <4>1, <4>2, <1>1, <1>2, <1>3 DEF Allowed, EffectsAllowed
      <3> QED BY <3>1, <3>2
    <2> QED BY <2>1, <1>2, <1>3 DEF Allowed
  <1>7. Counted' BY <1>1, <1>2, CountedStep
  <1>8. Final' BY <1>1, <1>2 DEF Final
  <1> QED BY <1>5, <1>6, <1>7, <1>8 DEF IndInv

LEMMA RequestPreserves ==
    ASSUME IndInv, Request
    PROVE  IndInv'
  <1>1. TypeOK /\ Allowed BY DEF IndInv
  <1>2. /\ UNCHANGED <<setting, state, attempt, iter, used, repair, rest, log>>
        /\ late' = late /\ reached' = reached /\ answered' = answered /\ pc = "request"
    BY DEF Request, history
  <1>3. late' \in BOOLEAN /\ call.class \in Classes BY <1>1, <1>2 DEF TypeOK, Allowed
  <1>4. CASE /\ check_allowlist(call.class, Tool(call.tool).service)
             /\ (left' = left /\ beyond' = beyond) \/ Vend(call.class)
             /\ signed' = left'[call.class] /\ try' = 1 /\ GoTo("send") /\ call' = call
    <2>1. left' \in [Classes -> Nat] /\ beyond' \in BOOLEAN
      <3>1. CASE left' = left /\ beyond' = beyond BY <3>1, <1>1 DEF TypeOK
      <3>2. CASE Vend(call.class)
        <4>1. PICK granted \in Sessions : /\ left' = [left EXCEPT ![call.class] = granted]
                                          /\ beyond' = (granted <= Margin)
          BY <3>2 DEF Vend
        <4>2. granted \in Nat /\ left \in [Classes -> Nat]
          BY <4>1, <1>1, ConstantFacts DEF TypeOK
        <4>3. left' \in [Classes -> Nat] BY <4>1, <4>2
        <4>4. granted \in Nat /\ Margin \in Nat BY <4>2, ConstantFacts
        <4>5. beyond' \in BOOLEAN BY <4>1, <4>4
        <4> QED BY <4>3, <4>5
      <3> QED BY <3>1, <3>2, <1>4
    <2>2. signed' \in Int /\ try' \in 0 .. Tries BY <2>1, <1>3, <1>4, ConstantFacts
    <2>3. pc' = "send" BY <1>4 DEF GoTo
    <2> QED BY <2>1, <2>2, <2>3, <1>2, <1>3, <1>4, CallStep
  <1>5. CASE AfterCall(FALSE) /\ left' = left
    <2>1. left' \in [Classes -> Nat] BY <1>1, <1>5 DEF TypeOK
    <2>2. pc' \in {"check", "report", "fail"} /\ call' = NoCall /\ try' = 0 /\ signed' = 0 /\ beyond' = FALSE
      BY <1>5, AfterCallFacts
    <2>3. try' \in 0 .. Tries /\ signed' \in Int BY <2>2, ConstantFacts
    <2> QED BY <2>1, <2>2, <2>3, <1>2, <1>3, CallStep
  <1> QED BY <1>4, <1>5 DEF Request

LEMMA CarriedPreserves ==
    ASSUME IndInv, Carried
    PROVE  IndInv'
  <1>1. TypeOK BY DEF IndInv
  <1>2. /\ UNCHANGED <<setting, state, attempt, iter, used, repair, rest, log>>
        /\ pc = "send" /\ Reach /\ answered' = TRUE /\ AfterCall(TRUE)
        /\ \E t \in TryTimes : Elapse(t)
    BY DEF Carried
  <1>3. left' \in [Classes -> Nat] /\ late' \in BOOLEAN
    BY <1>1, <1>2, ElapseType, ConstantFacts
  <1>4. /\ pc' \in {"check", "report", "fail"} /\ (node.kind \in Tools => pc' = "report")
        /\ call' = NoCall /\ try' = 0 /\ signed' = 0 /\ beyond' = FALSE
    BY <1>2, AfterCallFacts
  <1>5. try' \in 0 .. Tries /\ signed' \in Int BY <1>4, ConstantFacts
  <1> QED BY <1>2, <1>3, <1>4, <1>5, CallStep

LEMMA RejectedPreserves ==
    ASSUME IndInv, Rejected
    PROVE  IndInv'
  <1>1. TypeOK BY DEF IndInv
  <1>2. /\ UNCHANGED <<setting, state, attempt, iter, used, repair, rest, log>>
        /\ pc = "send" /\ (reached' = reached \/ Reach) /\ answered' = answered
        /\ AfterCall(FALSE) /\ \E t \in TryTimes : Elapse(t)
    BY DEF Rejected
  <1>3. left' \in [Classes -> Nat] /\ late' \in BOOLEAN
    BY <1>1, <1>2, ElapseType, ConstantFacts
  <1>4. /\ pc' \in {"check", "report", "fail"}
        /\ call' = NoCall /\ try' = 0 /\ signed' = 0 /\ beyond' = FALSE
    BY <1>2, AfterCallFacts
  <1>5. try' \in 0 .. Tries /\ signed' \in Int BY <1>4, ConstantFacts
  <1> QED BY <1>2, <1>3, <1>4, <1>5, CallStep

LEMMA LostPreserves ==
    ASSUME IndInv, Lost
    PROVE  IndInv'
  <1>1. TypeOK /\ Allowed BY DEF IndInv
  <1>2. /\ UNCHANGED <<setting, state, attempt, iter, used, repair, rest, log>>
        /\ pc = "send" /\ (reached' = reached \/ Reach) /\ answered' = answered
    BY DEF Lost
  <1>3. PICK t \in TryTimes :
            IF Tool(call.tool).retry /\ try < Tries
            THEN /\ try' = try + 1
                 /\ signed' = signed - t - backoff_seconds(try)
                 /\ beyond' = (beyond \/ t > CallTime)
                 /\ Elapse(t + backoff_seconds(try))
                 /\ UNCHANGED <<pc, call>>
            ELSE AfterCall(FALSE) /\ Elapse(t)
    BY DEF Lost
  <1>4. t \in Int /\ try \in Nat /\ Tries \in Nat /\ signed \in Int
    BY <1>1, ConstantFacts DEF TypeOK
  <1>5. check_allowlist(call.class, Tool(call.tool).service) BY <1>1, <1>2 DEF Allowed
  <1>6. CASE Tool(call.tool).retry /\ try < Tries
    <2>1. backoff_seconds(try) \in Int BY <1>4 DEF backoff_seconds
    <2>2. left' \in [Classes -> Nat] /\ late' \in BOOLEAN
      BY <2>1, <1>1, <1>3, <1>4, <1>6, ElapseType
    <2>3. /\ try' \in 0 .. Tries /\ signed' \in Int /\ pc' = "send" /\ call' = call
          /\ beyond' \in BOOLEAN
      <3>1. beyond' \in BOOLEAN BY <1>1, <1>3, <1>6 DEF TypeOK
      <3> QED BY <3>1, <2>1, <1>2, <1>3, <1>4, <1>6
    <2> QED BY <2>2, <2>3, <1>2, <1>5, CallStep
  <1>7. CASE ~ (Tool(call.tool).retry /\ try < Tries)
    <2>1. AfterCall(FALSE) /\ Elapse(t) BY <1>3, <1>7
    <2>2. left' \in [Classes -> Nat] /\ late' \in BOOLEAN BY <2>1, <1>1, <1>4, ElapseType
    <2>3. /\ pc' \in {"check", "report", "fail"}
          /\ call' = NoCall /\ try' = 0 /\ signed' = 0 /\ beyond' = FALSE
      BY <2>1, AfterCallFacts
    <2>4. try' \in 0 .. Tries /\ signed' \in Int BY <2>3, ConstantFacts
    <2> QED BY <2>2, <2>3, <2>4, <1>2, CallStep
  <1> QED BY <1>6, <1>7

-----------------------------------------------------------------------------
(* The end of the attempt. *)
LEMMA ReportPreserves ==
    ASSUME IndInv, Report
    PROVE  IndInv'
  <1>1. TypeOK /\ Allowed /\ Counted /\ Final BY DEF IndInv
  <1>2. /\ pc = "report" /\ pc' = "return" /\ state' = state /\ attempt' = attempt
        /\ node' = node /\ models' = models /\ ready' = ready
        /\ iter' = iter /\ used' = used /\ late' = late /\ repair' = repair
        /\ call' = call /\ try' = try /\ signed' = signed /\ beyond' = beyond /\ left' = left
        /\ reached' = reached /\ answered' = answered
        /\ log' \in {log, log \cup {attempt}}
    BY DEF Report, publish_event, GoTo, setting, worker
  <1>3. log = {} /\ log' \subseteq {attempt} /\ state # "failed" BY <1>1, <1>2 DEF Final
  <1>4. TypeOK'
    <2>1. attempt \in 1 .. MaxAttempts BY <1>1, <1>2, ConstantFacts DEF Final, TypeOK
    <2>2. log' \subseteq 1 .. MaxAttempts BY <2>1, <1>3
    <2> QED BY <2>2, <1>1, <1>2 DEF TypeOK
  <1>5. Allowed' BY <1>1, <1>2 DEF Allowed, EffectsAllowed
  <1>6. Counted' BY <1>1, <1>2, CountedStep
  <1>7. Final' BY <1>1, <1>2, <1>3 DEF Final
  <1> QED BY <1>4, <1>5, <1>6, <1>7 DEF IndInv

(* The worker is through with the attempt, or is gone. *)
LEMMA ForgetStep ==
    ASSUME IndInv, Forget, UNCHANGED <<setting, attempt, history>>,
           left' \in [Classes -> Nat], pc' \in {"idle", "done"},
           state' \in {"open", "succeeded", "failed", "timed_out"},
           log # {} => pc' = "done" /\ state' # "failed",
           state' = "failed" => pc' = "done",
           answered /\ node.kind \in Tools => pc' = "done" /\ state' # "failed"
    PROVE  IndInv'
  <1>1. TypeOK /\ Allowed /\ Counted /\ Final BY DEF IndInv
  <1>2. /\ node' = node /\ models' = models /\ ready' = ready /\ attempt' = attempt
        /\ iter' = 0 /\ used' = 0 /\ late' = FALSE /\ repair' = 0
        /\ call' = NoCall /\ try' = 0 /\ signed' = 0 /\ beyond' = FALSE
        /\ reached' = reached /\ answered' = answered /\ log' = log
    BY DEF Forget, setting, history
  <1>3. TypeOK'
    <2>1. /\ iter' \in 0 .. MaxIterations /\ used' \in Nat /\ repair' \in 0 .. node.repairs
          /\ try' \in 0 .. Tries /\ signed' \in Int
      <3>1. node.repairs \in Nat BY <1>1, NodeFacts
      <3> QED BY <3>1, <1>2, ConstantFacts
    <2>2. late' \in BOOLEAN /\ beyond' \in BOOLEAN BY <1>2
    <2> QED BY <2>1, <2>2, <1>1, <1>2 DEF TypeOK
  <1>4. Allowed' BY <1>1, <1>2 DEF Allowed, EffectsAllowed
  <1>5. Counted' BY <1>1, <1>2, CountedStep
  <1>6. Final' BY <1>1, <1>2 DEF Final
  <1> QED BY <1>3, <1>4, <1>5, <1>6 DEF IndInv

LEMMA AttemptEndPreserves ==
    ASSUME IndInv, Return \/ Raise \/ Crash
    PROVE  IndInv'
  <1>1. TypeOK /\ Final BY DEF IndInv
  <1>2. Forget /\ UNCHANGED <<setting, attempt, history>> BY DEF Return, Raise, Crash
  <1>3. left' \in [Classes -> Nat] BY <1>1 DEF Return, Raise, Crash, Expired, TypeOK
  <1>4. CASE Return
    <2>1. /\ pc = "return" /\ pc' = "done"
          /\ state' = IF state = "open" THEN "succeeded" ELSE state
      BY <1>4 DEF Return, GoTo
    <2> QED BY <2>1, <1>1, <1>2, <1>3, ForgetStep DEF Final, TypeOK
  <1>5. CASE Raise
    <2>1. /\ pc = "raise" /\ pc' \in {"idle", "done"}
          /\ state' \in {state, "failed"} /\ (pc' = "idle" => state' = state /\ state = "open")
      BY <1>5 DEF Raise, GoTo
    <2>2. log = {} /\ ~ (answered /\ node.kind \in Tools) BY <2>1, <1>1 DEF Final
    <2> QED BY <2>1, <2>2, <1>1, <1>2, <1>3, ForgetStep DEF TypeOK
  <1>6. CASE Crash
    <2>1. pc \notin {"idle", "done"} /\ pc' = "done" /\ state' = state BY <1>6 DEF Crash, GoTo
    <2> QED BY <2>1, <1>1, <1>2, <1>3, ForgetStep DEF Final, TypeOK
  <1> QED BY <1>4, <1>5, <1>6

LEMMA TimeOutPreserves ==
    ASSUME IndInv, TimeOut
    PROVE  IndInv'
  <1>1. TypeOK /\ Allowed /\ Counted /\ Final BY DEF IndInv
  <1>2. /\ state = "open" /\ state' = "timed_out" /\ attempt' = attempt
        /\ pc' = IF pc = "idle" THEN "done" ELSE pc
        /\ node' = node /\ models' = models /\ ready' = ready
        /\ iter' = iter /\ used' = used /\ late' = late /\ repair' = repair
        /\ call' = call /\ try' = try /\ signed' = signed /\ beyond' = beyond /\ left' = left
        /\ reached' = reached /\ answered' = answered /\ log' = log
    BY DEF TimeOut, GoTo, setting, worker, history
  <1>3. TypeOK' BY <1>1, <1>2 DEF TypeOK
  <1>4. Allowed' BY <1>1, <1>2 DEF Allowed, EffectsAllowed
  <1>5. Counted' BY <1>1, <1>2, CountedStep DEF Counted
  <1>6. Final' BY <1>1, <1>2 DEF Final
  <1> QED BY <1>3, <1>4, <1>5, <1>6 DEF IndInv

-----------------------------------------------------------------------------
LEMMA InitEstablishes == Init => IndInv
  <1> SUFFICES ASSUME Init PROVE IndInv OBVIOUS
  <1>1. left \in [Classes -> Nat] BY ConstantFacts DEF Init
  <1>2. node.repairs \in Nat BY NodeAssumption DEF Init, NodeAssumption, NodeRecords
  <1>3. TypeOK
    <2>1. models \in {Candidates(c) : c \in Chains} BY DEF Init
    <2>2. /\ attempt \in 0 .. MaxAttempts /\ iter \in 0 .. MaxIterations /\ used \in Nat
          /\ repair \in 0 .. node.repairs /\ try \in 0 .. Tries /\ signed \in Int
      BY <1>2, ConstantFacts DEF Init
    <2>3. log \subseteq 1 .. MaxAttempts /\ reached \subseteq Services BY DEF Init
    <2> QED BY <2>1, <2>2, <2>3, <1>1 DEF Init, TypeOK
  <1>4. Allowed BY DEF Init, Allowed, EffectsAllowed
  <1>5. BudgetKept
    <2> SUFFICES ASSUME NEW most \in CallTokens PROVE used <= TokenCap - 1 + most
      BY DEF BudgetKept
    <2> QED BY ConstantFacts DEF Init
  <1>6. Counted BY <1>5 DEF Init, Counted
  <1>7. Final BY DEF Init, Final
  <1> QED BY <1>3, <1>4, <1>6, <1>7 DEF IndInv

LEMMA NextPreserves == IndInv /\ [Next]_vars => IndInv'
  <1> SUFFICES ASSUME IndInv, [Next]_vars PROVE IndInv' OBVIOUS
  <1>1. CASE Start BY <1>1, StartPreserves
  <1>2. CASE Begin BY <1>2, BeginPreserves
  <1>3. CASE AgentStep BY <1>3, CheckPreserves, QuietPreserves, UseToolPreserves DEF AgentStep
  <1>4. CASE ChatStep BY <1>4, AnsweredPreserves, NotAnsweredPreserves, QuietPreserves DEF ChatStep
  <1>5. CASE ClientStep
    BY <1>5, RequestPreserves, CarriedPreserves, RejectedPreserves, LostPreserves DEF ClientStep
  <1>6. CASE EndStep BY <1>6, ReportPreserves, AttemptEndPreserves, QuietPreserves DEF EndStep
  <1>7. CASE TimeOut BY <1>7, TimeOutPreserves
  <1>8. CASE Crash BY <1>8, AttemptEndPreserves
  <1>9. CASE UNCHANGED vars
    <2>1. TypeOK' BY <1>9 DEF vars, IndInv, TypeOK
    <2>2. Allowed' BY <1>9 DEF vars, IndInv, Allowed, EffectsAllowed
    <2>3. Counted' BY <1>9 DEF vars, IndInv, Counted, BudgetKept, Loop
    <2>4. Final' BY <1>9 DEF vars, IndInv, Final
    <2> QED BY <2>1, <2>2, <2>3, <2>4 DEF IndInv
  <1> QED BY <1>1, <1>2, <1>3, <1>4, <1>5, <1>6, <1>7, <1>8, <1>9 DEF Next, WorkerStep

LEMMA Invariance == Spec => []IndInv
  BY InitEstablishes, NextPreserves, PTL DEF Spec

-----------------------------------------------------------------------------
(* What the slowest retry of a call, but the last, takes. *)
Slowest ==
    CHOOSE slowest \in 0 .. Margin :
        /\ \A k \in 1 .. Tries - 2 : CallTime + backoff_seconds(k) <= slowest
        /\ (Tries - 2) * slowest <= Margin

(* A call begins with credentials that outlast the margin, and each retry  *)
(* takes its part of it, unless the call has met what the margin is not    *)
(* made for.                                                               *)
SignedLasts ==
    /\ pc = "send" => try >= 1
    /\ pc = "send" /\ try < Tries /\ ~beyond => signed > Margin - (try - 1) * Slowest

LEMMA SlowestFacts ==
    /\ Slowest \in Nat
    /\ \A k \in 1 .. Tries - 2 : CallTime + backoff_seconds(k) <= Slowest
    /\ (Tries - 2) * Slowest <= Margin
  <1>1. Slowest \in 0 .. Margin BY MarginAssumption DEF Slowest
  <1>2. /\ \A k \in 1 .. Tries - 2 : CallTime + backoff_seconds(k) <= Slowest
        /\ (Tries - 2) * Slowest <= Margin
    BY MarginAssumption DEF Slowest
  <1> QED BY <1>1, <1>2, ConstantFacts

(* A retry is the only step that leaves a call under way. *)
LEMMA SignedStep ==
    IndInv /\ SignedLasts /\ [Next]_vars => SignedLasts'
  <1> SUFFICES ASSUME IndInv, SignedLasts, [Next]_vars, pc' = "send"
               PROVE  /\ try' >= 1
                      /\ try' < Tries /\ ~beyond' => signed' > Margin - (try' - 1) * Slowest
    BY DEF SignedLasts
  <1>0. TypeOK /\ Allowed BY DEF IndInv
  <1>1. /\ Margin \in Nat /\ Sessions \subseteq Nat /\ TryTimes \subseteq Nat
        /\ Tries \in Nat /\ CallTime \in Nat /\ Slowest \in Nat
        /\ signed \in Int /\ try \in Nat
    BY <1>0, ConstantFacts, SlowestFacts DEF TypeOK
  <1>2. CASE Request
    <2>1. /\ try' = 1 /\ signed' = left'[call.class]
          /\ (Fresh(call.class) /\ left' = left) \/ Vend(call.class)
      BY <1>2, AfterCallFacts DEF Request
    <2>2. call.class \in Classes /\ left \in [Classes -> Nat]
      BY <1>0, <1>2 DEF Allowed, TypeOK, Request
    <2>3. ~beyond' => signed' > Margin
      <3>1. CASE Fresh(call.class) /\ left' = left BY <3>1, <2>1 DEF Fresh
      <3>2. CASE Vend(call.class)
        <4>1. PICK granted \in Sessions : /\ left' = [left EXCEPT ![call.class] = granted]
                                          /\ beyond' = (granted <= Margin)
          BY <3>2 DEF Vend
        <4>2. signed' = granted BY <4>1, <2>1, <2>2
        <4>3. ~beyond' => ~(granted <= Margin) BY <4>1, Zenon
        <4>4. granted \in Nat BY <4>1, <1>1
        <4>5. ~(granted <= Margin) => granted > Margin BY <4>4, <1>1
        <4> QED BY <4>2, <4>3, <4>5, Zenon
      <3> QED BY <3>1, <3>2, <2>1
    <2> QED BY <1>1, <2>1, <2>3
  <1>3. CASE Lost
    <2>1. PICK t \in TryTimes : /\ try' = try + 1
                                /\ signed' = signed - t - backoff_seconds(try)
                                /\ beyond' = (beyond \/ t > CallTime)
      BY <1>3, AfterCallFacts DEF Lost
    <2>2. pc = "send" /\ try >= 1 BY <1>3 DEF Lost, SignedLasts
    <2>3. ASSUME try' < Tries, ~beyond'
          PROVE  signed' > Margin - (try' - 1) * Slowest
      <3>a. ~beyond /\ ~(t > CallTime) BY <2>1, <2>3, Zenon
      <3>b. try' = try + 1 /\ try' < Tries /\ t \in Nat BY <1>1, <2>1, <2>3
      <3>c. try \in 1 .. Tries - 2 /\ t <= CallTime
        BY <1>1, <2>2, <3>a, <3>b
      <3>1. try \in 1 .. Tries - 2 /\ t \in Nat /\ t <= CallTime /\ ~beyond
        BY <3>a, <3>b, <3>c
      <3>2. signed > Margin - (try - 1) * Slowest
        BY <1>1, <2>2, <3>1 DEF SignedLasts
      <3>3. backoff_seconds(try) \in Int /\ CallTime + backoff_seconds(try) <= Slowest
        BY <1>1, <3>1, BackoffType, SlowestFacts
      <3>4. signed' > Margin - (try - 1) * Slowest - Slowest
        BY <1>1, <2>1, <3>1, <3>2, <3>3
      <3>5. (try - 1) * Slowest + Slowest = (try' - 1) * Slowest
        BY <1>1, <2>1
      <3> QED BY <1>1, <2>1, <3>1, <3>3, <3>4, <3>5
    <2> QED BY <1>1, <2>1, <2>2, <2>3
  <1>4. CASE UNCHANGED <<pc, try, signed, beyond>>
    BY <1>4 DEF SignedLasts
  <1>5. ASSUME Carried \/ Rejected PROVE pc' # "send"
    BY <1>5, AfterCallFacts DEF Carried, Rejected
  <1>6. ASSUME Begin \/ Start PROVE pc' # "send"
    BY <1>6 DEF Begin, Start, GoTo
  <1>7. ASSUME AgentStep PROVE pc' # "send"
    BY <1>7 DEF AgentStep, Check, Conclude, UseTool, GoTo
  <1>8. ASSUME ChatStep PROVE pc' # "send"
    BY <1>8 DEF ChatStep, Answered, NotAnswered, RoutingFailed, Validate, GoTo
  <1>9. ASSUME EndStep \/ Crash PROVE pc' # "send"
    BY <1>9 DEF EndStep, Report, Return, Fail, Raise, Crash, GoTo
  <1>10. CASE TimeOut
    BY <1>4, <1>10 DEF TimeOut, GoTo, worker
  <1> QED
    BY <1>2, <1>3, <1>4, <1>5, <1>6, <1>7, <1>8, <1>9, <1>10
       DEF Next, WorkerStep, ClientStep, vars

LEMMA SignedInvariance == Spec => [](IndInv /\ SignedLasts)
  <1>1. Init => SignedLasts BY DEF Init, SignedLasts
  <1> QED BY <1>1, InitEstablishes, NextPreserves, SignedStep, PTL DEF Spec

-----------------------------------------------------------------------------
(* Attempts, iterations, repairs and tries stay within their limits        *)
(* (RetryPolicy, maxIterations, maxRepairAttempts, ExponentialRetry).      *)
THEOREM ExecutionTypes == Spec => []TypeOK
  <1>1. IndInv => TypeOK BY DEF IndInv
  <1> QED BY <1>1, Invariance, PTL

(* Whatever the model asks for, a node reaches only services of classes it *)
(* declares (the checks of AgentLoopExecutor and XWSClient.request).       *)
THEOREM OnlyAllowedEffects == Spec => []EffectsAllowed
  <1>1. IndInv => EffectsAllowed BY DEF IndInv, Allowed
  <1> QED BY <1>1, Invariance, PTL

(* An agent overshoots its token cap by less than one answer (the check at *)
(* the head of the loop in AgentLoopExecutor).                             *)
THEOREM BudgetOvershoot == Spec => []BudgetKept
  <1>1. IndInv => BudgetKept BY DEF IndInv, Counted
  <1> QED BY <1>1, Invariance, PTL

(* A tool call whose answer has been read is not repeated, and no node has *)
(* failed that the log calls succeeded (execute_node, publish_event).      *)
THEOREM SuccessIsFinal == Spec => []SuccessStands
  <1>1. IndInv => SuccessStands BY DEF IndInv, Final, SuccessStands
  <1> QED BY <1>1, Invariance, PTL

(* _EXPIRY_MARGIN_S outlasts every retry but the last, of tries that wait  *)
(* for one timeout of the client and of sessions that iam-svc grants for   *)
(* longer than the margin: no other try of XWSClient.request is signed     *)
(* with credentials that have expired.                                     *)
THEOREM RetriesAreSigned == Spec => []SignedInTime
  <1>1. IndInv /\ SignedLasts => SignedInTime
    <2> SUFFICES ASSUME IndInv, SignedLasts, pc = "send", try < Tries, ~beyond PROVE signed > 0
      BY DEF SignedInTime
    <2>1. TypeOK BY DEF IndInv
    <2>2. /\ Margin \in Nat /\ Tries \in Nat /\ Slowest \in Nat /\ signed \in Int
          /\ try \in Nat /\ try >= 1 /\ signed > Margin - (try - 1) * Slowest
      BY <2>1, ConstantFacts, SlowestFacts DEF TypeOK, SignedLasts
    <2>3. CASE try = 1 BY <2>2, <2>3
    <2>4. CASE try > 1
      <3>1. (try - 1) * Slowest <= (Tries - 2) * Slowest BY <2>2
      <3> QED BY <2>2, <3>1, SlowestFacts
    <2> QED BY <2>2, <2>3, <2>4
  <1> QED BY <1>1, SignedInvariance, PTL
=============================================================================
