--------------------------- MODULE LocalRun_proofs ---------------------------
(***************************************************************************)
(* Proofs about LocalRun, for any graph, number of attempts and number of  *)
(* store calls that raise.                                                 *)
(***************************************************************************)
EXTENDS LocalRun, SequenceTheorems, TLAPS

(* Every node returned a result or had its failure handled. *)
Done == \A n \in Nodes : node[n] = "succeeded" \/ (node[n] = "failed" /\ n \in Handled)

(* What row and log say at each await. *)
Reported ==
    /\ pc \in {"begin", "prepare", "graph", "write_succeeded"} =>
           log = <<>> /\ row \in {"queued", "running"}
    /\ pc = "write_succeeded" => Done
    /\ pc \in {"statuses", "announce_succeeded"} => log = <<>> /\ row = "succeeded"
    /\ pc \in {"write_failed", "announce_failed"} => log \in {<<>>, <<"succeeded">>}
    /\ pc = "announce_failed" => row = "failed"
    /\ pc = "over" => log # <<>> /\ row = Last(log)
    /\ log \in {<<>>, <<"succeeded">>, <<"failed">>, <<"succeeded", "failed">>}
    /\ log = <<"succeeded">> /\ pc # "over" => faults > 0
    /\ log = <<"succeeded", "failed">> => faults > 0
    /\ row = "succeeded" \/ log = <<"succeeded">> \/ log = <<"succeeded", "failed">> => Done

(* A dispatch that has returned belongs to the current attempt, or to one  *)
(* whose report raised.                                                    *)
Worked ==
    \A n \in Nodes :
        /\ worked[n] <= attempt[n] /\ worked[n] <= faults + 1
        /\ node[n] \in {"new", "dispatching"} => worked[n] < attempt[n] /\ worked[n] <= faults

IndInv == TypeOK /\ Reported /\ Worked

-----------------------------------------------------------------------------
LEMMA LogFacts ==
    /\ \A e \in {"succeeded", "failed"} :
           /\ Append(<<>>, e) = <<e>> /\ <<e>> # <<>> /\ Last(<<e>>) = e /\ Head(<<e>>) = e
           /\ <<e>> \in Seq({"succeeded", "failed"})
    /\ Append(<<"succeeded">>, "failed") = <<"succeeded", "failed">>
    /\ <<"succeeded", "failed">> # <<>>
    /\ Last(<<"succeeded", "failed">>) = "failed"
    /\ Head(<<"succeeded", "failed">>) = "succeeded"
    /\ <<"succeeded", "failed">> \in Seq({"succeeded", "failed"})
    /\ <<"succeeded", "failed">> # <<"succeeded">>
    /\ <<"succeeded", "failed">> # <<"failed">>
    /\ <<"succeeded">> # <<"failed">>
    /\ <<>> \in Seq({"succeeded", "failed"})
  <1> DEFINE E == {"succeeded", "failed"}
  <1>1. <<>> \in Seq(E) BY EmptySeq
  <1>2. ASSUME NEW e \in E
        PROVE  /\ Append(<<>>, e) = <<e>> /\ <<e>> # <<>> /\ Last(<<e>>) = e
               /\ Head(<<e>>) = e /\ <<e>> \in Seq(E)
    BY DEF Last
  <1>4. <<"succeeded", "failed">> # <<>> /\ <<"succeeded", "failed">> \in Seq(E) OBVIOUS
  <1>3. Append(<<"succeeded">>, "failed") = <<"succeeded", "failed">>
    <2> DEFINE t == Append(<<"succeeded">>, "failed")
    <2>1. t \in Seq(E) /\ Len(t) = 2 /\ t[1] = "succeeded" /\ t[2] = "failed" OBVIOUS
    <2>2. ASSUME NEW i \in 1 .. Len(t) PROVE t[i] = <<"succeeded", "failed">>[i]
      <3>1. i = 1 \/ i = 2 BY <2>1
      <3> QED BY <3>1, <2>1
    <2>3. Len(t) = Len(<<"succeeded", "failed">>) BY <2>1
    <2> HIDE DEF t
    <2>4. t = <<"succeeded", "failed">> BY <2>1, <2>2, <2>3, <1>4, SeqEqual
    <2> QED BY <2>4 DEF t
  <1>5. Last(<<"succeeded", "failed">>) = "failed" /\ Head(<<"succeeded", "failed">>) = "succeeded"
    BY DEF Last
  <1>6. <<"succeeded", "failed">> # <<"succeeded">> /\ <<"succeeded", "failed">> # <<"failed">>
    <2>1. Len(<<"succeeded", "failed">>) = 2 /\ Len(<<"succeeded">>) = 1 /\ Len(<<"failed">>) = 1
      OBVIOUS
    <2> QED BY <2>1
  <1>7. <<"succeeded">> # <<"failed">> OBVIOUS
  <1> QED BY <1>1, <1>2, <1>3, <1>4, <1>5, <1>6, <1>7

LEMMA FaultFacts ==
    ASSUME TypeOK, Fault
    PROVE  faults' \in 0 .. MaxFaults /\ faults' > 0 /\ faults' = faults + 1
  BY LocalAssumption DEF TypeOK, Fault, LocalAssumption

(* Steps of the task itself, which leave the nodes alone. *)
LEMMA TaskStep ==
    ASSUME IndInv, UNCHANGED nodeVars,
           pc' \in {"begin", "prepare", "graph", "write_succeeded", "statuses",
                    "announce_succeeded", "write_failed", "announce_failed", "over", "dead"},
           row' \in {"queued", "running", "succeeded", "failed"},
           faults' = faults \/ Fault,
           Reported'
    PROVE  IndInv'
  <1>1. node' = node /\ attempt' = attempt /\ worked' = worked BY DEF nodeVars
  <1>2. TypeOK BY DEF IndInv
  <1>3. faults' \in 0 .. MaxFaults /\ faults \in Nat /\ faults <= faults'
    BY <1>2, FaultFacts DEF TypeOK
  <1>4. log' \in Seq({"succeeded", "failed"}) BY LogFacts DEF Reported
  <1>5. TypeOK' BY <1>1, <1>2, <1>3, <1>4 DEF TypeOK
  <1>6. Worked'
    <2> SUFFICES ASSUME NEW n \in Nodes
                 PROVE  /\ worked[n] <= attempt[n] /\ worked[n] <= faults' + 1
                        /\ node[n] \in {"new", "dispatching"} =>
                               worked[n] < attempt[n] /\ worked[n] <= faults'
      BY <1>1 DEF Worked
    <2>1. worked[n] \in Nat BY <1>2 DEF TypeOK
    <2> QED BY <2>1, <1>3 DEF IndInv, Worked
  <1> QED BY <1>5, <1>6 DEF IndInv

LEMMA WritePreserves ==
    ASSUME IndInv, NEW s \in {"running", "succeeded", "failed"}, NEW here, NEW there, NEW raised,
           Write(s, here, there, raised),
           \/ s = "running" /\ here = "begin" /\ there = "prepare" /\ raised = "dead"
           \/ s = "succeeded" /\ here = "write_succeeded" /\ there = "statuses"
              /\ raised = "write_failed"
           \/ s = "failed" /\ here = "write_failed" /\ there = "announce_failed"
              /\ raised = "dead"
    PROVE  IndInv'
  <1>1. TypeOK /\ Reported BY DEF IndInv
  <1>2. /\ pc = here /\ UNCHANGED nodeVars /\ log' = log /\ node' = node
        /\ \/ pc' = there /\ row' = s /\ faults' = faults
           \/ pc' = raised /\ Fault /\ row' \in {row, s}
    BY DEF Write, nodeVars
  <1>3. faults' = faults \/ (Fault /\ faults' > 0) BY <1>1, <1>2, FaultFacts
  <1>4. Done' <=> Done BY <1>2 DEF Done
  <1>5. Reported'
    <2>1. CASE here = "begin" BY <2>1, <1>1, <1>2, <1>3, <1>4, LogFacts DEF Reported
    <2>2. CASE here = "write_succeeded" BY <2>2, <1>1, <1>2, <1>3, <1>4, LogFacts DEF Reported
    <2>3. CASE here = "write_failed" BY <2>3, <1>1, <1>2, <1>3, <1>4, LogFacts DEF Reported
    <2> QED BY <2>1, <2>2, <2>3
  <1> QED BY <1>1, <1>2, <1>3, <1>5, TaskStep DEF TypeOK

LEMMA ReportPreserves ==
    ASSUME IndInv, NEW e \in {"succeeded", "failed"}, NEW here, NEW raised,
           Report(e, here, "over", raised),
           \/ e = "succeeded" /\ here = "announce_succeeded" /\ raised = "write_failed"
           \/ e = "failed" /\ here = "announce_failed" /\ raised = "dead"
    PROVE  IndInv'
  <1>1. TypeOK /\ Reported BY DEF IndInv
  <1>2. /\ pc = here /\ UNCHANGED nodeVars /\ row' = row /\ node' = node
        /\ \/ pc' = "over" /\ log' = Append(log, e) /\ faults' = faults
           \/ pc' = raised /\ Fault /\ log' \in {log, Append(log, e)}
    BY DEF Report, nodeVars
  <1>3. faults' = faults \/ (Fault /\ faults' > 0) BY <1>1, <1>2, FaultFacts
  <1>4. Done' <=> Done BY <1>2 DEF Done
  <1>5. Reported'
    <2>1. CASE e = "succeeded"
      <3>1. log = <<>> /\ row = "succeeded" /\ Done BY <2>1, <1>1, <1>2 DEF Reported
      <3>2. log' = <<>> \/ log' = <<"succeeded">> BY <3>1, <2>1, <1>2, LogFacts
      <3>3. CASE pc' = "over"
        <4>1. log' = <<"succeeded">> /\ row' = "succeeded"
          BY <3>1, <3>3, <2>1, <1>2, LogFacts
        <4>2. log' # <<>> /\ row' = Last(log') BY <4>1, LogFacts
        <4> QED BY <4>1, <4>2, <3>1, <3>3, <1>4, LogFacts DEF Reported
      <3>4. CASE pc' = "write_failed" /\ faults' > 0
        BY <3>1, <3>2, <3>4, <1>2, <1>4, LogFacts DEF Reported
      <3> QED BY <3>3, <3>4, <2>1, <1>2, <1>1, FaultFacts
    <2>2. CASE e = "failed" BY <2>2, <1>1, <1>2, <1>3, <1>4, LogFacts DEF Reported
    <2> QED BY <2>1, <2>2
  <1> QED BY <1>1, <1>2, <1>3, <1>5, TaskStep DEF TypeOK

LEMMA OtherTaskSteps ==
    ASSUME IndInv, Prepare \/ GraphEnds \/ EmitStatuses
    PROVE  IndInv'
  <1>1. TypeOK /\ Reported BY DEF IndInv
  <1>2. /\ UNCHANGED nodeVars /\ row' = row /\ log' = log /\ node' = node
        /\ \/ pc = "prepare" /\ pc' \in {"graph", "write_failed"} /\ faults' = faults
           \/ pc = "graph" /\ pc' = "write_failed" /\ faults' = faults
           \/ pc = "graph" /\ pc' = "write_succeeded" /\ faults' = faults /\ Done
           \/ pc = "statuses" /\ pc' = "announce_succeeded" /\ faults' = faults
           \/ pc = "statuses" /\ pc' = "write_failed" /\ Fault
    BY DEF Prepare, GraphEnds, EmitStatuses, nodeVars, Done
  <1>3. faults' = faults \/ (Fault /\ faults' > 0) BY <1>1, <1>2, FaultFacts
  <1>4. Done' <=> Done BY <1>2 DEF Done
  <1>5. Reported' BY <1>1, <1>2, <1>3, <1>4, LogFacts DEF Reported
  <1> QED BY <1>1, <1>2, <1>3, <1>5, TaskStep DEF TypeOK

-----------------------------------------------------------------------------
(* While the graph runs nothing is claimed, so a node may move. *)
LEMMA GraphReported ==
    ASSUME IndInv, pc = "graph", pc' \in {"graph", "write_failed"}, row' = row, log' = log
    PROVE  Reported'
  BY LogFacts DEF IndInv, Reported

LEMMA NodeStep ==
    ASSUME IndInv, NEW n \in Nodes, pc = "graph", pc' = pc, row' = row, log' = log,
           NEW s \in {"new", "dispatching", "reporting", "succeeded", "failed", "cancelled"},
           node' = [node EXCEPT ![n] = s],
           NEW a \in 1 .. Attempts, attempt' = [attempt EXCEPT ![n] = a],
           NEW k \in 0 .. Attempts, worked' = [worked EXCEPT ![n] = k],
           faults' = faults \/ Fault,
           k <= a, k <= faults' + 1, s \in {"new", "dispatching"} => k < a /\ k <= faults'
    PROVE  IndInv'
  <1>1. TypeOK /\ Worked BY DEF IndInv
  <1>2. faults' \in 0 .. MaxFaults /\ faults \in Nat /\ faults <= faults'
    BY <1>1, FaultFacts DEF TypeOK
  <1>3. TypeOK' BY <1>1, <1>2 DEF TypeOK
  <1>4. Worked'
    <2> SUFFICES ASSUME NEW m \in Nodes
                 PROVE  /\ worked'[m] <= attempt'[m] /\ worked'[m] <= faults' + 1
                        /\ node'[m] \in {"new", "dispatching"} =>
                               worked'[m] < attempt'[m] /\ worked'[m] <= faults'
      BY DEF Worked
    <2>1. CASE m = n
      <3>1. node'[n] = s /\ attempt'[n] = a /\ worked'[n] = k BY <1>1 DEF TypeOK
      <3> QED BY <2>1, <3>1
    <2>2. CASE m # n
      <3>1. node'[m] = node[m] /\ attempt'[m] = attempt[m] /\ worked'[m] = worked[m]
        BY <2>2, <1>1 DEF TypeOK
      <3>2. worked[m] \in Nat BY <1>1 DEF TypeOK
      <3> QED BY <3>1, <3>2, <1>1, <1>2 DEF Worked
    <2> QED BY <2>1, <2>2
  <1>5. Reported' BY GraphReported
  <1> QED BY <1>3, <1>4, <1>5 DEF IndInv

LEMMA ExecutePreserves ==
    ASSUME IndInv, NEW n \in Nodes, Execute(n)
    PROVE  IndInv'
  <1>1. /\ TypeOK /\ attempt[n] \in 1 .. Attempts /\ worked[n] \in 0 .. Attempts
        /\ Attempts \in Nat /\ faults \in Nat
        /\ worked[n] <= attempt[n] /\ worked[n] <= faults + 1
        /\ node[n] \in {"new", "dispatching"} => worked[n] < attempt[n] /\ worked[n] <= faults
    BY LocalAssumption DEF IndInv, TypeOK, Worked, LocalAssumption
  <1>2. /\ attempt = [attempt EXCEPT ![n] = attempt[n]]
        /\ worked = [worked EXCEPT ![n] = worked[n]]
    BY <1>1 DEF TypeOK
  <1>3. pc = "graph" /\ pc' = pc /\ row' = row /\ log' = log
    BY DEF Execute, Sleep, EmitStarted, DispatchReturns, DispatchRaises, EmitSucceeded, At
  <1>4. CASE Sleep(n)
    <2>1. /\ node' = [node EXCEPT ![n] = "succeeded"] /\ attempt' = attempt
          /\ worked' = worked /\ faults' = faults
      BY <1>4 DEF Sleep
    <2> QED BY <2>1, <1>1, <1>2, <1>3, NodeStep
  <1>5. CASE EmitStarted(n)
    <2>1. node[n] = "new" /\ attempt' = attempt /\ worked' = worked
      BY <1>5 DEF EmitStarted, At
    <2>2. CASE node' = [node EXCEPT ![n] = "dispatching"] /\ faults' = faults
      BY <2>1, <2>2, <1>1, <1>2, <1>3, NodeStep
    <2>3. CASE node' = [node EXCEPT ![n] = "failed"] /\ Fault
      <3>1. worked[n] <= faults' + 1 BY <2>3, <1>1, FaultFacts
      <3> QED BY <3>1, <2>1, <2>3, <1>1, <1>2, <1>3, NodeStep
    <2> QED BY <2>2, <2>3, <1>5 DEF EmitStarted
  <1>6. CASE DispatchReturns(n)
    <2> DEFINE k == worked[n] + 1
    <2>1. /\ node[n] = "dispatching" /\ node' = [node EXCEPT ![n] = "reporting"]
          /\ worked' = [worked EXCEPT ![n] = k]
          /\ attempt' = attempt /\ faults' = faults
      BY <1>6 DEF DispatchReturns, At
    <2>2. k \in 0 .. Attempts /\ k <= attempt[n] /\ k <= faults' + 1 BY <2>1, <1>1
    <2> HIDE DEF k
    <2> QED BY <2>1, <2>2, <1>1, <1>2, <1>3, NodeStep
  <1>7. ASSUME Again(n), worked' = worked,
               \/ node[n] = "dispatching" /\ faults' = faults
               \/ node[n] = "reporting" /\ Fault
        PROVE  IndInv'
    <2>1. /\ faults' = faults \/ Fault
          /\ worked[n] <= faults' /\ worked[n] <= faults' + 1
      BY <1>1, <1>7, FaultFacts
    <2>2. CASE attempt[n] < Attempts
      <3> DEFINE a == attempt[n] + 1
      <3>1. /\ attempt' = [attempt EXCEPT ![n] = a]
            /\ node' = [node EXCEPT ![n] = "dispatching"]
        BY <2>2, <1>7 DEF Again
      <3>2. a \in 1 .. Attempts /\ worked[n] < a /\ worked[n] <= a BY <2>2, <1>1
      <3> HIDE DEF a
      <3> QED BY <3>1, <3>2, <2>1, <1>1, <1>2, <1>3, <1>7, NodeStep
    <2>3. CASE ~ (attempt[n] < Attempts)
      <3>1. node' = [node EXCEPT ![n] = "failed"] /\ attempt' = attempt
        BY <2>3, <1>7 DEF Again
      <3> QED BY <3>1, <2>1, <1>1, <1>2, <1>3, <1>7, NodeStep
    <2> QED BY <2>2, <2>3
  <1>8. CASE DispatchRaises(n) BY <1>7, <1>8 DEF DispatchRaises, At
  <1>9. CASE EmitSucceeded(n)
    <2>1. CASE node' = [node EXCEPT ![n] = "succeeded"] /\ attempt' = attempt
               /\ faults' = faults
      <3>1. worked' = worked BY <1>9 DEF EmitSucceeded
      <3> QED BY <3>1, <2>1, <1>1, <1>2, <1>3, NodeStep
    <2>2. CASE Again(n) /\ Fault BY <2>2, <1>7, <1>9 DEF EmitSucceeded, At
    <2> QED BY <2>1, <2>2, <1>9 DEF EmitSucceeded
  <1> QED BY <1>4, <1>5, <1>6, <1>8, <1>9 DEF Execute

LEMMA TimeOutPreserves ==
    ASSUME IndInv, TimeOut
    PROVE  IndInv'
  <1>1. TypeOK /\ Worked BY DEF IndInv
  <1>2. /\ pc = "graph" /\ pc' = "write_failed" /\ node' = Cancelled
        /\ attempt' = attempt /\ worked' = worked /\ row' = row /\ log' = log
        /\ faults' = faults
    BY DEF TimeOut
  <1>3. \A n \in Nodes : node'[n] \in {"succeeded", "failed", "cancelled"}
    BY <1>2 DEF Cancelled
  <1>4. node' \in [Nodes -> {"new", "dispatching", "reporting", "succeeded", "failed",
                             "cancelled"}]
    BY <1>2, <1>3 DEF Cancelled
  <1>5. TypeOK' BY <1>1, <1>2, <1>4 DEF TypeOK
  <1>6. Worked' BY <1>1, <1>2, <1>3 DEF Worked
  <1>7. Reported' BY <1>2, GraphReported
  <1> QED BY <1>5, <1>6, <1>7 DEF IndInv

LEMMA InitEstablishes == Init => IndInv
  <1> SUFFICES ASSUME Init PROVE IndInv OBVIOUS
  <1>1. Attempts \in Nat \ {0} /\ MaxFaults \in Nat BY LocalAssumption DEF LocalAssumption
  <1>2. TypeOK BY <1>1, LogFacts DEF Init, TypeOK
  <1>3. Reported BY LogFacts DEF Init, Reported
  <1>4. Worked BY DEF Init, Worked
  <1> QED BY <1>2, <1>3, <1>4 DEF IndInv

LEMMA NextPreserves == IndInv /\ [Next]_vars => IndInv'
  <1> SUFFICES ASSUME IndInv, [Next]_vars PROVE IndInv' OBVIOUS
  <1>1. CASE Begin BY <1>1, WritePreserves DEF Begin
  <1>2. CASE WriteSucceeded BY <1>2, WritePreserves DEF WriteSucceeded
  <1>3. CASE WriteFailed BY <1>3, WritePreserves DEF WriteFailed
  <1>4. CASE AnnounceSucceeded BY <1>4, ReportPreserves DEF AnnounceSucceeded
  <1>5. CASE AnnounceFailed BY <1>5, ReportPreserves DEF AnnounceFailed
  <1>6. CASE Prepare \/ GraphEnds \/ EmitStatuses BY <1>6, OtherTaskSteps
  <1>7. ASSUME NEW n \in Nodes, Execute(n) PROVE IndInv' BY <1>7, ExecutePreserves
  <1>8. CASE TimeOut BY <1>8, TimeOutPreserves
  <1>9. CASE UNCHANGED vars
    <2>1. UNCHANGED nodeVars /\ pc' = pc /\ row' = row /\ log' = log /\ faults' = faults
      BY <1>9 DEF vars, nodeVars
    <2>2. Done' <=> Done BY <1>9 DEF vars, Done
    <2>3. Reported' BY <2>1, <2>2 DEF IndInv, Reported
    <2> QED BY <2>1, <2>3, TaskStep DEF IndInv, TypeOK
  <1> QED BY <1>1, <1>2, <1>3, <1>4, <1>5, <1>6, <1>7, <1>8, <1>9 DEF Next, Finish

LEMMA Invariance == Spec => []IndInv
  BY InitEstablishes, NextPreserves, PTL DEF Spec

(* Attempts and dispatches stay within retry.attempts (the loop over       *)
(* attempts in execute).                                                   *)
THEOREM LocalTypes == Spec => []TypeOK
  <1>1. IndInv => TypeOK BY DEF IndInv
  <1> QED BY <1>1, Invariance, PTL

(* The row of a run that is over says what its last event says, and success*)
(* is only claimed of a graph that succeeded (the try and its except       *)
(* branches in execute_local_run).                                         *)
THEOREM LocalReportsAgree == Spec => []ReportsAgree
  <1>1. IndInv => ReportsAgree
    <2> SUFFICES ASSUME IndInv PROVE ReportsAgree OBVIOUS
    <2>1. Reported BY DEF IndInv
    <2>2. row = "succeeded" \/ (log # <<>> /\ Head(log) = "succeeded") => Done
      BY <2>1, LogFacts DEF Reported
    <2> QED BY <2>1, <2>2 DEF Reported, ReportsAgree, Done
  <1> QED BY <1>1, Invariance, PTL

(* A dispatch is repeated only for a store call that raised (node_succeeded*)
(* is emitted inside the retried block).                                   *)
THEOREM LocalWorkOnce == Spec => []RepeatedOnlyByFaults
  <1>1. IndInv => RepeatedOnlyByFaults BY DEF IndInv, Worked, RepeatedOnlyByFaults
  <1> QED BY <1>1, Invariance, PTL
=============================================================================
