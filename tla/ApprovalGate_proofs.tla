------------------------ MODULE ApprovalGate_proofs ------------------------
(***************************************************************************)
(* Proofs about ApprovalGate, for any nodes, reviewer calls, timeouts and  *)
(* number of lost publishes.                                               *)
(***************************************************************************)
EXTENDS ApprovalGate, FiniteSetTheorems, TLAPS

(* Nodes whose decision is not in the log. *)
Missing == {n \in Nodes : task[n] = "returned" /\ n \notin recorded}

(* A node has an outcome once it is past its wait, and not before. *)
DecidedOnce ==
    \A n \in Nodes : /\ task[n] \in {"preparing", "parked"} => outcome[n] = "none"
                     /\ task[n] \in {"recording", "returned"} => outcome[n] # "none"

(* What has been signalled is at the gate. *)
Signalled ==
    \A c \in Calls : call[c] \in {"logging", "acknowledged"} /\ about[c] # NoNode =>
        gate[about[c]] # "none"

IndInv == /\ TypeOK
          /\ DecidedOnce
          /\ Signalled
          /\ Cardinality(Missing) <= lost

-----------------------------------------------------------------------------
LEMMA DecisionFacts ==
    /\ Decisions = {"approved", "rejected", "request_changes"}
    /\ \A s \in Signals : Normalized(s) \in Decisions
    /\ "none" \notin Decisions
  BY DEF Decisions, Signals, Normalized

LEMMA MissingFacts ==
    ASSUME TypeOK
    PROVE  IsFiniteSet(Missing) /\ Cardinality(Missing) \in Nat /\ lost \in Nat /\ MaxLost \in Nat
  <1>1. Missing \in SUBSET Nodes BY DEF Missing
  <1>2. IsFiniteSet(Missing) BY <1>1, FS_Subset, GateAssumption DEF GateAssumption
  <1>3. lost \in Nat /\ MaxLost \in Nat BY GateAssumption DEF TypeOK, GateAssumption
  <1> QED BY <1>2, <1>3, FS_CardinalityType

(* A step adds no node to those missing, or one for a publish it loses. *)
LEMMA MissingBound ==
    ASSUME IndInv,
           \/ Missing' \subseteq Missing /\ lost' \in {lost, lost + 1}
           \/ \E n \in Nodes : Missing' \subseteq Missing \cup {n} /\ lost' = lost + 1
    PROVE  Cardinality(Missing') <= lost'
  <1>1. /\ IsFiniteSet(Missing) /\ Cardinality(Missing) \in Nat /\ lost \in Nat
        /\ Cardinality(Missing) <= lost
    BY MissingFacts DEF IndInv
  <1>2. CASE Missing' \subseteq Missing /\ lost' \in {lost, lost + 1}
    <2>1. IsFiniteSet(Missing') /\ Cardinality(Missing') <= Cardinality(Missing)
      BY <1>1, <1>2, FS_Subset
    <2>2. Cardinality(Missing') \in Nat BY <2>1, FS_CardinalityType
    <2> QED BY <2>1, <2>2, <1>1, <1>2
  <1>3. ASSUME NEW n \in Nodes, Missing' \subseteq Missing \cup {n}, lost' = lost + 1
        PROVE  Cardinality(Missing') <= lost'
    <2> DEFINE M == Missing \cup {n}
    <2>1. IsFiniteSet(M) /\ Cardinality(M) \in Nat /\ Cardinality(M) <= Cardinality(Missing) + 1
      <3>1. IsFiniteSet(M) BY <1>1, FS_AddElement
      <3>2. Cardinality(M) = IF n \in Missing THEN Cardinality(Missing)
                                              ELSE Cardinality(Missing) + 1
        BY <1>1, FS_AddElement
      <3>3. CASE n \in Missing BY <3>1, <3>2, <3>3, <1>1
      <3>4. CASE n \notin Missing BY <3>1, <3>2, <3>4, <1>1
      <3> QED BY <3>3, <3>4
    <2>2. IsFiniteSet(Missing') /\ Cardinality(Missing') <= Cardinality(M)
      BY <2>1, <1>3, FS_Subset
    <2>3. Cardinality(Missing') \in Nat BY <2>2, FS_CardinalityType
    <2> HIDE DEF M
    <2> QED BY <2>1, <2>2, <2>3, <1>1, <1>3
  <1> QED BY <1>2, <1>3

LEMMA TurnFacts ==
    ASSUME TypeOK, NEW n \in Nodes, NEW from,
           NEW to \in {"preparing", "parked", "recording", "returned", "cancelled"},
           Turn(n, from, to)
    PROVE  /\ task[n] = from /\ task'[n] = to
           /\ \A m \in Nodes \ {n} : task'[m] = task[m]
           /\ task' \in [Nodes -> {"preparing", "parked", "recording", "returned", "cancelled"}]
  BY DEF TypeOK, Turn

LEMMA PublishFacts ==
    ASSUME TypeOK, NEW s, Publish(s)
    PROVE  status' \in {status, s} /\ lost' \in {lost, lost + 1} /\ lost' \in 0 .. MaxLost
  BY MissingFacts DEF TypeOK, Publish

-----------------------------------------------------------------------------
LEMMA PreparePreserves ==
    ASSUME IndInv, NEW n \in Nodes, Prepare(n)
    PROVE  IndInv'
  <1>1. TypeOK BY DEF IndInv
  <1>2. /\ signal' = signal /\ about' = about /\ call' = call /\ gate' = gate
        /\ outcome' = outcome /\ open' = open /\ recorded' = recorded
        /\ Turn(n, "preparing", "parked") /\ Publish("awaiting_review")
    BY DEF Prepare, calls
  <1>3. /\ task[n] = "preparing" /\ task'[n] = "parked"
        /\ \A m \in Nodes \ {n} : task'[m] = task[m]
        /\ task' \in [Nodes -> {"preparing", "parked", "recording", "returned", "cancelled"}]
    BY <1>1, <1>2, TurnFacts
  <1>4. TypeOK' BY <1>1, <1>2, <1>3, PublishFacts DEF TypeOK
  <1>5. DecidedOnce' BY <1>2, <1>3 DEF IndInv, DecidedOnce
  <1>6. Signalled' BY <1>2 DEF IndInv, Signalled
  <1>7. Missing' \subseteq Missing BY <1>2, <1>3 DEF Missing
  <1> QED BY <1>1, <1>2, <1>4, <1>5, <1>6, <1>7, PublishFacts, MissingBound DEF IndInv

(* The wait ends with decision d. *)
LEMMA DecisionStep ==
    ASSUME IndInv, NEW n \in Nodes, Turn(n, "parked", "recording"),
           NEW d \in Decisions \cup {"timeout"}, outcome' = [outcome EXCEPT ![n] = d],
           UNCHANGED <<calls, call, gate, status, open, recorded, lost>>
    PROVE  IndInv'
  <1>1. TypeOK BY DEF IndInv
  <1>2. /\ signal' = signal /\ about' = about /\ call' = call /\ gate' = gate
        /\ status' = status /\ open' = open /\ recorded' = recorded /\ lost' = lost
    BY DEF calls
  <1>3. /\ task[n] = "parked" /\ task'[n] = "recording"
        /\ \A m \in Nodes \ {n} : task'[m] = task[m]
        /\ task' \in [Nodes -> {"preparing", "parked", "recording", "returned", "cancelled"}]
    BY <1>1, TurnFacts
  <1>4. TypeOK' BY <1>1, <1>2, <1>3 DEF TypeOK
  <1>5. outcome'[n] = d /\ \A m \in Nodes \ {n} : outcome'[m] = outcome[m] BY <1>1 DEF TypeOK
  <1>6. d # "none" BY DecisionFacts
  <1>7. DecidedOnce' BY <1>3, <1>5, <1>6 DEF IndInv, DecidedOnce
  <1>8. Signalled' BY <1>2 DEF IndInv, Signalled
  <1>9. Missing' \subseteq Missing BY <1>2, <1>3 DEF Missing
  <1> QED BY <1>1, <1>2, <1>4, <1>7, <1>8, <1>9, MissingBound DEF IndInv

LEMMA SeeDecisionPreserves ==
    ASSUME IndInv, NEW n \in Nodes, SeeDecision(n)
    PROVE  IndInv'
  <1>1. gate[n] \in Decisions BY DEF IndInv, TypeOK, SeeDecision
  <1> QED BY <1>1, DecisionStep DEF SeeDecision

LEMMA TimeOutPreserves ==
    ASSUME IndInv, NEW n \in Nodes, TimeOut(n)
    PROVE  IndInv'
  BY DecisionStep DEF TimeOut

LEMMA RecordDecisionPreserves ==
    ASSUME IndInv, NEW n \in Nodes, RecordDecision(n)
    PROVE  IndInv'
  <1>1. TypeOK BY DEF IndInv
  <1>2. /\ signal' = signal /\ about' = about /\ call' = call /\ gate' = gate
        /\ outcome' = outcome /\ open' = open
        /\ Turn(n, "recording", "returned")
        /\ \/ /\ status' = StatusAfter(outcome[n]) /\ recorded' = recorded \cup {n}
              /\ lost' = lost
           \/ /\ lost < MaxLost /\ lost' = lost + 1
              /\ status' = status /\ recorded' = recorded
    BY DEF RecordDecision, calls
  <1>3. /\ task[n] = "recording" /\ task'[n] = "returned"
        /\ \A m \in Nodes \ {n} : task'[m] = task[m]
        /\ task' \in [Nodes -> {"preparing", "parked", "recording", "returned", "cancelled"}]
    BY <1>1, <1>2, TurnFacts
  <1>4. outcome[n] \in {"approved", "rejected", "request_changes", "timeout"}
    BY <1>1, <1>3, DecisionFacts DEF IndInv, DecidedOnce, TypeOK
  <1>5. StatusAfter(outcome[n]) \in {"running", "rejected", "escalated", status}
    BY <1>4 DEF StatusAfter
  <1>6. lost' \in 0 .. MaxLost BY <1>1, <1>2, MissingFacts DEF TypeOK
  <1>7. TypeOK' BY <1>1, <1>2, <1>3, <1>5, <1>6 DEF TypeOK
  <1>8. DecidedOnce' BY <1>2, <1>3 DEF IndInv, DecidedOnce
  <1>9. Signalled' BY <1>2 DEF IndInv, Signalled
  <1>10. CASE recorded' = recorded \cup {n} /\ lost' = lost
    <2>1. Missing' \subseteq Missing BY <1>3, <1>10 DEF Missing
    <2> QED BY <2>1, <1>7, <1>8, <1>9, <1>10, MissingBound DEF IndInv
  <1>11. CASE recorded' = recorded /\ lost' = lost + 1
    <2>1. Missing' \subseteq Missing \cup {n} BY <1>3, <1>11 DEF Missing
    <2> QED BY <2>1, <1>7, <1>8, <1>9, <1>11, MissingBound DEF IndInv
  <1> QED BY <1>2, <1>10, <1>11

LEMMA EndPreserves ==
    ASSUME IndInv, Complete \/ RunTimesOut
    PROVE  IndInv'
  <1>1. TypeOK BY DEF IndInv
  <1>2. PICK s \in {"succeeded", "failed"} : Publish(s) BY DEF Complete, RunTimesOut
  <1>3. /\ signal' = signal /\ about' = about /\ call' = call /\ gate' = gate
        /\ outcome' = outcome /\ open' = FALSE /\ recorded' = recorded
    BY DEF Complete, RunTimesOut, calls
  <1>4. /\ task' \in [Nodes -> {"preparing", "parked", "recording", "returned", "cancelled"}]
        /\ \A n \in Nodes : task'[n] \in {task[n], "cancelled"}
        /\ \A n \in Nodes : task'[n] = "returned" => task[n] = "returned"
    BY <1>1 DEF Complete, RunTimesOut, TypeOK
  <1>5. TypeOK' BY <1>1, <1>2, <1>3, <1>4, PublishFacts DEF TypeOK
  <1>6. DecidedOnce' BY <1>3, <1>4 DEF IndInv, DecidedOnce
  <1>7. Signalled' BY <1>3 DEF IndInv, Signalled
  <1>8. Missing' \subseteq Missing BY <1>3, <1>4 DEF Missing
  <1> QED BY <1>1, <1>2, <1>5, <1>6, <1>7, <1>8, PublishFacts, MissingBound DEF IndInv

LEMMA ReviewPreserves ==
    ASSUME IndInv, NEW c \in Calls, Review(c)
    PROVE  IndInv'
  <1>1. TypeOK BY DEF IndInv
  <1>2. /\ signal' = signal /\ about' = about /\ task' = task /\ outcome' = outcome
        /\ status' = status /\ open' = open /\ lost' = lost
    BY DEF Review, CheckStatus, Signal, SignalFails, LogSignal, calls
  <1>3. /\ call' \in [Calls -> {"new", "signalling", "logging", "acknowledged",
                                "conflict", "unavailable"}]
        /\ \A d \in Calls \ {c} : call'[d] = call[d]
    BY <1>1 DEF Review, CheckStatus, Signal, SignalFails, LogSignal, Handle, TypeOK
  <1>4. gate' \in [Nodes -> Decisions \cup {"none"}]
        /\ \A n \in Nodes : gate[n] # "none" => gate'[n] # "none"
    <2>1. CASE Signal(c)
      <3>1. Normalized(signal[c]) \in Decisions /\ Normalized(signal[c]) # "none"
        BY <1>1, DecisionFacts DEF TypeOK
      <3> QED BY <2>1, <3>1, <1>1 DEF Signal, TypeOK
    <2>2. CASE gate' = gate BY <2>2, <1>1 DEF TypeOK
    <2> QED BY <2>1, <2>2 DEF Review, CheckStatus, SignalFails, LogSignal
  <1>5. recorded \subseteq recorded' /\ recorded' \subseteq Nodes \cup Signals
    BY <1>1 DEF Review, CheckStatus, Signal, SignalFails, LogSignal, TypeOK
  <1>6. TypeOK' BY <1>1, <1>2, <1>3, <1>4, <1>5 DEF TypeOK
  <1>7. DecidedOnce' BY <1>2 DEF IndInv, DecidedOnce
  <1>8. Signalled'
    <2> SUFFICES ASSUME NEW d \in Calls, call'[d] \in {"logging", "acknowledged"},
                        about[d] # NoNode
                 PROVE  gate'[about[d]] # "none"
      BY <1>2 DEF Signalled
    <2>1. about[d] \in Nodes BY <1>1 DEF TypeOK
    <2>2. CASE call[d] \in {"logging", "acknowledged"}
      BY <2>1, <2>2, <1>4 DEF IndInv, Signalled
    <2>3. CASE call[d] \notin {"logging", "acknowledged"}
      <3>1. d = c BY <2>3, <1>3
      <3>2. call[c] = "signalling" /\ Signal(c)
        BY <2>3, <3>1, <1>1 DEF Review, CheckStatus, Signal, SignalFails, LogSignal, Handle, TypeOK
      <3>3. gate'[about[c]] = Normalized(signal[c]) BY <2>1, <3>1, <3>2 DEF Signal
      <3> QED BY <3>1, <3>3, <1>1, DecisionFacts DEF TypeOK
    <2> QED BY <2>2, <2>3
  <1>9. Missing' \subseteq Missing BY <1>2, <1>5 DEF Missing
  <1> QED BY <1>2, <1>6, <1>7, <1>8, <1>9, MissingBound DEF IndInv

LEMMA InitEstablishes == Init => IndInv
  <1> SUFFICES ASSUME Init PROVE IndInv OBVIOUS
  <1>1. TypeOK BY GateAssumption DEF Init, TypeOK, GateAssumption
  <1>2. DecidedOnce /\ Signalled BY DEF Init, DecidedOnce, Signalled
  <1>3. Missing = {} /\ lost = 0 BY DEF Init, Missing
  <1> QED BY <1>1, <1>2, <1>3, FS_EmptySet DEF IndInv

LEMMA NextPreserves == IndInv /\ [Next]_vars => IndInv'
  <1> SUFFICES ASSUME IndInv, [Next]_vars PROVE IndInv' OBVIOUS
  <1>1. ASSUME NEW n \in Nodes, Approve(n) PROVE IndInv'
    BY <1>1, PreparePreserves, SeeDecisionPreserves, TimeOutPreserves,
       RecordDecisionPreserves DEF Approve
  <1>2. CASE Complete \/ RunTimesOut BY <1>2, EndPreserves
  <1>3. ASSUME NEW c \in Calls, Review(c) PROVE IndInv' BY <1>3, ReviewPreserves
  <1>4. CASE UNCHANGED vars
    BY <1>4 DEF vars, IndInv, TypeOK, DecidedOnce, Signalled, Missing
  <1> QED BY <1>1, <1>2, <1>3, <1>4 DEF Next

LEMMA Invariance == Spec => []IndInv
  BY InitEstablishes, NextPreserves, PTL DEF Spec

(* Handlers, nodes, decisions and statuses take the values the code gives  *)
(* them; a recorded decision always has a status (_run_approval_node,      *)
(* append_internal_event).                                                 *)
THEOREM GateTypes == Spec => []TypeOK
  <1>1. IndInv => TypeOK BY DEF IndInv
  <1> QED BY <1>1, Invariance, PTL

(* An acknowledged decision about a node has reached its gate, and the log *)
(* lacks no more decisions than publishes have failed.                     *)
THEOREM NoDecisionLost == Spec => []DecisionsArrive
  <1>1. IndInv => DecisionsArrive BY DEF IndInv, Signalled, Missing, DecisionsArrive
  <1> QED BY <1>1, Invariance, PTL

-----------------------------------------------------------------------------
LEMMA RefinesInit == Init => Promise!Init
  BY DEF Init, Promise!Init

(* The end of a wait is a decision or a timeout, a delivered signal is an  *)
(* offer, and no other step shows.                                         *)
LEMMA RefinesNext == IndInv /\ [Next]_vars => [Promise!Next]_(Promise!vars)
  <1> SUFFICES ASSUME IndInv, [Next]_vars, ~ (gate' = gate /\ outcome' = outcome)
               PROVE  Promise!Next
    BY DEF Promise!vars
  <1>1. ASSUME NEW n \in Nodes, SeeDecision(n) PROVE Promise!Next
    <2>1. outcome[n] = "none" BY <1>1 DEF SeeDecision, Turn, IndInv, DecidedOnce
    <2>2. Promise!Decide(n) BY <1>1, <2>1 DEF SeeDecision, Promise!Decide
    <2> QED BY <2>2 DEF Promise!Next
  <1>2. ASSUME NEW n \in Nodes, TimeOut(n) PROVE Promise!Next
    <2>1. outcome[n] = "none" BY <1>2 DEF TimeOut, Turn, IndInv, DecidedOnce
    <2>2. Promise!Expire(n) BY <1>2, <2>1 DEF TimeOut, Promise!Expire
    <2> QED BY <2>2 DEF Promise!Next
  <1>3. ASSUME NEW c \in Calls, Signal(c) PROVE Promise!Next
    <2>1. /\ gate' = [n \in Nodes |-> IF about[c] = n THEN Normalized(signal[c]) ELSE gate[n]]
          /\ outcome' = outcome /\ DOMAIN gate = Nodes
          /\ gate = [n \in Nodes |-> gate[n]]
      BY <1>3 DEF Signal, IndInv, TypeOK
    <2>2. CASE about[c] \notin Nodes
      <3>1. gate' = gate BY <2>1, <2>2
      <3> QED BY <3>1, <2>1
    <2>3. CASE about[c] \in Nodes
      <3>1. Normalized(signal[c]) \in Decisions BY DecisionFacts DEF IndInv, TypeOK
      <3>2. gate' = [gate EXCEPT ![about[c]] = Normalized(signal[c])] BY <2>1, <2>3
      <3>3. Promise!Offer(about[c], Normalized(signal[c])) BY <3>2, <2>1 DEF Promise!Offer
      <3> QED BY <2>3, <3>1, <3>3 DEF Promise!Next
    <2> QED BY <2>2, <2>3
  <1>4. CASE Complete \/ RunTimesOut BY <1>4 DEF Complete, RunTimesOut
  <1>5. ASSUME NEW n \in Nodes, Prepare(n) \/ RecordDecision(n) PROVE FALSE
    BY <1>5 DEF Prepare, RecordDecision
  <1>6. ASSUME NEW c \in Calls, CheckStatus(c) \/ SignalFails(c) \/ LogSignal(c) PROVE FALSE
    BY <1>6 DEF CheckStatus, SignalFails, LogSignal
  <1>7. CASE UNCHANGED vars BY <1>7 DEF vars
  <1> QED BY <1>1, <1>2, <1>3, <1>4, <1>5, <1>6, <1>7 DEF Next, Approve, Review

(* Approval nodes keep the promise of ReviewDecision: one outcome each, the*)
(* latest decision sent, a timeout only while there is none (wait_condition*)
(* within wait_for in _run_approval_node).                                 *)
THEOREM GateKeepsPromise == Spec => KeepsDecision
  <1>1. Promise!Init /\ [][Promise!Next]_(Promise!vars) => KeepsDecision
    BY DEF KeepsDecision, Promise!Spec
  <1> QED BY <1>1, RefinesInit, RefinesNext, Invariance, PTL DEF Spec
=============================================================================
