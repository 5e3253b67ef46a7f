-------------------------- MODULE RunCreation_proofs --------------------------
(***************************************************************************)
(* What RunCreation keeps for any number of requests, crashes, lost        *)
(* replies and expiries of the key; and, in the second half, what          *)
(* TriggerScheduler, whose ticks create runs, keeps for any processes,     *)
(* triggers, intervals and TTL.                                            *)
(***************************************************************************)
EXTENDS RunCreation, TriggerScheduler, FiniteSetTheorems, TLAPS

(* A handler has a run from create_run on, not before. *)
Placed ==
    \A r \in Requests : /\ pc[r] \in {"new", "creating"} => run[r] = NoRun
                        /\ pc[r] \in Starting => run[r] \in Requests

(* Until it expires, the key names the run of every keyed request that has *)
(* one and of every keyed answer.                                          *)
KeyNamesRun ==
    expiries = 0 =>
        \A r \in Keyed : /\ run[r] # NoRun => run[r] = key
                         /\ answer[r] # NoRun => answer[r] = key

(* The handlers that may have an execution of x to their account: those    *)
(* whose start was confirmed, who fell back, who raised or who died.       *)
Spent(x) ==
    {r \in Requests : run[r] = x /\ pc[r] \in {"confirming", "answered", "raised", "crashed"}}

ExecutionsSpent ==
    \A x \in Requests : Executions(x) + spawned[x] <= Cardinality(Spent(x)) + lost[x]

(* What holds on to a queued run: an execution of it, the handler that     *)
(* inserted it, on its way to starting it, or the local task it was given  *)
(* to.                                                                     *)
Held(x) ==
    \/ Executions(x) > 0
    \/ pc[x] \in Starting /\ run[x] = x
    \/ pc[x] = "answered" /\ ~durable /\ spawned[x] > 0

(* Without it the handler died or raised, or a crash took the task down.   *)
Unforgotten ==
    /\ \A x \in Requests : status[x] = "queued" =>
           \/ Held(x)
           \/ pc[x] \in {"crashed", "raised"}
           \/ pc[x] = "answered" /\ ~durable /\ crashes > 0
    /\ \A r \in Requests : pc[r] = "falling_back" => ~durable

IndInv ==
    /\ TypeOK
    /\ Placed
    /\ KeyNamesRun
    /\ Unforgotten
    /\ ExecutionsSpent

-----------------------------------------------------------------------------
(* Types are preserved by every step. *)
LEMMA TypeNext == TypeOK /\ Placed /\ [Next]_vars => TypeOK'
<1> SUFFICES ASSUME TypeOK, Placed, [Next]_vars PROVE TypeOK'
  OBVIOUS
<1> USE CreationAssumption DEF TypeOK, At, workflowVars, executionVars, boundVars
<1>1. ASSUME NEW r \in Requests, Handle(r) PROVE TypeOK'
  <2>1. CASE RefuseArchived(r) \/ FindExisting(r) \/ FindNothing(r) \/ LookUpRaises(r)
    BY <2>1 DEF RefuseArchived, FindExisting, FindNothing, LookUpRaises, Fault
  <2>2. CASE CreateRun(r) \/ CreateRunRaises(r)
    BY <2>2 DEF CreateRun, CreateRunRaises, Insert, Fault
  <2>3. CASE Announce(r) \/ AnnounceRaises(r)
    BY <2>3 DEF Announce, AnnounceRaises, Announced, Placed, Starting, Fault
  <2>4. CASE StartConfirmed(r)
    BY <2>4 DEF StartConfirmed, StartAccepted, Placed, Starting
  <2>5. CASE StartReplyLost(r)
    BY <2>5 DEF StartReplyLost, StartAccepted, NotConnected, Placed, Starting
  <2>6. CASE StartRefused(r) \/ StartUnreachable(r)
    BY <2>6 DEF StartRefused, StartUnreachable, NotConnected, Fault
  <2>7. CASE Confirm(r) \/ ConfirmRaises(r)
    BY <2>7 DEF Confirm, ConfirmRaises, SetStatus, Answer, Placed, Starting, Fault
  <2>8. CASE RefuseDurable(r) \/ RefuseDurableRaises(r)
    BY <2>8 DEF RefuseDurable, RefuseDurableRaises, SetStatus, Placed, Starting, Fault
  <2>9. CASE FallBack(r)
    BY <2>9 DEF FallBack, Answer, Placed, Starting
  <2>q. QED
    BY <1>1, <2>1, <2>2, <2>3, <2>4, <2>5, <2>6, <2>7, <2>8, <2>9 DEF Handle
<1>2. ASSUME NEW x \in Requests, Execute(x) PROVE TypeOK'
  <2>1. CASE TemporalEnds(x)
    BY <2>1 DEF TemporalEnds, Reported, SetStatus, Fault
  <2>2. CASE LocalBegins(x)
    BY <2>2 DEF LocalBegins, Reported, SetStatus, Fault
  <2>3. CASE LocalEnds(x)
    BY <2>3 DEF LocalEnds, Reported, SetStatus, Fault
  <2>q. QED
    BY <1>2, <2>1, <2>2, <2>3 DEF Execute
<1>3. CASE Archive
  BY <1>3 DEF Archive
<1>4. CASE Expire
  BY <1>4 DEF Expire
<1>5. CASE Crash
  BY <1>5 DEF Crash
<1>6. CASE UNCHANGED vars
  BY <1>6 DEF vars
<1>q. QED
  BY <1>1, <1>2, <1>3, <1>4, <1>5, <1>6 DEF Next

(* Only create_run gives a handler its run. *)
LEMMA PlacedNext == TypeOK /\ Placed /\ [Next]_vars => Placed'
<1> SUFFICES ASSUME TypeOK, Placed, [Next]_vars PROVE Placed'
  OBVIOUS
<1> USE CreationAssumption DEF TypeOK, Placed, Starting, At, workflowVars, executionVars,
                              boundVars
<1>1. ASSUME NEW r \in Requests, Handle(r) PROVE Placed'
  <2>1. CASE RefuseArchived(r) \/ FindExisting(r) \/ FindNothing(r) \/ LookUpRaises(r)
    BY <2>1 DEF RefuseArchived, FindExisting, FindNothing, LookUpRaises
  <2>2. CASE CreateRun(r) \/ CreateRunRaises(r)
    BY <2>2 DEF CreateRun, CreateRunRaises, Duplicate
  <2>3. CASE Announce(r) \/ AnnounceRaises(r) \/ StartConfirmed(r)
    BY <2>3 DEF Announce, AnnounceRaises, StartConfirmed
  <2>4. CASE StartReplyLost(r) \/ StartRefused(r) \/ StartUnreachable(r)
    BY <2>4 DEF StartReplyLost, StartRefused, StartUnreachable, NotConnected
  <2>5. CASE \/ Confirm(r) \/ ConfirmRaises(r) \/ RefuseDurable(r) \/ RefuseDurableRaises(r)
             \/ FallBack(r)
    BY <2>5 DEF Confirm, ConfirmRaises, RefuseDurable, RefuseDurableRaises, FallBack
  <2>q. QED
    BY <1>1, <2>1, <2>2, <2>3, <2>4, <2>5 DEF Handle
<1>2. ASSUME NEW x \in Requests, Execute(x) PROVE Placed'
  BY <1>2 DEF Execute, TemporalEnds, LocalBegins, LocalEnds
<1>3. CASE Archive \/ Expire
  BY <1>3 DEF Archive, Expire
<1>4. CASE Crash
  BY <1>4 DEF Crash
<1>5. CASE UNCHANGED vars
  BY <1>5 DEF vars
<1>q. QED
  BY <1>1, <1>2, <1>3, <1>4, <1>5 DEF Next

-----------------------------------------------------------------------------
(* The key's row and the runs handed out agree until the row expires: the  *)
(* lookup reads the row, the transaction reads it again or writes it.      *)
LEMMA KeyNext == TypeOK /\ Placed /\ KeyNamesRun /\ [Next]_vars => KeyNamesRun'
<1> SUFFICES ASSUME TypeOK, Placed, KeyNamesRun, [Next]_vars PROVE KeyNamesRun'
  OBVIOUS
<1> USE CreationAssumption
    DEF TypeOK, Placed, KeyNamesRun, Starting, At, workflowVars, executionVars,
        boundVars
<1>1. ASSUME NEW r \in Requests, Handle(r) PROVE KeyNamesRun'
  <2>1. CASE RefuseArchived(r) \/ FindNothing(r) \/ LookUpRaises(r)
    BY <2>1 DEF RefuseArchived, FindNothing, LookUpRaises
  <2>2. CASE FindExisting(r)
    BY <2>2 DEF FindExisting
  <2>3. CASE CreateRun(r)
    <3>1. CASE r \notin Keyed
      BY <2>3, <3>1 DEF CreateRun, Duplicate, Insert
    <3>2. CASE r \in Keyed /\ key # NoRun
      BY <2>3, <3>2 DEF CreateRun, Duplicate
    <3>3. CASE r \in Keyed /\ key = NoRun
      BY <2>3, <3>3 DEF CreateRun, Duplicate, Insert
    <3>q. QED
      BY <3>1, <3>2, <3>3
  <2>4. CASE CreateRunRaises(r)
    BY <2>4 DEF CreateRunRaises, Duplicate, Insert
  <2>5. CASE Announce(r) \/ AnnounceRaises(r) \/ StartConfirmed(r) \/ StartReplyLost(r)
    BY <2>5 DEF Announce, AnnounceRaises, StartConfirmed, StartReplyLost
  <2>6. CASE StartRefused(r) \/ StartUnreachable(r) \/ ConfirmRaises(r)
    BY <2>6 DEF StartRefused, StartUnreachable, ConfirmRaises
  <2>7. CASE Confirm(r) \/ FallBack(r)
    BY <2>7 DEF Confirm, FallBack, Answer
  <2>8. CASE RefuseDurable(r) \/ RefuseDurableRaises(r)
    BY <2>8 DEF RefuseDurable, RefuseDurableRaises
  <2>q. QED
    BY <1>1, <2>1, <2>2, <2>3, <2>4, <2>5, <2>6, <2>7, <2>8 DEF Handle
<1>2. ASSUME NEW x \in Requests, Execute(x) PROVE KeyNamesRun'
  BY <1>2 DEF Execute, TemporalEnds, LocalBegins, LocalEnds
<1>3. CASE Archive \/ Crash
  BY <1>3 DEF Archive, Crash
<1>4. CASE Expire
  BY <1>4 DEF Expire
<1>5. CASE UNCHANGED vars
  BY <1>5 DEF vars
<1>q. QED
  BY <1>1, <1>2, <1>3, <1>4, <1>5 DEF Next

-----------------------------------------------------------------------------
(* A queued run keeps the handler that inserted it until it is started or  *)
(* handed to a local task: that handler leaves Starting only so, by        *)
(* writing the status, by raising or in a crash.                           *)
LEMMA UnforgottenNext ==
    TypeOK /\ Placed /\ Unforgotten /\ [Next]_vars => Unforgotten'
<1> SUFFICES ASSUME TypeOK, Placed, Unforgotten, [Next]_vars PROVE Unforgotten'
  OBVIOUS
<1> USE CreationAssumption
    DEF TypeOK, Placed, Starting, Unforgotten, Held, Executions, At, workflowVars,
        executionVars, boundVars
<1>1. ASSUME NEW r \in Requests, Handle(r) PROVE Unforgotten'
  <2>1. CASE RefuseArchived(r) \/ FindExisting(r) \/ FindNothing(r) \/ LookUpRaises(r)
    BY <2>1 DEF RefuseArchived, FindExisting, FindNothing, LookUpRaises
  <2>2. CASE CreateRun(r)
    BY <2>2 DEF CreateRun, Insert
  <2>3. CASE CreateRunRaises(r)
    BY <2>3 DEF CreateRunRaises, Insert
  <2>4. CASE Announce(r) \/ AnnounceRaises(r)
    BY <2>4 DEF Announce, AnnounceRaises
  <2>5. CASE StartConfirmed(r)
    BY <2>5 DEF StartConfirmed, StartAccepted
  <2>6. CASE StartReplyLost(r)
    BY <2>6 DEF StartReplyLost, StartAccepted, NotConnected
  <2>7. CASE StartRefused(r) \/ StartUnreachable(r)
    <3>1. /\ At(r, "starting", NotConnected)
          /\ UNCHANGED <<run, durable, status, started, local, spawned, crashes>>
      BY <2>7 DEF StartRefused, StartUnreachable
    <3>q. QED
      BY <3>1 DEF NotConnected
  <2>8. CASE Confirm(r) \/ ConfirmRaises(r)
    BY <2>8 DEF Confirm, ConfirmRaises, SetStatus
  <2>9. CASE RefuseDurable(r) \/ RefuseDurableRaises(r)
    BY <2>9 DEF RefuseDurable, RefuseDurableRaises, SetStatus
  <2>10. CASE FallBack(r)
    BY <2>10 DEF FallBack
  <2>q. QED
    BY <1>1, <2>1, <2>2, <2>3, <2>4, <2>5, <2>6, <2>7, <2>8, <2>9, <2>10 DEF Handle
<1>2. ASSUME NEW x \in Requests, Execute(x) PROVE Unforgotten'
  <2>1. CASE TemporalEnds(x)
    BY <2>1 DEF TemporalEnds, Reported, SetStatus
  <2>2. CASE LocalBegins(x)
    BY <2>2 DEF LocalBegins, Reported, SetStatus
  <2>3. CASE LocalEnds(x)
    BY <2>3 DEF LocalEnds, Reported, SetStatus
  <2>q. QED
    BY <1>2, <2>1, <2>2, <2>3 DEF Execute
<1>3. CASE Archive \/ Expire
  BY <1>3 DEF Archive, Expire
<1>4. CASE Crash
  BY <1>4 DEF Crash
<1>5. CASE UNCHANGED vars
  BY <1>5 DEF vars
<1>q. QED
  BY <1>1, <1>2, <1>3, <1>4, <1>5 DEF Next

-----------------------------------------------------------------------------
(* A step that takes no handler from the account of x, starts x at most    *)
(* once and pays for it with a lost reply keeps the account of x.          *)
LEMMA AccountKept ==
    ASSUME TypeOK, TypeOK', NEW x \in Requests,
           Executions(x) + spawned[x] <= Cardinality(Spent(x)) + lost[x],
           Spent(x) \subseteq Spent(x)',
           Executions(x)' + spawned'[x] - lost'[x] <= Executions(x) + spawned[x] - lost[x]
    PROVE  Executions(x)' + spawned'[x] <= Cardinality(Spent(x)') + lost'[x]
<1>1. IsFiniteSet(Spent(x)) /\ IsFiniteSet(Spent(x)')
  BY CreationAssumption, FS_Subset DEF Spent
<1>2. /\ Cardinality(Spent(x)) \in Nat
      /\ Cardinality(Spent(x)') \in Nat
      /\ Cardinality(Spent(x)) <= Cardinality(Spent(x)')
  BY <1>1, FS_Subset, FS_CardinalityType
<1>q. QED
  BY <1>2 DEF TypeOK, Executions

(* ... and so does one that starts x once more but puts a handler on it.   *)
LEMMA AccountCharged ==
    ASSUME TypeOK, TypeOK', NEW x \in Requests, NEW r \in Requests,
           Executions(x) + spawned[x] <= Cardinality(Spent(x)) + lost[x],
           r \notin Spent(x), Spent(x)' = Spent(x) \cup {r},
           Executions(x)' + spawned'[x] = Executions(x) + spawned[x] + 1,
           lost'[x] = lost[x]
    PROVE  Executions(x)' + spawned'[x] <= Cardinality(Spent(x)') + lost'[x]
<1>1. IsFiniteSet(Spent(x))
  BY CreationAssumption, FS_Subset DEF Spent
<1>2. /\ Cardinality(Spent(x)) \in Nat
      /\ Cardinality(Spent(x)') = Cardinality(Spent(x)) + 1
  BY <1>1, FS_AddElement, FS_CardinalityType
<1>q. QED
  BY <1>2 DEF TypeOK, Executions

(* The account of every run is kept: a confirmed start and a fallback put  *)
(* their handler on it, a lost reply pays for itself.                      *)
LEMMA SpentNext ==
    TypeOK /\ TypeOK' /\ Placed /\ ExecutionsSpent /\ [Next]_vars => ExecutionsSpent'
<1> SUFFICES ASSUME TypeOK, TypeOK', Placed, ExecutionsSpent, [Next]_vars,
                    NEW x \in Requests
             PROVE  Executions(x)' + spawned'[x] <= Cardinality(Spent(x)') + lost'[x]
  BY DEF ExecutionsSpent
<1> DEFINE Kept == /\ Spent(x) \subseteq Spent(x)'
                   /\ Executions(x)' + spawned'[x] - lost'[x]
                          <= Executions(x) + spawned[x] - lost[x]
           Charged(r) == /\ r \notin Spent(x)
                         /\ Spent(x)' = Spent(x) \cup {r}
                         /\ Executions(x)' + spawned'[x] = Executions(x) + spawned[x] + 1
                         /\ lost'[x] = lost[x]
<1>0. SUFFICES Kept \/ \E r \in Requests : Charged(r)
  BY AccountKept, AccountCharged DEF ExecutionsSpent
<1> USE CreationAssumption
    DEF TypeOK, Placed, Starting, Spent, Executions, At, workflowVars, executionVars,
        boundVars
<1>1. ASSUME NEW r \in Requests, Handle(r) PROVE Kept \/ Charged(r)
  <2>1. CASE RefuseArchived(r) \/ FindExisting(r) \/ FindNothing(r) \/ LookUpRaises(r)
    BY <2>1 DEF RefuseArchived, FindExisting, FindNothing, LookUpRaises
  <2>2. CASE CreateRun(r) \/ CreateRunRaises(r)
    BY <2>2 DEF CreateRun, CreateRunRaises
  <2>3. CASE Announce(r) \/ AnnounceRaises(r)
    BY <2>3 DEF Announce, AnnounceRaises
  <2>4. CASE StartConfirmed(r)
    <3>1. CASE run[r] = x
      BY <2>4, <3>1 DEF StartConfirmed, StartAccepted
    <3>2. CASE run[r] # x
      BY <2>4, <3>2 DEF StartConfirmed, StartAccepted
    <3>q. QED
      BY <3>1, <3>2
  <2>5. CASE StartReplyLost(r)
    BY <2>5 DEF StartReplyLost, StartAccepted, NotConnected
  <2>6. CASE StartRefused(r) \/ StartUnreachable(r)
    BY <2>6 DEF StartRefused, StartUnreachable, NotConnected
  <2>7. CASE Confirm(r) \/ ConfirmRaises(r)
    BY <2>7 DEF Confirm, ConfirmRaises
  <2>8. CASE RefuseDurable(r) \/ RefuseDurableRaises(r)
    BY <2>8 DEF RefuseDurable, RefuseDurableRaises
  <2>9. CASE FallBack(r)
    <3>1. CASE run[r] = x
      BY <2>9, <3>1 DEF FallBack
    <3>2. CASE run[r] # x
      BY <2>9, <3>2 DEF FallBack
    <3>q. QED
      BY <3>1, <3>2
  <2>q. QED
    BY <1>1, <2>1, <2>2, <2>3, <2>4, <2>5, <2>6, <2>7, <2>8, <2>9 DEF Handle
<1>2. ASSUME NEW y \in Requests, Execute(y) PROVE Kept
  BY <1>2 DEF Execute, TemporalEnds, LocalBegins, LocalEnds
<1>3. ASSUME Archive \/ Expire PROVE Kept
  BY <1>3 DEF Archive, Expire
<1>4. ASSUME Crash PROVE Kept
  BY <1>4 DEF Crash
<1>5. ASSUME UNCHANGED vars PROVE Kept
  BY <1>5 DEF vars
<1>q. QED
  BY <1>1, <1>2, <1>3, <1>4, <1>5 DEF Next

-----------------------------------------------------------------------------
LEMMA IndInvInit == Init => IndInv
<1> SUFFICES ASSUME Init PROVE IndInv
  OBVIOUS
<1> USE CreationAssumption DEF Init
<1>0. TypeOK
  <2>1. pc \in [Requests -> {"new", "creating", "announcing", "starting", "confirming",
                             "refusing", "falling_back", "answered", "refused", "raised",
                             "crashed"}]
    OBVIOUS
  <2>2. {archived, durable} \subseteq BOOLEAN
    OBVIOUS
  <2>3. /\ run \in [Requests -> Requests \cup {NoRun}]
        /\ answer \in [Requests -> Requests \cup {NoRun}]
        /\ key \in Requests \cup {NoRun}
    OBVIOUS
  <2>4. /\ status \in [Requests -> {"absent", "queued", "running", "failed", "ended"}]
        /\ temporal \in [Requests -> {"none", "open", "closed"}]
    OBVIOUS
  <2>5. /\ announced \in [Requests -> Nat] /\ started \in [Requests -> Nat]
        /\ spawned \in [Requests -> Nat] /\ local \in [Requests -> Nat]
        /\ alive \in [Requests -> Nat] /\ lost \in [Requests -> Nat]
    OBVIOUS
  <2>6. crashes \in Nat /\ expiries \in Nat /\ faults \in 0 .. MaxFaults
    OBVIOUS
  <2>q. QED
    BY <2>1, <2>2, <2>3, <2>4, <2>5, <2>6, Zenon DEF TypeOK
<1>1. Placed /\ KeyNamesRun /\ Unforgotten
  BY DEF Placed, Starting, KeyNamesRun, Unforgotten
<1>2. ASSUME NEW x \in Requests
      PROVE  Executions(x) + spawned[x] <= Cardinality(Spent(x)) + lost[x]
  <2>1. Spent(x) = {}
    BY DEF Spent
  <2>q. QED
    BY <2>1, FS_EmptySet DEF Executions
<1>q. QED
  BY <1>0, <1>1, <1>2 DEF IndInv, ExecutionsSpent

LEMMA IndInvNext == IndInv /\ [Next]_vars => IndInv'
  BY TypeNext, PlacedNext, KeyNext, UnforgottenNext, SpentNext DEF IndInv

LEMMA IndInvAlways == Spec => []IndInv
  BY IndInvInit, IndInvNext, PTL DEF Spec

(* Rows, handlers and counters keep their types.                           *)
THEOREM CreationTypes == Spec => []TypeOK
<1>1. IndInv => TypeOK
  BY DEF IndInv
<1>q. QED
  BY <1>1, IndInvAlways, PTL

(* Redeliveries are answered with one run: whatever the interleaving of    *)
(* lookups, transactions, starts and crashes, two answers to one key are   *)
(* the same run as long as the key has not expired.                        *)
THEOREM OneRunPerKey == Spec => []SameRunReturned
<1>1. IndInv => SameRunReturned
  BY CreationAssumption DEF IndInv, KeyNamesRun, SameRunReturned
<1>q. QED
  BY <1>1, IndInvAlways, PTL

(* Only a request that got no answer, or a fallback task that died with    *)
(* the process, leaves a run behind in the queue: otherwise                *)
(* _create_run_impl starts, fails or hands on every run that it inserts,   *)
(* however its awaits interleave and whichever of them raise.              *)
THEOREM NothingForgotten == Spec => []QueuedIsUnderWay
<1>1. IndInv => QueuedIsUnderWay
  BY CreationAssumption
     DEF IndInv, TypeOK, Unforgotten, Held, QueuedIsUnderWay, UnderWay, Executions, Starters
<1>q. QED
  BY <1>1, IndInvAlways, PTL

(* Duplicate executions have no source but these: several handlers that    *)
(* left create_run with the same run, and starts whose reply was lost.     *)
THEOREM ExecutionsBounded == Spec => []ExecutionsAccounted
<1>1. IndInv => ExecutionsAccounted
  <2> SUFFICES ASSUME IndInv, NEW x \in Requests
               PROVE  Executions(x) <= Cardinality(Starters(x)) + lost[x]
    BY DEF ExecutionsAccounted
  <2>1. /\ IsFiniteSet(Starters(x)) /\ IsFiniteSet(Spent(x))
        /\ Spent(x) \subseteq Starters(x)
    BY CreationAssumption, FS_Subset DEF Starters, Spent
  <2>2. /\ Cardinality(Spent(x)) \in Nat
        /\ Cardinality(Starters(x)) \in Nat
        /\ Cardinality(Spent(x)) <= Cardinality(Starters(x))
    BY <2>1, FS_Subset, FS_CardinalityType
  <2>q. QED
    BY <2>2 DEF IndInv, ExecutionsSpent, TypeOK, Executions
<1>q. QED
  BY <1>1, IndInvAlways, PTL

-----------------------------------------------------------------------------
(* The trigger scheduler.                                                  *)

(* The key of a slot expires a TTL after the slot's last run. *)
KeysLastATtl == \A k \in DOMAIN fired : index[k] = fired[k][Len(fired[k])] + Ttl

(* No tick outlives MaxTick, and no loop oversleeps. *)
OnTime ==
    \A p \in Processes :
        IF step[p] = "asleep" THEN now <= wake[p]
        ELSE began[p] <= now /\ now <= began[p] + MaxTick

(* Runs are created in their slot or at most a tick after it. *)
FiredInTime ==
    \A k \in DOMAIN fired : \A i \in DOMAIN fired[k] :
        k[2] <= fired[k][i] /\ fired[k][i] < k[2] + Interval[k[1]] + MaxTick

(* t's slots are long enough, and no config raises before t. *)
Prompt(t) == Reach <= Interval[t] /\ \A b \in Broken : Created[b] > Created[t]

SlotsOf(t) == {slot \in Nat : slot % Interval[t] = 0}

(* A slot that has not fired has been looked at by no tick but those that  *)
(* raised: the next begins within Reach, and one that has done with the    *)
(* trigger began before the slot.                                          *)
CaughtUp(p, t) ==
    \A slot \in SlotsOf(t) :
        \/ Fired(t, slot)
        \/ step[p] = "asleep" /\ wake[p] < slot + Reach
        \/ /\ step[p] # "asleep" /\ began[p] < slot + Reach
           /\ t \in todo[p] \/ began[p] < slot

Undisturbed ==
    toggles = 0 => /\ enabled = Triggers
                   /\ runnable = Triggers
                   /\ \A p \in Processes, t \in Triggers : Prompt(t) => CaughtUp(p, t)

SchedulerInv ==
    /\ SchedulerTypeOK
    /\ KeysLastATtl
    /\ RepeatsAreTtlApart
    /\ OnTime
    /\ FiredInTime
    /\ Undisturbed

-----------------------------------------------------------------------------
(* The slot of instant b: its multiple of the interval, and the only one   *)
(* less than an interval before b.                                         *)
LEMMA SlotOf ==
    ASSUME NEW b \in Nat, NEW i \in Nat \ {0}
    PROVE  /\ (b \div i) * i \in Nat
           /\ (b \div i) * i <= b
           /\ b < (b \div i) * i + i
  OBVIOUS

LEMMA OnlySlot ==
    ASSUME NEW b \in Nat, NEW i \in Nat \ {0}, NEW slot \in Nat,
           slot % i = 0, slot <= b, b < slot + i
    PROVE  slot = (b \div i) * i
  OBVIOUS

(* One more call that raises reaches one tick further. *)
LEMMA ReachSteps ==
    ASSUME SchedulerTypeOK
    PROVE  /\ Reach \in Nat /\ MaxTick \in Nat /\ MaxTick < Reach
           /\ raises' = raises + 1 => Reach' = Reach + (MaxTick + 1)
           /\ raises' = raises => Reach' = Reach
<1>1. raises \in Nat /\ MaxTick \in Nat
  BY SchedulerAssumption DEF SchedulerTypeOK
<1>2. ASSUME NEW r \in Nat, NEW m \in Nat
      PROVE  /\ (r + 1) * (m + 1) \in Nat /\ m < (r + 1) * (m + 1)
             /\ ((r + 1) + 1) * (m + 1) = (r + 1) * (m + 1) + (m + 1)
  <2>1. (r + 1) * (m + 1) = r * m + r + m + 1 /\ r * m \in Nat
    OBVIOUS
  <2>2. ((r + 1) + 1) * (m + 1) = r * m + r + 2 * m + 2
    OBVIOUS
  <2> QED
    BY <2>1, <2>2
<1> QED
  BY <1>1, <1>2 DEF Reach

(* The key of a tick's trigger names that trigger and its slot. *)
LEMMA KeyOfTick ==
    ASSUME SchedulerTypeOK, NEW p \in Processes, NEW t \in Triggers
    PROVE  /\ KeyOf(p, t) \in Triggers \X Nat
           /\ KeyOf(p, t)[1] = t
           /\ KeyOf(p, t)[2] <= began[p]
           /\ began[p] < KeyOf(p, t)[2] + Interval[t]
<1>1. began[p] \in Nat /\ Interval[t] \in Nat \ {0}
  BY SchedulerAssumption DEF SchedulerTypeOK
<1> QED
  BY <1>1, SlotOf DEF KeyOf

(* What a tick may do to the store: nothing, or one run more for the slot  *)
(* of a trigger whose key has expired or never was.                        *)
FiresSlot(p, t) ==
    /\ step[p] = "creating"
    /\ ~Unexpired(KeyOf(p, t))
    /\ Index(KeyOf(p, t))
    /\ Fire(KeyOf(p, t))
    /\ now' = now

LEMMA StoreSteps ==
    SchedulerTypeOK /\ [SchedulerNext]_schedulerVars =>
        \/ UNCHANGED storeVars /\ now <= now'
        \/ \E p \in Processes, t \in Triggers : FiresSlot(p, t)
<1> SUFFICES ASSUME SchedulerTypeOK, [SchedulerNext]_schedulerVars
             PROVE  \/ UNCHANGED storeVars /\ now <= now'
                    \/ \E p \in Processes, t \in Triggers : FiresSlot(p, t)
  OBVIOUS
<1>0. now \in Nat
  BY DEF SchedulerTypeOK
<1>1. ASSUME NEW p \in Processes,
             TickBegins(p) \/ TickEnds(p) \/ ListRaises(p) \/ LookupRaises(p)
      PROVE  UNCHANGED storeVars /\ now <= now'
  BY <1>0, <1>1 DEF TickBegins, TickEnds, ListRaises, LookupRaises, Sleep
<1>2. ASSUME NEW p \in Processes, NEW t \in Triggers,
             SlotTaken(p, t) \/ SlotFree(p, t) \/ CreateRefused(p, t) \/ TickRaises(p, t)
      PROVE  UNCHANGED storeVars /\ now <= now'
  BY <1>0, <1>2 DEF SlotTaken, SlotFree, CreateRefused, TickRaises, Sleep
<1>3. ASSUME NEW p \in Processes, NEW t \in Triggers, Create(p, t) \/ CreateRaises(p, t)
      PROVE  (UNCHANGED storeVars /\ now <= now') \/ FiresSlot(p, t)
  BY <1>0, <1>3 DEF Create, CreateRaises, CreateOnce, FiresSlot, Sleep
<1>4. ASSUME NEW t \in Triggers, Toggle(t)
      PROVE  UNCHANGED storeVars /\ now <= now'
  BY <1>0, <1>4 DEF Toggle
<1>5. CASE Advance \/ UNCHANGED schedulerVars
  BY <1>0, <1>5 DEF Advance, schedulerVars, storeVars
<1> QED
  BY <1>1, <1>2, <1>3, <1>4, <1>5 DEF SchedulerNext, Look

(* The runs of the slots after FiresSlot. *)
LEMMA FiredAfter ==
    ASSUME SchedulerTypeOK, NEW p \in Processes, NEW t \in Triggers, FiresSlot(p, t)
    PROVE  LET k == KeyOf(p, t)
           IN /\ DOMAIN fired' = DOMAIN fired \cup {k}
              /\ DOMAIN index' = DOMAIN index \cup {k}
              /\ \A j \in DOMAIN fired \ {k} : fired'[j] = fired[j] /\ index'[j] = index[j]
              /\ index'[k] = now + Ttl
              /\ k \notin DOMAIN fired => fired'[k] = <<now>>
              /\ k \in DOMAIN fired => /\ fired'[k] = Append(fired[k], now)
                                       /\ index[k] <= now
<1>1. DOMAIN index = DOMAIN fired
  BY DEF SchedulerTypeOK
<1>2. \A k \in DOMAIN fired : index[k] \in Nat
  BY <1>1, SchedulerAssumption DEF SchedulerTypeOK
<1>3. now \in Nat
  BY DEF SchedulerTypeOK
<1> QED
  BY <1>1, <1>2, <1>3 DEF FiresSlot, Fire, Index, Unexpired

(* Types are preserved by every step. *)
LEMMA SchedulerTypeNext == SchedulerTypeOK /\ [SchedulerNext]_schedulerVars => SchedulerTypeOK'
<1> SUFFICES ASSUME SchedulerTypeOK, [SchedulerNext]_schedulerVars PROVE SchedulerTypeOK'
  OBVIOUS
<1>1. now' \in 0 .. Horizon /\ now <= now'
  <2>1. CASE Advance
    BY <2>1, SchedulerAssumption DEF Advance, SchedulerTypeOK
  <2>2. CASE now' = now
    BY <2>2, SchedulerAssumption DEF SchedulerTypeOK
  <2> QED
    BY <2>1, <2>2 DEF SchedulerNext, Look, TickBegins, SlotTaken, SlotFree, Create, CreateRefused,
                      TickEnds, TickRaises, ListRaises, LookupRaises, CreateRaises, Sleep,
                      Toggle, schedulerVars
<1>2. /\ DOMAIN fired' \subseteq Triggers \X Nat
      /\ \A k \in DOMAIN fired' : fired'[k] \in Seq(0 .. now') /\ fired'[k] # <<>>
      /\ DOMAIN index' = DOMAIN fired'
      /\ \A k \in DOMAIN index' : index'[k] \in 0 .. now' + Ttl
  <2>0. now \in Nat /\ now' \in Nat /\ Ttl \in Nat
    BY <1>1, SchedulerAssumption DEF SchedulerTypeOK
  <2>1. CASE UNCHANGED storeVars /\ now <= now'
    <3>1. \A k \in DOMAIN fired : fired[k] \in Seq(0 .. now')
      BY <2>0, <2>1 DEF SchedulerTypeOK
    <3>2. \A k \in DOMAIN index : index[k] \in 0 .. now' + Ttl
      BY <2>0, <2>1 DEF SchedulerTypeOK
    <3> QED
      BY <2>1, <3>1, <3>2 DEF SchedulerTypeOK, storeVars
  <2>2. ASSUME NEW p \in Processes, NEW t \in Triggers, FiresSlot(p, t)
        PROVE  <1>2!1 /\ <1>2!2 /\ <1>2!3 /\ <1>2!4
    <3> DEFINE k == KeyOf(p, t)
    <3>1. k \in Triggers \X Nat
      BY KeyOfTick
    <3>2. now' = now /\ now \in 0 .. now /\ now + Ttl \in 0 .. now + Ttl
      BY <2>0, <2>2 DEF FiresSlot
    <3>3. fired'[k] \in Seq(0 .. now) /\ fired'[k] # <<>>
      <4>1. CASE k \in DOMAIN fired
        <5>1. fired[k] \in Seq(0 .. now)
          BY <4>1 DEF SchedulerTypeOK
        <5>2. fired'[k] = Append(fired[k], now)
          BY <2>2, <4>1, FiredAfter
        <5> QED
          BY <3>2, <5>1, <5>2
      <4>2. CASE k \notin DOMAIN fired
        <5>1. fired'[k] = <<now>>
          BY <2>2, <4>2, FiredAfter
        <5> QED
          BY <3>2, <5>1
      <4> QED
        BY <4>1, <4>2
    <3> HIDE DEF k
    <3>4. /\ DOMAIN fired' = DOMAIN fired \cup {k}
          /\ DOMAIN index' = DOMAIN index \cup {k}
          /\ \A j \in DOMAIN fired \ {k} : fired'[j] = fired[j] /\ index'[j] = index[j]
          /\ index'[k] = now + Ttl
      BY <2>2, FiredAfter DEF k
    <3> QED
      BY <3>1, <3>2, <3>3, <3>4 DEF SchedulerTypeOK
  <2> QED
    BY <2>1, <2>2, StoreSteps
<1>3. /\ enabled' \subseteq Triggers
      /\ runnable' \subseteq Triggers
      /\ wake' \in [Processes -> Nat]
      /\ began' \in [Processes -> 0 .. Horizon]
      /\ todo' \in [Processes -> SUBSET Triggers]
      /\ step' \in [Processes -> {"asleep", "looking", "creating"}]
      /\ toggles' \in 0 .. MaxToggles
      /\ raises' \in 0 .. MaxRaises
  <2> USE SchedulerAssumption DEF SchedulerTypeOK
  <2>1. ASSUME NEW p \in Processes, TickBegins(p) PROVE <1>3
    BY <2>1 DEF TickBegins, Move
  <2>2. ASSUME NEW p \in Processes, NEW t \in Triggers,
               SlotTaken(p, t) \/ Create(p, t) \/ CreateRefused(p, t)
        PROVE  <1>3
    BY <2>2 DEF SlotTaken, Create, CreateRefused, Done
  <2>3. ASSUME NEW p \in Processes, NEW t \in Triggers, SlotFree(p, t) PROVE <1>3
    BY <2>3 DEF SlotFree, Move
  <2>4. ASSUME NEW p \in Processes, Sleep(p), Raise \/ UNCHANGED raises PROVE <1>3
    <3>1. now + 1 \in Nat /\ raises' \in 0 .. MaxRaises
      BY <2>4 DEF Raise
    <3> QED
      BY <2>4, <3>1 DEF Sleep
  <2>5. ASSUME NEW t \in Triggers, Toggle(t) PROVE <1>3
    BY <2>5 DEF Toggle, tickVars
  <2>6. CASE Advance \/ UNCHANGED schedulerVars
    BY <2>6 DEF Advance, tickVars, schedulerVars
  <2> QED
    BY <2>1, <2>2, <2>3, <2>4, <2>5, <2>6
       DEF SchedulerNext, Look, TickEnds, TickRaises, ListRaises, LookupRaises, CreateRaises
<1> QED
  BY <1>1, <1>2, <1>3 DEF SchedulerTypeOK

(* A slot fires again only when its key has expired. *)
LEMMA KeysNext ==
    SchedulerTypeOK /\ KeysLastATtl /\ RepeatsAreTtlApart /\ [SchedulerNext]_schedulerVars
        => KeysLastATtl' /\ RepeatsAreTtlApart'
<1> SUFFICES ASSUME SchedulerTypeOK, KeysLastATtl, RepeatsAreTtlApart,
                    [SchedulerNext]_schedulerVars
             PROVE  KeysLastATtl' /\ RepeatsAreTtlApart'
  OBVIOUS
<1>1. CASE UNCHANGED storeVars
  BY <1>1 DEF storeVars, KeysLastATtl, RepeatsAreTtlApart
<1>2. ASSUME NEW p \in Processes, NEW t \in Triggers, FiresSlot(p, t)
      PROVE  KeysLastATtl' /\ RepeatsAreTtlApart'
  <2> DEFINE k == KeyOf(p, t)
  <2> HIDE DEF k
  <2>0. now \in Nat /\ Ttl \in Nat
    BY SchedulerAssumption DEF SchedulerTypeOK
  <2>1. /\ DOMAIN fired' = DOMAIN fired \cup {k}
        /\ \A j \in DOMAIN fired \ {k} : fired'[j] = fired[j] /\ index'[j] = index[j]
        /\ index'[k] = now + Ttl
        /\ k \notin DOMAIN fired => fired'[k] = <<now>>
        /\ k \in DOMAIN fired => /\ fired'[k] = Append(fired[k], now)
                                 /\ index[k] <= now
    BY <1>2, FiredAfter DEF k
  <2>2. /\ fired'[k][Len(fired'[k])] = now
        /\ \A i \in 2 .. Len(fired'[k]) : fired'[k][i] - fired'[k][i - 1] >= Ttl
    <3>1. CASE k \notin DOMAIN fired
      BY <2>0, <2>1, <3>1
    <3>2. CASE k \in DOMAIN fired
      <4> DEFINE s == fired[k]
      <4>1. s \in Seq(Nat) /\ Len(s) \in Nat \ {0}
        <5>1. s \in Seq(0 .. now) /\ s # <<>>
          BY <3>2 DEF SchedulerTypeOK
        <5> QED
          BY <2>0, <5>1
      <4>2. s[Len(s)] + Ttl <= now
        BY <2>1, <3>2 DEF KeysLastATtl
      <4>3. \A i \in 2 .. Len(s) : s[i] - s[i - 1] >= Ttl
        BY <3>2 DEF RepeatsAreTtlApart
      <4>4. fired'[k] = Append(s, now)
        BY <2>1, <3>2
      <4> HIDE DEF s
      <4>5. /\ Len(fired'[k]) = Len(s) + 1
            /\ \A i \in 1 .. Len(s) : fired'[k][i] = s[i] /\ s[i] \in Nat
            /\ fired'[k][Len(s) + 1] = now
        BY <2>0, <4>1, <4>4
      <4>6. ASSUME NEW i \in 2 .. Len(fired'[k])
            PROVE  fired'[k][i] - fired'[k][i - 1] >= Ttl
        <5>1. CASE i = Len(s) + 1
          BY <2>0, <4>1, <4>2, <4>5, <5>1
        <5>2. CASE i # Len(s) + 1
          <6>1. i \in 2 .. Len(s) /\ i \in 1 .. Len(s) /\ i - 1 \in 1 .. Len(s)
            BY <4>1, <4>5, <5>2
          <6> QED
            BY <4>3, <4>5, <6>1
        <5> QED
          BY <5>1, <5>2
      <4> QED
        BY <4>5, <4>6
    <3> QED
      BY <3>1, <3>2
  <2>3. KeysLastATtl'
    BY <2>1, <2>2 DEF KeysLastATtl
  <2>4. RepeatsAreTtlApart'
    BY <2>1, <2>2 DEF RepeatsAreTtlApart
  <2> QED
    BY <2>3, <2>4
<1> QED
  BY <1>1, <1>2, StoreSteps

LEMMA OnTimeNext == SchedulerTypeOK /\ OnTime /\ [SchedulerNext]_schedulerVars => OnTime'
<1> SUFFICES ASSUME SchedulerTypeOK, OnTime, [SchedulerNext]_schedulerVars,
                    NEW q \in Processes
             PROVE  IF step'[q] = "asleep" THEN now' <= wake'[q]
                    ELSE began'[q] <= now' /\ now' <= began'[q] + MaxTick
  BY DEF OnTime
<1> USE SchedulerAssumption DEF SchedulerTypeOK, OnTime
<1>1. ASSUME NEW p \in Processes, TickBegins(p)
      PROVE  IF step'[q] = "asleep" THEN now' <= wake'[q]
             ELSE began'[q] <= now' /\ now' <= began'[q] + MaxTick
  BY <1>1 DEF TickBegins, Move
<1>2. ASSUME NEW p \in Processes, NEW t \in Triggers,
             SlotTaken(p, t) \/ Create(p, t) \/ CreateRefused(p, t)
      PROVE  IF step'[q] = "asleep" THEN now' <= wake'[q]
             ELSE began'[q] <= now' /\ now' <= began'[q] + MaxTick
  BY <1>2 DEF SlotTaken, Create, CreateRefused, Done
<1>3. ASSUME NEW p \in Processes, NEW t \in Triggers, SlotFree(p, t)
      PROVE  IF step'[q] = "asleep" THEN now' <= wake'[q]
             ELSE began'[q] <= now' /\ now' <= began'[q] + MaxTick
  BY <1>3 DEF SlotFree, Move
<1>4. ASSUME NEW p \in Processes, Sleep(p)
      PROVE  IF step'[q] = "asleep" THEN now' <= wake'[q]
             ELSE began'[q] <= now' /\ now' <= began'[q] + MaxTick
  BY <1>4 DEF Sleep
<1>5. CASE Advance
  BY <1>5 DEF Advance, tickVars
<1>6. CASE UNCHANGED <<now, tickVars>>
  BY <1>6 DEF tickVars
<1> QED
  BY <1>1, <1>2, <1>3, <1>4, <1>5, <1>6
     DEF SchedulerNext, Look, TickEnds, TickRaises, ListRaises, LookupRaises, CreateRaises,
         Toggle, schedulerVars, tickVars

(* A tick fires the slot it began in, and does so within MaxTick. *)
LEMMA FiredInTimeNext ==
    SchedulerTypeOK /\ OnTime /\ FiredInTime /\ [SchedulerNext]_schedulerVars => FiredInTime'
<1> SUFFICES ASSUME SchedulerTypeOK, OnTime, FiredInTime, [SchedulerNext]_schedulerVars
             PROVE  FiredInTime'
  OBVIOUS
<1>1. CASE UNCHANGED storeVars
  BY <1>1 DEF storeVars, FiredInTime
<1>2. ASSUME NEW p \in Processes, NEW t \in Triggers, FiresSlot(p, t)
      PROVE  FiredInTime'
  <2> DEFINE k == KeyOf(p, t)
  <2>0. now \in Nat /\ began[p] \in Nat /\ MaxTick \in Nat /\ Interval[t] \in Nat
    BY SchedulerAssumption DEF SchedulerTypeOK
  <2>k. k \in Triggers \X Nat
    BY KeyOfTick
  <2>1. k[1] = t /\ k[2] <= began[p] /\ began[p] < k[2] + Interval[t]
    BY KeyOfTick
  <2>2. began[p] <= now /\ now <= began[p] + MaxTick
    BY <1>2 DEF FiresSlot, OnTime
  <2> HIDE DEF k
  <2>3. k[2] <= now /\ now < k[2] + Interval[k[1]] + MaxTick
    BY <2>0, <2>k, <2>1, <2>2
  <2>4. /\ DOMAIN fired' = DOMAIN fired \cup {k}
        /\ \A j \in DOMAIN fired \ {k} : fired'[j] = fired[j]
        /\ k \notin DOMAIN fired => fired'[k] = <<now>>
        /\ k \in DOMAIN fired => fired'[k] = Append(fired[k], now)
    BY <1>2, FiredAfter DEF k
  <2>5. \A i \in DOMAIN fired'[k] :
            \/ fired'[k][i] = now
            \/ k \in DOMAIN fired /\ i \in DOMAIN fired[k] /\ fired'[k][i] = fired[k][i]
    <3>1. CASE k \notin DOMAIN fired
      BY <2>4, <3>1
    <3>2. CASE k \in DOMAIN fired
      <4> DEFINE s == fired[k]
      <4>1. s \in Seq(0 .. now)
        BY <3>2 DEF SchedulerTypeOK
      <4>2. fired'[k] = Append(s, now)
        BY <2>4, <3>2
      <4> HIDE DEF s
      <4>3. \A i \in DOMAIN Append(s, now) :
                \/ Append(s, now)[i] = now
                \/ i \in DOMAIN s /\ Append(s, now)[i] = s[i]
        BY <4>1
      <4> QED
        BY <3>2, <4>2, <4>3 DEF s
    <3> QED
      BY <3>1, <3>2
  <2> QED
    BY <2>3, <2>4, <2>5 DEF FiredInTime
<1> QED
  BY <1>1, <1>2, StoreSteps

(* A run stays in its slot. *)
LEMMA FiredStays ==
    SchedulerTypeOK /\ [SchedulerNext]_schedulerVars =>
        \A t \in Triggers, slot \in Nat : Fired(t, slot) => Fired(t, slot)'
<1>1. ASSUME SchedulerTypeOK, [SchedulerNext]_schedulerVars
      PROVE  DOMAIN fired \subseteq DOMAIN fired'
  <2>1. CASE UNCHANGED storeVars
    BY <2>1 DEF storeVars
  <2>2. ASSUME NEW p \in Processes, NEW t \in Triggers, FiresSlot(p, t)
        PROVE  DOMAIN fired \subseteq DOMAIN fired'
    BY <1>1, <2>2, FiredAfter
  <2> QED
    BY <1>1, <2>1, <2>2, StoreSteps
<1> QED
  BY <1>1 DEF Fired

(* A tick that has done with t leaves its slot fired. *)
LEMMA DoneFires ==
    ASSUME SchedulerTypeOK, NEW p \in Processes, NEW t \in Triggers, t \in runnable,
           SlotTaken(p, t) \/ Create(p, t) \/ CreateRefused(p, t)
    PROVE  KeyOf(p, t) \in DOMAIN fired'
<1>1. CASE SlotTaken(p, t)
  BY <1>1 DEF SlotTaken, Unexpired, storeVars, SchedulerTypeOK
<1>2. CASE Create(p, t) /\ Unexpired(KeyOf(p, t))
  BY <1>2 DEF Create, CreateOnce, Unexpired, storeVars, SchedulerTypeOK
<1>3. CASE Create(p, t) /\ ~Unexpired(KeyOf(p, t))
  BY <1>3 DEF Create, CreateOnce, Fire
<1> QED
  BY <1>1, <1>2, <1>3 DEF CreateRefused

(* Every step leaves every process caught up with every prompt trigger.    *)
(* p is the process whose state changed, q another.                        *)
LEMMA CaughtUpNext ==
    ASSUME SchedulerTypeOK, OnTime, Undisturbed, [SchedulerNext]_schedulerVars,
           toggles = 0, toggles' = 0, NEW q \in Processes, NEW u \in Triggers, Prompt(u)
    PROVE  CaughtUp(q, u)'
<1>0. /\ now \in Nat /\ began[q] \in Nat /\ wake[q] \in Nat /\ MaxTick \in Nat
      /\ Interval[u] \in Nat \ {0, 1} /\ Reach \in Nat /\ MaxTick < Reach
      /\ Reach <= Interval[u]
  <2>1. Reach \in Nat /\ MaxTick \in Nat /\ MaxTick < Reach /\ Reach <= Interval[u]
    BY ReachSteps DEF Prompt
  <2>2. now \in Nat /\ began[q] \in Nat /\ wake[q] \in Nat
    BY SchedulerAssumption DEF SchedulerTypeOK
  <2> QED
    BY <2>1, <2>2, SchedulerAssumption
<1>1. CaughtUp(q, u) /\ u \in enabled /\ runnable = Triggers
  BY DEF Undisturbed
<1>2. \A slot \in Nat : Fired(u, slot) => Fired(u, slot)'
  BY FiredStays
<1>r. /\ UNCHANGED raises => Reach' = Reach
      /\ Raise => Reach' = Reach + (MaxTick + 1)
  BY ReachSteps DEF Raise
<1>3. ASSUME UNCHANGED <<step[q], wake[q], began[q], todo[q]>>, Raise \/ UNCHANGED raises
      PROVE  CaughtUp(q, u)'
  <2>1. Reach' \in Nat /\ Reach <= Reach'
    BY <1>0, <1>3, <1>r
  <2> QED
    BY <1>0, <1>1, <1>2, <1>3, <2>1 DEF CaughtUp, SlotsOf
<1>4. ASSUME NEW p \in Processes, TickBegins(p)
      PROVE  CaughtUp(q, u)'
  <2>1. CASE p = q
    <3>1. /\ step[q] = "asleep" /\ wake[q] = now
          /\ step'[q] = "looking" /\ began'[q] = now /\ u \in todo'[q]
          /\ UNCHANGED raises
      BY <1>1, <1>4, <2>1 DEF TickBegins, Move, SchedulerTypeOK
    <3> QED
      BY <1>1, <1>2, <1>r, <3>1 DEF CaughtUp, SlotsOf
  <2>2. CASE p # q
    BY <1>3, <1>4, <2>2 DEF TickBegins, Move, SchedulerTypeOK
  <2> QED
    BY <2>1, <2>2
<1>5. ASSUME NEW p \in Processes, NEW t \in Triggers,
             SlotTaken(p, t) \/ Create(p, t) \/ CreateRefused(p, t)
      PROVE  CaughtUp(q, u)'
  <2>0. /\ step' = [step EXCEPT ![p] = "looking"]
        /\ todo' = [todo EXCEPT ![p] = @ \ {t}]
        /\ UNCHANGED <<wake, began, raises>>
        /\ step[p] # "asleep"
    BY <1>5 DEF SlotTaken, Create, CreateRefused, Done
  <2>1. CASE p = q /\ t = u
    <3>1. KeyOf(q, u) \in DOMAIN fired'
      BY <1>1, <1>5, <2>1, DoneFires
    <3>2. /\ step[q] # "asleep" /\ step'[q] # "asleep" /\ began'[q] = began[q]
          /\ Reach' = Reach
      BY <1>r, <2>0, <2>1 DEF SchedulerTypeOK
    <3>3. ASSUME NEW slot \in SlotsOf(u)
          PROVE  \/ Fired(u, slot)'
                 \/ began[q] < slot /\ began[q] < slot + Reach
      <4>0. slot \in Nat /\ slot % Interval[u] = 0
        BY DEF SlotsOf
      <4>1. CASE Fired(u, slot)
        BY <1>2, <4>0, <4>1
      <4>2. CASE slot <= began[q] /\ began[q] < slot + Reach
        <5>1. began[q] < slot + Interval[u]
          BY <1>0, <4>0, <4>2
        <5>2. slot = (began[q] \div Interval[u]) * Interval[u]
          BY <1>0, <4>0, <4>2, <5>1, OnlySlot
        <5> QED
          BY <3>1, <5>2 DEF KeyOf, Fired
      <4>3. Fired(u, slot) \/ began[q] < slot + Reach
        BY <1>1, <3>2 DEF CaughtUp
      <4> QED
        BY <1>0, <4>0, <4>1, <4>2, <4>3
    <3> QED
      BY <3>2, <3>3 DEF CaughtUp, SlotsOf
  <2>2. CASE p = q /\ t # u
    <3>1. /\ step[q] # "asleep" /\ step'[q] # "asleep" /\ began'[q] = began[q]
          /\ u \in todo'[q] <=> u \in todo[q]
      BY <2>0, <2>2 DEF SchedulerTypeOK
    <3> QED
      BY <1>1, <1>2, <1>r, <2>0, <3>1 DEF CaughtUp, SlotsOf
  <2>3. CASE p # q
    BY <1>3, <2>0, <2>3 DEF SchedulerTypeOK
  <2> QED
    BY <2>1, <2>2, <2>3
<1>6. ASSUME NEW p \in Processes, NEW t \in Triggers, SlotFree(p, t)
      PROVE  CaughtUp(q, u)'
  <2>1. /\ step[q] = step'[q] \/ (step[q] # "asleep" /\ step'[q] # "asleep")
        /\ UNCHANGED <<wake, began, todo, raises>>
    BY <1>6 DEF SlotFree, Move, SchedulerTypeOK
  <2> QED
    BY <1>1, <1>2, <1>r, <2>1 DEF CaughtUp, SlotsOf
<1>7. ASSUME NEW p \in Processes, Sleep(p), UNCHANGED raises, step[p] = "looking",
             u \notin todo[p]
      PROVE  CaughtUp(q, u)'
  <2>1. CASE p = q
    <3>1. step[q] # "asleep" /\ step'[q] = "asleep" /\ wake'[q] = now + 1
      BY <1>7, <2>1 DEF Sleep, SchedulerTypeOK
    <3>2. now <= began[q] + MaxTick
      BY <3>1 DEF OnTime
    <3>3. ASSUME NEW slot \in SlotsOf(u) PROVE Fired(u, slot)' \/ now + 1 < slot + Reach
      <4>0. slot \in Nat
        BY DEF SlotsOf
      <4>1. Fired(u, slot) \/ began[q] < slot
        BY <1>1, <1>7, <2>1, <3>1 DEF CaughtUp
      <4> QED
        BY <1>0, <1>2, <3>2, <4>0, <4>1
    <3> QED
      BY <1>7, <1>r, <3>1, <3>3 DEF CaughtUp, SlotsOf
  <2>2. CASE p # q
    BY <1>3, <1>7, <2>2 DEF Sleep, SchedulerTypeOK
  <2> QED
    BY <2>1, <2>2
<1>8. ASSUME NEW p \in Processes, NEW b \in Triggers, TickRaises(p, b)
      PROVE  Sleep(p) /\ UNCHANGED raises /\ step[p] = "looking" /\ u \notin todo[p]
  <2>1. Created[b] \in Nat /\ Created[u] \in Nat
    BY SchedulerAssumption
  <2>2. Created[b] > Created[u]
    BY <1>8 DEF TickRaises, Prompt
  <2> QED
    BY <1>8, <2>1, <2>2 DEF TickRaises, IsNext
<1>9. ASSUME NEW p \in Processes, Sleep(p), Raise,
             step[p] = "asleep" => wake[p] = now
      PROVE  CaughtUp(q, u)'
  <2>1. CASE p = q
    <3>1. step'[q] = "asleep" /\ wake'[q] = now + 1 /\ Reach' = Reach + (MaxTick + 1)
      BY <1>9, <1>r, <2>1 DEF Sleep, SchedulerTypeOK
    <3>2. step[q] # "asleep" => now <= began[q] + MaxTick
      BY DEF OnTime
    <3>3. ASSUME NEW slot \in SlotsOf(u)
          PROVE  Fired(u, slot)' \/ now + 1 < slot + (Reach + (MaxTick + 1))
      <4>0. slot \in Nat
        BY DEF SlotsOf
      <4>1. \/ Fired(u, slot)
            \/ step[q] = "asleep" /\ wake[q] < slot + Reach
            \/ step[q] # "asleep" /\ began[q] < slot + Reach
        BY <1>1 DEF CaughtUp
      <4> QED
        BY <1>0, <1>2, <1>9, <2>1, <3>2, <4>0, <4>1
    <3> QED
      BY <3>1, <3>3 DEF CaughtUp, SlotsOf
  <2>2. CASE p # q
    BY <1>3, <1>9, <2>2 DEF Sleep, SchedulerTypeOK
  <2> QED
    BY <2>1, <2>2
<1>10. ASSUME NEW p \in Processes, NEW t \in Triggers,
              ListRaises(p) \/ LookupRaises(p) \/ CreateRaises(p, t)
       PROVE  Sleep(p) /\ Raise /\ (step[p] = "asleep" => wake[p] = now)
  BY <1>10 DEF ListRaises, LookupRaises, CreateRaises
<1>11. CASE UNCHANGED <<tickVars, raises>>
  BY <1>3, <1>11 DEF tickVars
<1>12. ASSUME NEW p \in Processes, TickEnds(p)
       PROVE  Sleep(p) /\ UNCHANGED raises /\ step[p] = "looking" /\ u \notin todo[p]
  BY <1>12 DEF TickEnds
<1> QED
  BY <1>4, <1>5, <1>6, <1>7, <1>8, <1>9, <1>10, <1>11, <1>12
     DEF SchedulerNext, Look, Toggle, Advance, schedulerVars, tickVars

(* Calls that have raised have raised. *)
LEMMA ReachGrows ==
    ASSUME SchedulerTypeOK, [SchedulerNext]_schedulerVars,
           NEW t \in Triggers, Reach' <= Interval[t]
    PROVE  Reach <= Interval[t]
<1>1. Raise \/ UNCHANGED raises
  <2>1. ASSUME NEW p \in Processes, NEW b \in Triggers, Look(p, b)
        PROVE  Raise \/ UNCHANGED raises
    BY <2>1 DEF Look, SlotTaken, SlotFree, Create, CreateRefused, TickRaises, CreateRaises
  <2>2. ASSUME NEW p \in Processes,
               TickBegins(p) \/ TickEnds(p) \/ ListRaises(p) \/ LookupRaises(p)
        PROVE  Raise \/ UNCHANGED raises
    BY <2>2 DEF TickBegins, TickEnds, ListRaises, LookupRaises
  <2> QED
    BY <2>1, <2>2 DEF SchedulerNext, Toggle, Advance, schedulerVars
<1>2. Reach \in Nat /\ MaxTick \in Nat /\ Interval[t] \in Nat
  BY SchedulerAssumption, ReachSteps
<1>3. Reach' = Reach \/ Reach' = Reach + (MaxTick + 1)
  BY <1>1, ReachSteps DEF Raise
<1> QED
  BY <1>2, <1>3

LEMMA UndisturbedNext ==
    SchedulerTypeOK /\ OnTime /\ Undisturbed /\ [SchedulerNext]_schedulerVars => Undisturbed'
<1> SUFFICES ASSUME SchedulerTypeOK, OnTime, Undisturbed, [SchedulerNext]_schedulerVars,
                    toggles' = 0
             PROVE  /\ enabled' = Triggers
                    /\ runnable' = Triggers
                    /\ \A p \in Processes, t \in Triggers : Prompt(t)' => CaughtUp(p, t)'
  BY DEF Undisturbed
<1>1. toggles = 0 /\ UNCHANGED <<enabled, runnable>>
  <2>1. ~\E t \in Triggers : Toggle(t)
    BY DEF Toggle, SchedulerTypeOK
  <2>2. ASSUME NEW p \in Processes, NEW t \in Triggers, Look(p, t)
        PROVE  UNCHANGED <<toggles, enabled, runnable>>
    BY <2>2 DEF Look, SlotTaken, SlotFree, Create, CreateRefused, TickRaises, CreateRaises, Sleep
  <2>3. ASSUME NEW p \in Processes,
               TickBegins(p) \/ TickEnds(p) \/ ListRaises(p) \/ LookupRaises(p)
        PROVE  UNCHANGED <<toggles, enabled, runnable>>
    BY <2>3 DEF TickBegins, TickEnds, ListRaises, LookupRaises, Sleep
  <2> QED
    BY <2>1, <2>2, <2>3 DEF SchedulerNext, Advance, schedulerVars
<1>2. ASSUME NEW t \in Triggers, Prompt(t)' PROVE Prompt(t)
  <2>1. Reach' <= Interval[t]
    BY <1>2 DEF Prompt
  <2>2. Reach <= Interval[t]
    BY <2>1, ReachGrows
  <2> QED
    BY <1>2, <2>2 DEF Prompt
<1> QED
  BY <1>1, <1>2, CaughtUpNext DEF Undisturbed

-----------------------------------------------------------------------------
LEMMA SchedulerInvInit == SchedulerInit => SchedulerInv
<1> SUFFICES ASSUME SchedulerInit PROVE SchedulerInv
  OBVIOUS
<1> USE SchedulerAssumption DEF SchedulerInit
<1>1. SchedulerTypeOK
  BY DEF SchedulerTypeOK
<1>2. KeysLastATtl /\ RepeatsAreTtlApart /\ FiredInTime
  BY DEF KeysLastATtl, RepeatsAreTtlApart, FiredInTime
<1>3. OnTime
  <2>1. ASSUME NEW p \in Processes PROVE step[p] = "asleep" /\ now <= wake[p]
    <3>1. step[p] = "asleep" /\ now = 0 /\ wake[p] \in Nat
      OBVIOUS
    <3> QED
      BY <3>1
  <2> QED
    BY <2>1 DEF OnTime
<1>4. ASSUME NEW p \in Processes, NEW t \in Triggers, NEW slot \in SlotsOf(t)
      PROVE  step[p] = "asleep" /\ wake[p] < slot + Reach
  <2>1. slot \in Nat /\ wake[p] \in 0 .. MaxTick
    BY DEF SlotsOf
  <2>2. Reach \in Nat /\ MaxTick \in Nat /\ MaxTick < Reach
    BY <1>1, ReachSteps
  <2> QED
    BY <2>1, <2>2
<1>5. Undisturbed
  BY <1>4 DEF Undisturbed, CaughtUp
<1> QED
  BY <1>1, <1>2, <1>3, <1>5 DEF SchedulerInv

LEMMA SchedulerInvNext == SchedulerInv /\ [SchedulerNext]_schedulerVars => SchedulerInv'
  BY SchedulerTypeNext, KeysNext, OnTimeNext, FiredInTimeNext, UndisturbedNext DEF SchedulerInv

LEMMA SchedulerInvAlways == SchedulerSpec => []SchedulerInv
  BY SchedulerInvInit, SchedulerInvNext, PTL DEF SchedulerSpec

(* TriggerScheduler's variables keep their types. *)
THEOREM SchedulerTypes == SchedulerSpec => []SchedulerTypeOK
<1>1. SchedulerInv => SchedulerTypeOK
  BY DEF SchedulerInv
<1> QED
  BY <1>1, SchedulerInvAlways, PTL

(* create_run's second look under the key's lock: however many processes   *)
(* tick at once, and at whatever interval, a slot's runs are a TTL apart.  *)
THEOREM RepeatsApart == SchedulerSpec => []RepeatsAreTtlApart
<1>1. SchedulerInv => RepeatsAreTtlApart
  BY DEF SchedulerInv
<1> QED
  BY <1>1, SchedulerInvAlways, PTL

(* fire_due_triggers fires a slot in time; and however processes, slots    *)
(* and raising store calls meet, it misses none that is long enough for    *)
(* one tick more than there were such calls.                               *)
THEOREM NoSlotMissed == SchedulerSpec => []SlotsFire
<1>1. SchedulerInv => SlotsFire
  <2> SUFFICES ASSUME SchedulerInv PROVE SlotsFire
    OBVIOUS
  <2>1. ASSUME toggles = 0, NEW t \in Triggers, Prompt(t),
               NEW slot \in 0 .. now, slot % Interval[t] = 0,
               slot + Interval[t] + MaxTick <= now
        PROVE  Fired(t, slot)
    <3>1. PICK p \in Processes : TRUE
      BY SchedulerAssumption
    <3>2. /\ now \in Nat /\ began[p] \in Nat /\ wake[p] \in Nat /\ MaxTick \in Nat
          /\ Interval[t] \in Nat /\ slot \in Nat /\ Reach \in Nat /\ Reach <= Interval[t]
      <4>1. SchedulerTypeOK
        BY DEF SchedulerInv
      <4>2. Reach \in Nat
        BY <4>1, ReachSteps
      <4> QED
        BY <2>1, <4>1, <4>2, SchedulerAssumption DEF SchedulerTypeOK, Prompt
    <3>3. CaughtUp(p, t) /\ slot \in SlotsOf(t)
      BY <2>1, <3>2 DEF SchedulerInv, Undisturbed, SlotsOf
    <3>4. \/ Fired(t, slot)
          \/ step[p] = "asleep" /\ wake[p] < slot + Reach
          \/ step[p] # "asleep" /\ began[p] < slot + Reach
      BY <3>3 DEF CaughtUp
    <3>5. IF step[p] = "asleep" THEN now <= wake[p] ELSE now <= began[p] + MaxTick
      BY DEF SchedulerInv, OnTime
    <3> QED
      BY <2>1, <3>2, <3>4, <3>5
  <2> QED
    BY <2>1 DEF SlotsFire, SchedulerInv, FiredInTime, Prompt
<1> QED
  BY <1>1, SchedulerInvAlways, PTL
=============================================================================
