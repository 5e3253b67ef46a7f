-------------------------- MODULE TriggerScheduler --------------------------
(***************************************************************************)
(* trigger_scheduler_loop and fire_due_triggers (apps/api/app/triggers.py) *)
(* in every API process, over find_run_by_idempotency_key and create_run   *)
(* (apps/api/app/store.py), against a clock.                               *)
(*                                                                         *)
(* A tick takes `now` once, lists the enabled triggers, and works through  *)
(* the list: the slot's idempotency key is looked up, and a run created    *)
(* under it if there is none.  Processes tick at the same time.  Whatever  *)
(* raises in a tick ends it: the loop logs it and sleeps.                  *)
(*                                                                         *)
(* The unit of time is the sleep between two ticks, 30 s, so that the      *)
(* shortest interval, 60 s, is two of them.                                *)
(***************************************************************************)
EXTENDS Naturals, Sequences

CONSTANTS
    Processes,
    Triggers,      \* time triggers with a workflowId
    Created,       \* when each was created: triggers are listed in this order
    Broken,        \* triggers whose config raises (an infinite everyMinutes)
    Interval,      \* _trigger_interval_seconds of each trigger
    Ttl,           \* idempotency_ttl_seconds
    MaxTick,       \* assumed: how long a tick may take
    MaxToggles,    \* bound: operator actions
    MaxRaises,     \* bound: store calls that raise
    Horizon        \* bound: the end of the clock

ASSUME SchedulerAssumption ==
    /\ Processes # {}
    /\ Created \in [Triggers -> Nat]
    /\ Broken \subseteq Triggers
    /\ Interval \in [Triggers -> Nat \ {0, 1}]
    /\ {Ttl, MaxTick, MaxToggles, MaxRaises, Horizon} \subseteq Nat

VARIABLES
    now,
    enabled,    \* enabled time triggers
    runnable,   \* triggers whose workflow is not archived
    wake,       \* when each process's loop wakes up
    began,      \* `now` of its tick
    todo,       \* the triggers its tick has not done yet
    step,       \* the await its loop is at
    index,      \* idempotency_keys: when each slot's key expires
    fired,      \* auxiliary: when the runs of each slot were created
    toggles,
    raises      \* store calls that have raised in a tick

schedulerVars == <<now, enabled, runnable, wake, began, todo, step, index, fired, toggles,
                   raises>>
tickVars == <<wake, began, todo, step>>
storeVars == <<index, fired>>

(* Clocks, sets of triggers, and one key per slot that has fired. *)
SchedulerTypeOK ==
    /\ now \in 0 .. Horizon
    /\ enabled \subseteq Triggers
    /\ runnable \subseteq Triggers
    /\ wake \in [Processes -> Nat]
    /\ began \in [Processes -> 0 .. Horizon]
    /\ todo \in [Processes -> SUBSET Triggers]
    /\ step \in [Processes -> {"asleep", "looking", "creating"}]
    /\ DOMAIN fired \subseteq Triggers \X Nat
    /\ \A k \in DOMAIN fired : fired[k] \in Seq(0 .. now) /\ fired[k] # <<>>
    /\ DOMAIN index = DOMAIN fired
    /\ \A k \in DOMAIN index : index[k] \in 0 .. now + Ttl
    /\ toggles \in 0 .. MaxToggles
    /\ raises \in 0 .. MaxRaises

(* The loops are under way: their last ticks began before the clock does. *)
SchedulerInit ==
    /\ now = 0
    /\ enabled = Triggers
    /\ runnable = Triggers
    /\ wake \in [Processes -> 0 .. MaxTick]
    /\ began = [p \in Processes |-> 0]
    /\ todo = [p \in Processes |-> {}]
    /\ step = [p \in Processes |-> "asleep"]
    /\ index = <<>>
    /\ fired = <<>>
    /\ toggles = 0
    /\ raises = 0

-----------------------------------------------------------------------------
Move(p, from, to) == step[p] = from /\ step' = [step EXCEPT ![p] = to]

(* list_enabled_triggers("time"), and `now`. *)
TickBegins(p) ==
    /\ Move(p, "asleep", "looking")
    /\ wake[p] = now
    /\ began' = [began EXCEPT ![p] = now]
    /\ todo' = [todo EXCEPT ![p] = enabled]
    /\ UNCHANGED <<now, enabled, runnable, wake, storeVars, toggles, raises>>

(* Mutant: the list is ordered newest first.                               *)
IsNextNewest(p, t) == t \in todo[p] /\ \A u \in todo[p] : Created[t] >= Created[u]

(* t is the next trigger of p's list. *)
IsNext(p, t) == t \in todo[p] /\ \A u \in todo[p] : Created[t] <= Created[u]

(* trigger_slot_key: the slot of the tick's own `now`. *)
KeyOf(p, t) == <<t, (began[p] \div Interval[t]) * Interval[t]>>

Unexpired(k) == k \in DOMAIN index /\ index[k] > now

Done(p, t) == /\ todo' = [todo EXCEPT ![p] = @ \ {t}]
              /\ step' = [step EXCEPT ![p] = "looking"]

(* The slot's key exists already: continue with the next trigger. *)
SlotTaken(p, t) ==
    /\ step[p] = "looking"
    /\ IsNext(p, t) /\ t \notin Broken
    /\ Unexpired(KeyOf(p, t))
    /\ Done(p, t)
    /\ UNCHANGED <<now, enabled, runnable, wake, began, storeVars, toggles, raises>>

SlotFree(p, t) ==
    /\ Move(p, "looking", "creating")
    /\ IsNext(p, t) /\ t \notin Broken
    /\ ~Unexpired(KeyOf(p, t))
    /\ UNCHANGED <<now, enabled, runnable, wake, began, todo, storeVars, toggles, raises>>

(* The run of slot k is created now, one more if it had one before. *)
Fire(k) == fired' = [j \in DOMAIN fired \cup {k} |->
                       IF j # k THEN fired[j]
                       ELSE IF k \in DOMAIN fired THEN Append(fired[k], now) ELSE <<now>>]

Index(k) == index' = [j \in DOMAIN index \cup {k} |-> IF j = k THEN now + Ttl ELSE index[j]]

(* Mutant: create_run trusts the lookup.                                   *)
CreateAlways(p, t) ==
    /\ step[p] = "creating"
    /\ IsNext(p, t)
    /\ Index(KeyOf(p, t)) /\ Fire(KeyOf(p, t))
    /\ Done(p, t)
    /\ UNCHANGED <<now, enabled, runnable, wake, began, toggles, raises>>

(* create_run: under the key's lock, a new run unless the key exists by    *)
(* now; its index entry replaces an expired one.                           *)
CreateOnce(k) == IF Unexpired(k) THEN UNCHANGED storeVars ELSE Index(k) /\ Fire(k)

(* _create_run_impl.  A run that Temporal then refuses (503) has been      *)
(* created, and its key stays.                                             *)
Create(p, t) ==
    /\ step[p] = "creating"
    /\ IsNext(p, t) /\ t \in runnable
    /\ CreateOnce(KeyOf(p, t))
    /\ Done(p, t)
    /\ UNCHANGED <<now, enabled, runnable, wake, began, toggles, raises>>

(* An archived workflow answers 409: no run, the tick goes on. *)
CreateRefused(p, t) ==
    /\ step[p] = "creating"
    /\ IsNext(p, t) /\ t \notin runnable
    /\ Done(p, t)
    /\ UNCHANGED <<now, enabled, runnable, wake, began, storeVars, toggles, raises>>

(* The tick is over: asyncio.sleep(interval_s). *)
Sleep(p) ==
    /\ step' = [step EXCEPT ![p] = "asleep"]
    /\ todo' = [todo EXCEPT ![p] = {}]
    /\ wake' = [wake EXCEPT ![p] = now + 1]
    /\ UNCHANGED <<now, enabled, runnable, began, toggles>>

(* All triggers looked at. *)
TickEnds(p) ==
    /\ step[p] = "looking" /\ todo[p] = {}
    /\ Sleep(p)
    /\ UNCHANGED <<storeVars, raises>>

(* What a broken config raises leaves the tick: the triggers after it are  *)
(* not looked at.                                                          *)
TickRaises(p, t) ==
    /\ step[p] = "looking"
    /\ IsNext(p, t) /\ t \in Broken
    /\ Sleep(p)
    /\ UNCHANGED <<storeVars, raises>>

Raise == raises < MaxRaises /\ raises' = raises + 1

(* So does a store call: the list of triggers ... *)
ListRaises(p) ==
    /\ step[p] = "asleep" /\ wake[p] = now
    /\ Raise
    /\ Sleep(p)
    /\ UNCHANGED storeVars

(* ... the lookup of a key ... *)
LookupRaises(p) ==
    /\ step[p] = "looking" /\ todo[p] # {}
    /\ Raise
    /\ Sleep(p)
    /\ UNCHANGED storeVars

(* ... and one of _create_run_impl, before or after the run is created:    *)
(* create_run_for_trigger catches nothing but HTTPException.               *)
CreateRaises(p, t) ==
    /\ step[p] = "creating"
    /\ IsNext(p, t)
    /\ Raise
    /\ \/ UNCHANGED storeVars
       \/ t \in runnable /\ CreateOnce(KeyOf(p, t))
    /\ Sleep(p)

-----------------------------------------------------------------------------
(* An operator toggles a trigger or archives a workflow. *)
Toggle(t) ==
    /\ toggles < MaxToggles
    /\ toggles' = toggles + 1
    /\ \/ /\ enabled' = IF t \in enabled THEN enabled \ {t} ELSE enabled \cup {t}
          /\ UNCHANGED runnable
       \/ runnable' = runnable \ {t} /\ UNCHANGED enabled
    /\ UNCHANGED <<now, tickVars, storeVars, raises>>

(* Loops wake up on time and ticks end within MaxTick. *)
Advance ==
    /\ now < Horizon
    /\ \A p \in Processes : IF step[p] = "asleep" THEN wake[p] > now
                            ELSE now < began[p] + MaxTick
    /\ now' = now + 1
    /\ UNCHANGED <<enabled, runnable, tickVars, storeVars, toggles, raises>>

Look(p, t) == \/ SlotTaken(p, t)
              \/ SlotFree(p, t)
              \/ Create(p, t)
              \/ CreateRefused(p, t)
              \/ TickRaises(p, t)
              \/ CreateRaises(p, t)

SchedulerNext == \/ \E p \in Processes : TickBegins(p)
                 \/ \E p \in Processes, t \in Triggers : Look(p, t)
                 \/ \E p \in Processes : TickEnds(p) \/ ListRaises(p) \/ LookupRaises(p)
                 \/ \E t \in Triggers : Toggle(t)
                 \/ Advance

SchedulerSpec == SchedulerInit /\ [][SchedulerNext]_schedulerVars

-----------------------------------------------------------------------------
Fired(t, slot) == <<t, slot>> \in DOMAIN fired

(* Whatever processes tick at once and however late a tick acts on its     *)
(* slot, two runs of one slot are created a whole TTL apart.  (A slot that *)
(* is longer than the TTL does fire again.)                                *)
RepeatsAreTtlApart ==
    \A k \in DOMAIN fired : \A i \in 2 .. Len(fired[k]) :
        fired[k][i] - fired[k][i - 1] >= Ttl

(* Two ticks of a loop begin at most MaxTick + 1 apart, so a slot as long  *)
(* as this is looked at by a tick in which nothing raises.                 *)
Reach == (raises + 1) * (MaxTick + 1)

(* A run is created by a tick that began in its slot: none comes before    *)
(* the slot, or later than a tick after it.  And as long as no operator    *)
(* interferes every slot that is over has fired, if it is long enough for  *)
(* one tick more than there were raising store calls and no broken trigger *)
(* is listed before it: a tick that raised left the slots of the triggers  *)
(* after it to the next one.                                               *)
SlotsFire ==
    /\ \A k \in DOMAIN fired : \A i \in DOMAIN fired[k] :
        k[2] <= fired[k][i] /\ fired[k][i] < k[2] + Interval[k[1]] + MaxTick
    /\ toggles = 0 =>
        \A t \in Triggers :
            Reach <= Interval[t] /\ (\A b \in Broken : Created[b] > Created[t]) =>
                \A slot \in 0 .. now :
                    slot % Interval[t] = 0 /\ slot + Interval[t] + MaxTick <= now =>
                        Fired(t, slot)
=============================================================================
