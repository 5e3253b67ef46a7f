------------------------ MODULE MCTriggerScheduler ------------------------
(* Two API processes and three triggers: a frequent one, a slow one whose  *)
(* slot outlasts the TTL, and one whose config is broken.                  *)
EXTENDS TriggerScheduler

CONSTANTS t1, t2, t3

MCTriggers == {t1, t2, t3}
MCCreated == [t \in MCTriggers |-> CASE t = t1 -> 0 [] t = t2 -> 1 [] t = t3 -> 2]
MCInterval == [t \in MCTriggers |-> IF t = t2 THEN 4 ELSE 2]
=============================================================================
