--------------------------- MODULE Stores_proofs ---------------------------
(***************************************************************************)
(* Proofs about Stores.  Every safety property of the runs depends on what *)
(* a handler has done before the statement it is about to make, so the     *)
(* proofs start from the plans: which statements a request makes, in which *)
(* order, and that a step only ever drops statements from the front of a   *)
(* plan.  A fact that a statement establishes is then stated of a plan in  *)
(* which a later statement is no longer preceded by it.  For the two       *)
(* stores to be in step the order of the statements matters as well, and   *)
(* how far the request at work has taken one store ahead of the other: the *)
(* last part.                                                              *)
(***************************************************************************)
EXTENDS Stores, SequenceTheorems, TLAPS

(* Every w of the plan s comes after one of the statements g. *)
Preceded(s, g, w) == \A n \in 1 .. Len(s) : s[n] = w => \E m \in 1 .. n - 1 : s[m] \in g

(* Which requests make a statement, and in which mode. *)
Fits(m, k, w) ==
    /\ w # "unstarted"
    /\ w \in {"refused", "failed"} \/ (w = "whole" <=> m = "memory")
    /\ w \in {"memory", "memory_ensure", "memory_upsert"} => m \in {"dual_sql", "dual_memory"}
    /\ w = "ensure" => k \in {"CreateProject", "RunProject"}
    /\ w = "update" => k \in Patches
    /\ w = "update_trigger" => k = "PatchTrigger"
    /\ w = "delete_project" => k = "DeleteProject"
    /\ w \in {"count", "delete_workflow"} => k = "DeleteWorkflow"
    /\ w \in {"load", "insert_run"} => k \in Runs
    /\ w = "upsert" => k \in Writers
    /\ w \in {"memory_ensure", "memory_upsert"} => k = "RunProject"
    /\ w = "insert_workflow" => k = "CreateWorkflow"
    /\ w = "status" => k \in {"PublishWorkflow", "ArchiveWorkflow"}
    /\ k = "ArchiveWorkflow" => w \in {"whole", "memory", "status", "refused", "failed"}

PlanOK(m, k, s) ==
    /\ s \in Seq(Statements)
    /\ \A n \in 1 .. Len(s) :
          /\ Fits(m, k, s[n])
          /\ s[n] \in {"ensure", "update", "update_trigger"}
                 => n < Len(s) /\ s[n + 1] = "invalidate"
          /\ s[n] \in {"row", "fill"} => n = 1
          /\ s[n] = "whole" => Len(s) = 1
          /\ k \in Patches /\ s[n] = "memory" => n = 1
          /\ k = "ArchiveWorkflow" /\ s[n] = "memory" => n < Len(s) /\ s[n + 1] = "status"

(* Where RunProject brings its graph to the reader. *)
OwnUpsert(m) == IF m = "dual_memory" THEN "memory_upsert" ELSE "upsert"

(* Where a PATCH gives the reader its field. *)
Applies(m) == IF m = "memory" THEN "whole" ELSE IF m = "dual_memory" THEN "memory" ELSE "update"

(* The statements a new plan does not make before those they rely on. *)
InTurn(m, k, s) ==
    /\ \A n \in 1 .. Len(s) : s[n] \notin {"row", "fill", "refused", "failed"}
    /\ k \in Patches => /\ Preceded(s, {"find", "row", "fill"}, "update")
                         /\ \E n \in 1 .. Len(s) : s[n] = Applies(m)
    /\ k \in Runs => /\ Preceded(s, {"load"}, "insert_run")
                     /\ Preceded(s, {"load"}, "memory")
    /\ k = "RunProject" => Preceded(s, {OwnUpsert(m)}, "load")
    /\ k = "DeleteWorkflow" => /\ Preceded(s, {"count"}, "delete_workflow")
                               /\ Preceded(s, {"count"}, "memory")

-----------------------------------------------------------------------------
(* The plans, statement by statement, in each mode. *)

Spells(s, t) == Len(s) = Len(t) /\ \A n \in 1 .. Len(t) : s[n] = t[n]

LEMMA ModeFacts ==
    ASSUME mode \in Modes
    PROVE  mode \in {"memory", "postgres", "dual_sql", "dual_memory"}
  BY StoreAssumption

LEMMA Joined ==
    ASSUME NEW p \in Seq(Statements), NEW q \in Seq(Statements)
    PROVE  p \o q \in Seq(Statements)
  OBVIOUS

LEMMA Chosen ==
    ASSUME NEW p \in Seq(Statements)
    PROVE  /\ InDual(p) \in Seq(Statements) /\ FromSql(p) \in Seq(Statements)
           /\ InDualSql(p) \in Seq(Statements) /\ InDualMem(p) \in Seq(Statements)
  BY DEF InDual, FromSql, InDualSql, InDualMem

LEMMA Singles ==
    \A w \in Statements : <<w>> \in Seq(Statements)
  OBVIOUS

LEMMA PlanOfTyped ==
    ASSUME NEW k \in Kinds
    PROVE  PlanOf(k) \in Seq(Statements)
<1>1. /\ <<"whole">> \in Seq(Statements) /\ <<"memory">> \in Seq(Statements)
      /\ <<"memory_ensure">> \in Seq(Statements) /\ <<"memory_upsert">> \in Seq(Statements)
      /\ <<"find">> \in Seq(Statements) /\ <<"answer">> \in Seq(Statements)
      /\ <<"delete_project">> \in Seq(Statements) /\ <<"secret">> \in Seq(Statements)
      /\ <<"delete_trigger">> \in Seq(Statements) /\ <<"vacant">> \in Seq(Statements)
      /\ <<"insert_workflow">> \in Seq(Statements) /\ <<"status">> \in Seq(Statements)
      /\ <<"exists">> \in Seq(Statements) /\ <<"load">> \in Seq(Statements)
      /\ <<"insert_run">> \in Seq(Statements)
  BY Singles DEF Statements
<1>2. /\ Ensure \in Seq(Statements)
      /\ <<"insert_project", "invalidate">> \in Seq(Statements)
      /\ <<"find", "update", "invalidate">> \in Seq(Statements)
      /\ <<"find", "secret", "update", "invalidate">> \in Seq(Statements)
      /\ <<"insert_trigger", "invalidate">> \in Seq(Statements)
      /\ <<"update_trigger", "invalidate">> \in Seq(Statements)
      /\ <<"memory", "upsert">> \in Seq(Statements)
      /\ <<"count", "delete_workflow">> \in Seq(Statements)
      /\ <<"upsert", "load">> \in Seq(Statements)
  BY DEF Ensure, Statements
<1>3. PlanOf("CreateProject") \in Seq(Statements)
  BY <1>1, <1>2, Joined, Chosen DEF PlanOf
<1>4. PlanOf("GetProject") \in Seq(Statements)
  BY <1>1, <1>2, Joined, Chosen DEF PlanOf
<1>5. PlanOf("PatchName") \in Seq(Statements)
  BY <1>1, <1>2, Joined, Chosen DEF PlanOf
<1>6. PlanOf("PatchConfigs") \in Seq(Statements)
  BY <1>1, <1>2, Joined, Chosen DEF PlanOf
<1>7. PlanOf("DeleteProject") \in Seq(Statements)
  BY <1>1, <1>2, Joined, Chosen DEF PlanOf
<1>8. PlanOf("PutSecret") \in Seq(Statements)
  BY <1>1, <1>2, Joined, Chosen DEF PlanOf
<1>9. PlanOf("CreateTrigger") \in Seq(Statements)
  BY <1>1, <1>2, Joined, Chosen DEF PlanOf
<1>10. PlanOf("PatchTrigger") \in Seq(Statements)
  BY <1>1, <1>2, Joined, Chosen DEF PlanOf
<1>11. PlanOf("DeleteTrigger") \in Seq(Statements)
  BY <1>1, <1>2, Joined, Chosen DEF PlanOf
<1>12. PlanOf("CreateWorkflow") \in Seq(Statements)
  BY <1>1, <1>2, Joined, Chosen DEF PlanOf
<1>13. PlanOf("PublishWorkflow") \in Seq(Statements)
  BY <1>1, <1>2, Joined, Chosen DEF PlanOf
<1>14. PlanOf("ArchiveWorkflow") \in Seq(Statements)
  BY <1>1, <1>2, Joined, Chosen DEF PlanOf
<1>15. PlanOf("DeleteWorkflow") \in Seq(Statements)
  BY <1>1, <1>2, Joined, Chosen DEF PlanOf
<1>16. PlanOf("RunWorkflow") \in Seq(Statements)
  BY <1>1, <1>2, Joined, Chosen DEF PlanOf
<1>17. PlanOf("RunProject") \in Seq(Statements)
  BY <1>1, <1>2, Joined, Chosen DEF PlanOf
<1> QED
  BY <1>3, <1>4, <1>5, <1>6, <1>7, <1>8, <1>9, <1>10,
     <1>11, <1>12, <1>13, <1>14, <1>15, <1>16, <1>17 DEF Kinds

LEMMA PlansPostgres ==
    ASSUME mode = "postgres", NEW k \in Kinds
    PROVE  PlanOK(mode, k, PlanOf(k)) /\ InTurn(mode, k, PlanOf(k))
<1> DEFINE s == PlanOf(k)
<1>0. s \in Seq(Statements)
  BY PlanOfTyped
<1> HIDE DEF s
<1> USE DEF Spells, Dual, ReadsSql, PlanOK, Fits, InTurn, Preceded, OwnUpsert, Applies,
           Patches, Runs, Writers
<1>1. ASSUME k = "CreateProject"
       PROVE  PlanOK(mode, k, s) /\ InTurn(mode, k, s)
  <2>1. Spells(s, <<"insert_project", "invalidate">>)
    BY <1>1 DEF s, PlanOf, InDual, FromSql, InDualSql, InDualMem, Ensure
  <2> QED
    BY <1>0, <1>1, <2>1
<1>2. ASSUME k = "GetProject"
       PROVE  PlanOK(mode, k, s) /\ InTurn(mode, k, s)
  <2>1. Spells(s, <<"find">>)
    BY <1>2 DEF s, PlanOf, InDual, FromSql, InDualSql, InDualMem, Ensure
  <2> QED
    BY <1>0, <1>2, <2>1
<1>3. ASSUME k = "PatchName"
       PROVE  PlanOK(mode, k, s) /\ InTurn(mode, k, s)
  <2>1. Spells(s, <<"find", "update", "invalidate">>)
    BY <1>3 DEF s, PlanOf, InDual, FromSql, InDualSql, InDualMem, Ensure
  <2>2. 2 \in 1 .. Len(s) /\ s[2] = Applies(mode)
    BY <2>1
  <2> QED
    BY <1>0, <1>3, <2>1, <2>2
<1>4. ASSUME k = "PatchConfigs"
       PROVE  PlanOK(mode, k, s) /\ InTurn(mode, k, s)
  <2>1. Spells(s, <<"find", "secret", "update", "invalidate">>)
    BY <1>4 DEF s, PlanOf, InDual, FromSql, InDualSql, InDualMem, Ensure
  <2>2. 3 \in 1 .. Len(s) /\ s[3] = Applies(mode)
    BY <2>1
  <2> QED
    BY <1>0, <1>4, <2>1, <2>2
<1>5. ASSUME k = "DeleteProject"
       PROVE  PlanOK(mode, k, s) /\ InTurn(mode, k, s)
  <2>1. Spells(s, <<"delete_project">>)
    BY <1>5 DEF s, PlanOf, InDual, FromSql, InDualSql, InDualMem, Ensure
  <2> QED
    BY <1>0, <1>5, <2>1
<1>6. ASSUME k = "PutSecret"
       PROVE  PlanOK(mode, k, s) /\ InTurn(mode, k, s)
  <2>1. Spells(s, <<"find", "secret">>)
    BY <1>6 DEF s, PlanOf, InDual, FromSql, InDualSql, InDualMem, Ensure
  <2> QED
    BY <1>0, <1>6, <2>1
<1>7. ASSUME k = "CreateTrigger"
       PROVE  PlanOK(mode, k, s) /\ InTurn(mode, k, s)
  <2>1. Spells(s, <<"find", "insert_trigger", "invalidate">>)
    BY <1>7 DEF s, PlanOf, InDual, FromSql, InDualSql, InDualMem, Ensure
  <2> QED
    BY <1>0, <1>7, <2>1
<1>8. ASSUME k = "PatchTrigger"
       PROVE  PlanOK(mode, k, s) /\ InTurn(mode, k, s)
  <2>1. Spells(s, <<"find", "update_trigger", "invalidate">>)
    BY <1>8 DEF s, PlanOf, InDual, FromSql, InDualSql, InDualMem, Ensure
  <2> QED
    BY <1>0, <1>8, <2>1
<1>9. ASSUME k = "DeleteTrigger"
       PROVE  PlanOK(mode, k, s) /\ InTurn(mode, k, s)
  <2>1. Spells(s, <<"delete_trigger">>)
    BY <1>9 DEF s, PlanOf, InDual, FromSql, InDualSql, InDualMem, Ensure
  <2> QED
    BY <1>0, <1>9, <2>1
<1>10. ASSUME k = "CreateWorkflow"
       PROVE  PlanOK(mode, k, s) /\ InTurn(mode, k, s)
  <2>1. Spells(s, <<"vacant", "insert_workflow">>)
    BY <1>10 DEF s, PlanOf, InDual, FromSql, InDualSql, InDualMem, Ensure
  <2> QED
    BY <1>0, <1>10, <2>1
<1>11. ASSUME k = "PublishWorkflow"
       PROVE  PlanOK(mode, k, s) /\ InTurn(mode, k, s)
  <2>1. Spells(s, <<"status">>)
    BY <1>11 DEF s, PlanOf, InDual, FromSql, InDualSql, InDualMem, Ensure
  <2> QED
    BY <1>0, <1>11, <2>1
<1>12. ASSUME k = "ArchiveWorkflow"
       PROVE  PlanOK(mode, k, s) /\ InTurn(mode, k, s)
  <2>1. Spells(s, <<"status">>)
    BY <1>12 DEF s, PlanOf, InDual, FromSql, InDualSql, InDualMem, Ensure
  <2> QED
    BY <1>0, <1>12, <2>1
<1>13. ASSUME k = "DeleteWorkflow"
       PROVE  PlanOK(mode, k, s) /\ InTurn(mode, k, s)
  <2>1. Spells(s, <<"exists", "count", "delete_workflow">>)
    BY <1>13 DEF s, PlanOf, InDual, FromSql, InDualSql, InDualMem, Ensure
  <2> QED
    BY <1>0, <1>13, <2>1
<1>14. ASSUME k = "RunWorkflow"
       PROVE  PlanOK(mode, k, s) /\ InTurn(mode, k, s)
  <2>1. Spells(s, <<"load", "find", "insert_run">>)
    BY <1>14 DEF s, PlanOf, InDual, FromSql, InDualSql, InDualMem, Ensure
  <2> QED
    BY <1>0, <1>14, <2>1
<1>15. ASSUME k = "RunProject"
       PROVE  PlanOK(mode, k, s) /\ InTurn(mode, k, s)
  <2>1. Spells(s, <<"find", "ensure", "invalidate", "upsert", "load", "find", "insert_run">>)
    BY <1>15 DEF s, PlanOf, InDual, FromSql, InDualSql, InDualMem, Ensure
  <2> QED
    BY <1>0, <1>15, <2>1
<1> HIDE DEF PlanOK, InTurn
<1> QED
  BY <1>1, <1>2, <1>3, <1>4, <1>5, <1>6, <1>7, <1>8, <1>9, <1>10, <1>11, <1>12, <1>13, <1>14, <1>15 DEF s, Kinds

LEMMA SpelledDualSql ==
    ASSUME mode = "dual_sql", NEW k \in Kinds
    PROVE  /\ k = "CreateProject" =>
                 Spells(PlanOf(k), <<"memory", "find", "ensure", "invalidate",
                                   "find">>)
           /\ k = "GetProject" => Spells(PlanOf(k), <<"find">>)
           /\ k = "PatchName" =>
                 Spells(PlanOf(k), <<"memory", "find", "update", "invalidate",
                                   "find">>)
           /\ k = "PatchConfigs" =>
                 Spells(PlanOf(k), <<"memory", "find", "secret", "update",
                                   "invalidate", "find">>)
           /\ k = "DeleteProject" => Spells(PlanOf(k), <<"delete_project", "memory">>)
           /\ k = "PutSecret" => Spells(PlanOf(k), <<"find", "memory", "secret">>)
           /\ k = "CreateTrigger" =>
                 Spells(PlanOf(k), <<"find", "memory", "insert_trigger",
                                   "invalidate">>)
           /\ k = "PatchTrigger" =>
                 Spells(PlanOf(k), <<"find", "memory", "update_trigger",
                                   "invalidate">>)
           /\ k = "DeleteTrigger" => Spells(PlanOf(k), <<"delete_trigger", "memory">>)
           /\ k = "CreateWorkflow" => Spells(PlanOf(k), <<"vacant", "memory", "upsert">>)
           /\ k = "PublishWorkflow" => Spells(PlanOf(k), <<"memory", "status">>)
           /\ k = "ArchiveWorkflow" => Spells(PlanOf(k), <<"memory", "status">>)
           /\ k = "DeleteWorkflow" =>
                 Spells(PlanOf(k), <<"exists", "count", "delete_workflow",
                                   "memory">>)
           /\ k = "RunWorkflow" =>
                 Spells(PlanOf(k), <<"load", "find", "insert_run", "memory">>)
           /\ k = "RunProject" =>
                 Spells(PlanOf(k), <<"memory_ensure", "find", "ensure",
                                   "invalidate", "find", "ensure", "invalidate",
                                   "memory_upsert", "upsert", "load", "find",
                                   "insert_run", "memory">>)
<1> USE DEF Spells, PlanOf, InDual, FromSql, InDualSql, InDualMem, Ensure, Dual, ReadsSql
<1>1. k = "CreateProject" =>
      Spells(PlanOf(k), <<"memory", "find", "ensure", "invalidate",
                        "find">>)
  OBVIOUS
<1>2. k = "GetProject" => Spells(PlanOf(k), <<"find">>)
  OBVIOUS
<1>3. k = "PatchName" =>
      Spells(PlanOf(k), <<"memory", "find", "update", "invalidate",
                        "find">>)
  OBVIOUS
<1>4. k = "PatchConfigs" =>
      Spells(PlanOf(k), <<"memory", "find", "secret", "update",
                        "invalidate", "find">>)
  OBVIOUS
<1>5. k = "DeleteProject" => Spells(PlanOf(k), <<"delete_project", "memory">>)
  OBVIOUS
<1>6. k = "PutSecret" => Spells(PlanOf(k), <<"find", "memory", "secret">>)
  OBVIOUS
<1>7. k = "CreateTrigger" =>
      Spells(PlanOf(k), <<"find", "memory", "insert_trigger",
                        "invalidate">>)
  OBVIOUS
<1>8. k = "PatchTrigger" =>
      Spells(PlanOf(k), <<"find", "memory", "update_trigger",
                        "invalidate">>)
  OBVIOUS
<1>9. k = "DeleteTrigger" => Spells(PlanOf(k), <<"delete_trigger", "memory">>)
  OBVIOUS
<1>10. k = "CreateWorkflow" => Spells(PlanOf(k), <<"vacant", "memory", "upsert">>)
  OBVIOUS
<1>11. k = "PublishWorkflow" => Spells(PlanOf(k), <<"memory", "status">>)
  OBVIOUS
<1>12. k = "ArchiveWorkflow" => Spells(PlanOf(k), <<"memory", "status">>)
  OBVIOUS
<1>13. k = "DeleteWorkflow" =>
      Spells(PlanOf(k), <<"exists", "count", "delete_workflow",
                        "memory">>)
  OBVIOUS
<1>14. k = "RunWorkflow" =>
      Spells(PlanOf(k), <<"load", "find", "insert_run", "memory">>)
  OBVIOUS
<1>15. k = "RunProject" =>
      Spells(PlanOf(k), <<"memory_ensure", "find", "ensure",
                        "invalidate", "find", "ensure", "invalidate",
                        "memory_upsert", "upsert", "load", "find",
                        "insert_run", "memory">>)
  OBVIOUS
<1> HIDE DEF Spells, PlanOf
<1> QED
  BY <1>1, <1>2, <1>3, <1>4, <1>5, <1>6, <1>7, <1>8, <1>9, <1>10,
     <1>11, <1>12, <1>13, <1>14, <1>15

LEMMA PlansDualSql ==
    ASSUME mode = "dual_sql", NEW k \in Kinds
    PROVE  PlanOK(mode, k, PlanOf(k)) /\ InTurn(mode, k, PlanOf(k))
<1> DEFINE s == PlanOf(k)
<1>0. s \in Seq(Statements)
  BY PlanOfTyped
<1> HIDE DEF s
<1> USE DEF Dual, ReadsSql, PlanOK, Fits, InTurn, Preceded, OwnUpsert, Applies,
           Patches, Runs, Writers
<1>1. ASSUME k = "CreateProject"
       PROVE  PlanOK(mode, k, s) /\ InTurn(mode, k, s)
  <2>1. Spells(s, <<"memory", "find", "ensure", "invalidate", "find">>)
    BY <1>1, SpelledDualSql DEF s
  <2> QED
    BY <1>0, <1>1, <2>1 DEF Spells
<1>2. ASSUME k = "GetProject"
       PROVE  PlanOK(mode, k, s) /\ InTurn(mode, k, s)
  <2>1. Spells(s, <<"find">>)
    BY <1>2, SpelledDualSql DEF s
  <2> QED
    BY <1>0, <1>2, <2>1 DEF Spells
<1>3. ASSUME k = "PatchName"
       PROVE  PlanOK(mode, k, s) /\ InTurn(mode, k, s)
  <2>1. Spells(s, <<"memory", "find", "update", "invalidate", "find">>)
    BY <1>3, SpelledDualSql DEF s
  <2>2. 3 \in 1 .. Len(s) /\ s[3] = Applies(mode)
    BY <2>1 DEF Spells
  <2> QED
    BY <1>0, <1>3, <2>1, <2>2 DEF Spells
<1>4. ASSUME k = "PatchConfigs"
       PROVE  PlanOK(mode, k, s) /\ InTurn(mode, k, s)
  <2>1. Spells(s, <<"memory", "find", "secret", "update", "invalidate", "find">>)
    BY <1>4, SpelledDualSql DEF s
  <2>2. 4 \in 1 .. Len(s) /\ s[4] = Applies(mode)
    BY <2>1 DEF Spells
  <2> QED
    BY <1>0, <1>4, <2>1, <2>2 DEF Spells
<1>5. ASSUME k = "DeleteProject"
       PROVE  PlanOK(mode, k, s) /\ InTurn(mode, k, s)
  <2>1. Spells(s, <<"delete_project", "memory">>)
    BY <1>5, SpelledDualSql DEF s
  <2> QED
    BY <1>0, <1>5, <2>1 DEF Spells
<1>6. ASSUME k = "PutSecret"
       PROVE  PlanOK(mode, k, s) /\ InTurn(mode, k, s)
  <2>1. Spells(s, <<"find", "memory", "secret">>)
    BY <1>6, SpelledDualSql DEF s
  <2> QED
    BY <1>0, <1>6, <2>1 DEF Spells
<1>7. ASSUME k = "CreateTrigger"
       PROVE  PlanOK(mode, k, s) /\ InTurn(mode, k, s)
  <2>1. Spells(s, <<"find", "memory", "insert_trigger", "invalidate">>)
    BY <1>7, SpelledDualSql DEF s
  <2> QED
    BY <1>0, <1>7, <2>1 DEF Spells
<1>8. ASSUME k = "PatchTrigger"
       PROVE  PlanOK(mode, k, s) /\ InTurn(mode, k, s)
  <2>1. Spells(s, <<"find", "memory", "update_trigger", "invalidate">>)
    BY <1>8, SpelledDualSql DEF s
  <2> QED
    BY <1>0, <1>8, <2>1 DEF Spells
<1>9. ASSUME k = "DeleteTrigger"
       PROVE  PlanOK(mode, k, s) /\ InTurn(mode, k, s)
  <2>1. Spells(s, <<"delete_trigger", "memory">>)
    BY <1>9, SpelledDualSql DEF s
  <2> QED
    BY <1>0, <1>9, <2>1 DEF Spells
<1>10. ASSUME k = "CreateWorkflow"
       PROVE  PlanOK(mode, k, s) /\ InTurn(mode, k, s)
  <2>1. Spells(s, <<"vacant", "memory", "upsert">>)
    BY <1>10, SpelledDualSql DEF s
  <2> QED
    BY <1>0, <1>10, <2>1 DEF Spells
<1>11. ASSUME k = "PublishWorkflow"
       PROVE  PlanOK(mode, k, s) /\ InTurn(mode, k, s)
  <2>1. Spells(s, <<"memory", "status">>)
    BY <1>11, SpelledDualSql DEF s
  <2> QED
    BY <1>0, <1>11, <2>1 DEF Spells
<1>12. ASSUME k = "ArchiveWorkflow"
       PROVE  PlanOK(mode, k, s) /\ InTurn(mode, k, s)
  <2>1. Spells(s, <<"memory", "status">>)
    BY <1>12, SpelledDualSql DEF s
  <2> QED
    BY <1>0, <1>12, <2>1 DEF Spells
<1>13. ASSUME k = "DeleteWorkflow"
       PROVE  PlanOK(mode, k, s) /\ InTurn(mode, k, s)
  <2>1. Spells(s, <<"exists", "count", "delete_workflow", "memory">>)
    BY <1>13, SpelledDualSql DEF s
  <2> QED
    BY <1>0, <1>13, <2>1 DEF Spells
<1>14. ASSUME k = "RunWorkflow"
       PROVE  PlanOK(mode, k, s) /\ InTurn(mode, k, s)
  <2>1. Spells(s, <<"load", "find", "insert_run", "memory">>)
    BY <1>14, SpelledDualSql DEF s
  <2> QED
    BY <1>0, <1>14, <2>1 DEF Spells
<1>15. ASSUME k = "RunProject"
       PROVE  PlanOK(mode, k, s) /\ InTurn(mode, k, s)
  <2>1. Spells(s, <<"memory_ensure", "find", "ensure", "invalidate", "find", "ensure", "invalidate",
                    "memory_upsert", "upsert", "load", "find", "insert_run", "memory">>)
    BY <1>15, SpelledDualSql DEF s
  <2> QED
    BY <1>0, <1>15, <2>1 DEF Spells
<1> HIDE DEF PlanOK, InTurn
<1> QED
  BY <1>1, <1>2, <1>3, <1>4, <1>5, <1>6, <1>7, <1>8, <1>9, <1>10, <1>11, <1>12, <1>13, <1>14, <1>15 DEF s, Kinds

LEMMA SpelledDualMemory ==
    ASSUME mode = "dual_memory", NEW k \in Kinds
    PROVE  /\ k = "CreateProject" =>
                 Spells(PlanOf(k), <<"memory", "find", "ensure", "invalidate">>)
           /\ k = "GetProject" => Spells(PlanOf(k), <<>>)
           /\ k = "PatchName" =>
                 Spells(PlanOf(k), <<"memory", "find", "update", "invalidate",
                                   "answer">>)
           /\ k = "PatchConfigs" =>
                 Spells(PlanOf(k), <<"memory", "find", "secret", "update",
                                   "invalidate", "answer">>)
           /\ k = "DeleteProject" => Spells(PlanOf(k), <<"delete_project", "memory">>)
           /\ k = "PutSecret" => Spells(PlanOf(k), <<"memory", "secret">>)
           /\ k = "CreateTrigger" =>
                 Spells(PlanOf(k), <<"memory", "insert_trigger", "invalidate">>)
           /\ k = "PatchTrigger" =>
                 Spells(PlanOf(k), <<"memory", "update_trigger", "invalidate">>)
           /\ k = "DeleteTrigger" => Spells(PlanOf(k), <<"delete_trigger", "memory">>)
           /\ k = "CreateWorkflow" => Spells(PlanOf(k), <<"memory", "upsert">>)
           /\ k = "PublishWorkflow" => Spells(PlanOf(k), <<"memory", "status">>)
           /\ k = "ArchiveWorkflow" => Spells(PlanOf(k), <<"memory", "status">>)
           /\ k = "DeleteWorkflow" =>
                 Spells(PlanOf(k), <<"count", "delete_workflow", "memory">>)
           /\ k = "RunWorkflow" => Spells(PlanOf(k), <<"load", "insert_run", "memory">>)
           /\ k = "RunProject" =>
                 Spells(PlanOf(k), <<"memory_ensure", "find", "ensure",
                                   "invalidate", "memory_upsert", "upsert",
                                   "load", "insert_run", "memory">>)
<1> USE DEF Spells, PlanOf, InDual, FromSql, InDualSql, InDualMem, Ensure, Dual, ReadsSql
<1>1. k = "CreateProject" =>
      Spells(PlanOf(k), <<"memory", "find", "ensure", "invalidate">>)
  OBVIOUS
<1>2. k = "GetProject" => Spells(PlanOf(k), <<>>)
  OBVIOUS
<1>3. k = "PatchName" =>
      Spells(PlanOf(k), <<"memory", "find", "update", "invalidate",
                        "answer">>)
  OBVIOUS
<1>4. k = "PatchConfigs" =>
      Spells(PlanOf(k), <<"memory", "find", "secret", "update",
                        "invalidate", "answer">>)
  OBVIOUS
<1>5. k = "DeleteProject" => Spells(PlanOf(k), <<"delete_project", "memory">>)
  OBVIOUS
<1>6. k = "PutSecret" => Spells(PlanOf(k), <<"memory", "secret">>)
  OBVIOUS
<1>7. k = "CreateTrigger" =>
      Spells(PlanOf(k), <<"memory", "insert_trigger", "invalidate">>)
  OBVIOUS
<1>8. k = "PatchTrigger" =>
      Spells(PlanOf(k), <<"memory", "update_trigger", "invalidate">>)
  OBVIOUS
<1>9. k = "DeleteTrigger" => Spells(PlanOf(k), <<"delete_trigger", "memory">>)
  OBVIOUS
<1>10. k = "CreateWorkflow" => Spells(PlanOf(k), <<"memory", "upsert">>)
  OBVIOUS
<1>11. k = "PublishWorkflow" => Spells(PlanOf(k), <<"memory", "status">>)
  OBVIOUS
<1>12. k = "ArchiveWorkflow" => Spells(PlanOf(k), <<"memory", "status">>)
  OBVIOUS
<1>13. k = "DeleteWorkflow" =>
      Spells(PlanOf(k), <<"count", "delete_workflow", "memory">>)
  OBVIOUS
<1>14. k = "RunWorkflow" => Spells(PlanOf(k), <<"load", "insert_run", "memory">>)
  OBVIOUS
<1>15. k = "RunProject" =>
      Spells(PlanOf(k), <<"memory_ensure", "find", "ensure",
                        "invalidate", "memory_upsert", "upsert",
                        "load", "insert_run", "memory">>)
  OBVIOUS
<1> HIDE DEF Spells, PlanOf
<1> QED
  BY <1>1, <1>2, <1>3, <1>4, <1>5, <1>6, <1>7, <1>8, <1>9, <1>10,
     <1>11, <1>12, <1>13, <1>14, <1>15

LEMMA PlansDualMemory ==
    ASSUME mode = "dual_memory", NEW k \in Kinds
    PROVE  PlanOK(mode, k, PlanOf(k)) /\ InTurn(mode, k, PlanOf(k))
<1> DEFINE s == PlanOf(k)
<1>0. s \in Seq(Statements)
  BY PlanOfTyped
<1> HIDE DEF s
<1> USE DEF Dual, ReadsSql, PlanOK, Fits, InTurn, Preceded, OwnUpsert, Applies,
           Patches, Runs, Writers
<1>1. ASSUME k = "CreateProject"
       PROVE  PlanOK(mode, k, s) /\ InTurn(mode, k, s)
  <2>1. Spells(s, <<"memory", "find", "ensure", "invalidate">>)
    BY <1>1, SpelledDualMemory DEF s
  <2> QED
    BY <1>0, <1>1, <2>1 DEF Spells
<1>2. ASSUME k = "GetProject"
       PROVE  PlanOK(mode, k, s) /\ InTurn(mode, k, s)
  <2>1. Spells(s, <<>>)
    BY <1>2, SpelledDualMemory DEF s
  <2> QED
    BY <1>0, <1>2, <2>1 DEF Spells
<1>3. ASSUME k = "PatchName"
       PROVE  PlanOK(mode, k, s) /\ InTurn(mode, k, s)
  <2>1. Spells(s, <<"memory", "find", "update", "invalidate", "answer">>)
    BY <1>3, SpelledDualMemory DEF s
  <2>2. 1 \in 1 .. Len(s) /\ s[1] = Applies(mode)
    BY <2>1 DEF Spells
  <2> QED
    BY <1>0, <1>3, <2>1, <2>2 DEF Spells
<1>4. ASSUME k = "PatchConfigs"
       PROVE  PlanOK(mode, k, s) /\ InTurn(mode, k, s)
  <2>1. Spells(s, <<"memory", "find", "secret", "update", "invalidate", "answer">>)
    BY <1>4, SpelledDualMemory DEF s
  <2>2. 1 \in 1 .. Len(s) /\ s[1] = Applies(mode)
    BY <2>1 DEF Spells
  <2> QED
    BY <1>0, <1>4, <2>1, <2>2 DEF Spells
<1>5. ASSUME k = "DeleteProject"
       PROVE  PlanOK(mode, k, s) /\ InTurn(mode, k, s)
  <2>1. Spells(s, <<"delete_project", "memory">>)
    BY <1>5, SpelledDualMemory DEF s
  <2> QED
    BY <1>0, <1>5, <2>1 DEF Spells
<1>6. ASSUME k = "PutSecret"
       PROVE  PlanOK(mode, k, s) /\ InTurn(mode, k, s)
  <2>1. Spells(s, <<"memory", "secret">>)
    BY <1>6, SpelledDualMemory DEF s
  <2> QED
    BY <1>0, <1>6, <2>1 DEF Spells
<1>7. ASSUME k = "CreateTrigger"
       PROVE  PlanOK(mode, k, s) /\ InTurn(mode, k, s)
  <2>1. Spells(s, <<"memory", "insert_trigger", "invalidate">>)
    BY <1>7, SpelledDualMemory DEF s
  <2> QED
    BY <1>0, <1>7, <2>1 DEF Spells
<1>8. ASSUME k = "PatchTrigger"
       PROVE  PlanOK(mode, k, s) /\ InTurn(mode, k, s)
  <2>1. Spells(s, <<"memory", "update_trigger", "invalidate">>)
    BY <1>8, SpelledDualMemory DEF s
  <2> QED
    BY <1>0, <1>8, <2>1 DEF Spells
<1>9. ASSUME k = "DeleteTrigger"
       PROVE  PlanOK(mode, k, s) /\ InTurn(mode, k, s)
  <2>1. Spells(s, <<"delete_trigger", "memory">>)
    BY <1>9, SpelledDualMemory DEF s
  <2> QED
    BY <1>0, <1>9, <2>1 DEF Spells
<1>10. ASSUME k = "CreateWorkflow"
       PROVE  PlanOK(mode, k, s) /\ InTurn(mode, k, s)
  <2>1. Spells(s, <<"memory", "upsert">>)
    BY <1>10, SpelledDualMemory DEF s
  <2> QED
    BY <1>0, <1>10, <2>1 DEF Spells
<1>11. ASSUME k = "PublishWorkflow"
       PROVE  PlanOK(mode, k, s) /\ InTurn(mode, k, s)
  <2>1. Spells(s, <<"memory", "status">>)
    BY <1>11, SpelledDualMemory DEF s
  <2> QED
    BY <1>0, <1>11, <2>1 DEF Spells
<1>12. ASSUME k = "ArchiveWorkflow"
       PROVE  PlanOK(mode, k, s) /\ InTurn(mode, k, s)
  <2>1. Spells(s, <<"memory", "status">>)
    BY <1>12, SpelledDualMemory DEF s
  <2> QED
    BY <1>0, <1>12, <2>1 DEF Spells
<1>13. ASSUME k = "DeleteWorkflow"
       PROVE  PlanOK(mode, k, s) /\ InTurn(mode, k, s)
  <2>1. Spells(s, <<"count", "delete_workflow", "memory">>)
    BY <1>13, SpelledDualMemory DEF s
  <2> QED
    BY <1>0, <1>13, <2>1 DEF Spells
<1>14. ASSUME k = "RunWorkflow"
       PROVE  PlanOK(mode, k, s) /\ InTurn(mode, k, s)
  <2>1. Spells(s, <<"load", "insert_run", "memory">>)
    BY <1>14, SpelledDualMemory DEF s
  <2> QED
    BY <1>0, <1>14, <2>1 DEF Spells
<1>15. ASSUME k = "RunProject"
       PROVE  PlanOK(mode, k, s) /\ InTurn(mode, k, s)
  <2>1. Spells(s, <<"memory_ensure", "find", "ensure", "invalidate", "memory_upsert",
                    "upsert", "load", "insert_run", "memory">>)
    BY <1>15, SpelledDualMemory DEF s
  <2> QED
    BY <1>0, <1>15, <2>1 DEF Spells
<1> HIDE DEF PlanOK, InTurn
<1> QED
  BY <1>1, <1>2, <1>3, <1>4, <1>5, <1>6, <1>7, <1>8, <1>9, <1>10, <1>11, <1>12, <1>13, <1>14, <1>15 DEF s, Kinds

LEMMA PlanOfOK ==
    ASSUME mode \in Modes, NEW k \in Kinds
    PROVE  PlanOK(mode, k, PlanOf(k)) /\ InTurn(mode, k, PlanOf(k))
<1>1. CASE mode = "memory"
  <2> DEFINE s == PlanOf(k)
  <2>1. Spells(s, <<"whole">>)
    <3>1. \A x \in Kinds : PlanOf(x) = <<"whole">>
      BY <1>1 DEF PlanOf, Kinds
    <3> QED
      BY <3>1 DEF Spells
  <2>2. s \in Seq(Statements)
    BY PlanOfTyped
  <2> HIDE DEF s
  <2> QED
    BY <1>1, <2>1, <2>2 DEF s, Spells, PlanOK, Fits, InTurn, Preceded, Dual, Applies
<1> QED
  BY <1>1, ModeFacts, PlansPostgres, PlansDualSql, PlansDualMemory

-----------------------------------------------------------------------------
(* What a step does to the plan of the handler that makes it. *)

(* q is p without its first d statements; it may end refused. *)
Rest(p, q, d) ==
    /\ d \in 1 .. Len(p)
    /\ q \in Seq(Statements)
    /\ Len(q) \in {Len(p) - d, Len(p) - d + 1}
    /\ \A n \in 1 .. Len(p) - d : q[n] = p[n + d]
    /\ Len(q) = Len(p) - d + 1 => q[Len(q)] = "refused"

(* get_project has gone on to its next statement. *)
Resumed(p, q) ==
    /\ q \in Seq(Statements)
    /\ Len(p) > 0
    /\ Len(q) = Len(p)
    /\ \A n \in 2 .. Len(p) : q[n] = p[n]
    /\ \/ p[1] = "find" /\ q[1] = "row"
       \/ p[1] = "row" /\ q[1] = "fill"

(* update_project of the dual store has found no project. *)
LastOnly(p, q) ==
    /\ q \in Seq(Statements)
    /\ Len(p) > 1
    /\ Len(q) = 1
    /\ p[1] = "row"
    /\ q[1] = p[Len(p)]

Over(q) == q \in Seq(Statements) /\ Len(q) = 1 /\ q[1] \in {"refused", "failed"}

Follows(k, p, q) ==
    \/ Over(q)
    \/ \E d \in Nat :
          /\ Rest(p, q, d)
          /\ \A n \in 2 .. d : p[n] \in {"ensure", "invalidate"}
          /\ d > 1 => p[1] \in {"update", "update_trigger"} \/ p[2] = "ensure"
    \/ Resumed(p, q)
    \/ k \in Patches /\ LastOnly(p, q)

LEMMA FollowsOK ==
    ASSUME NEW k \in Kinds, NEW p, NEW q, PlanOK(mode, k, p), p # <<>>, Follows(k, p, q)
    PROVE  PlanOK(mode, k, q)
<1>1. CASE Over(q)
  <2>1. Fits(mode, k, "refused") /\ Fits(mode, k, "failed")
    BY DEF Fits
  <2> QED
    BY <1>1, <2>1 DEF Over, PlanOK
<1>2. ASSUME NEW d \in Nat, Rest(p, q, d) PROVE PlanOK(mode, k, q)
  <2>1. Fits(mode, k, "refused")
    BY DEF Fits
  <2>2. \A n \in 1 .. Len(q) : \/ n \in 1 .. Len(p) - d /\ q[n] = p[n + d]
                               \/ n = Len(q) /\ q[n] = "refused"
    BY <1>2 DEF Rest, PlanOK
  <2>3. \A n \in 1 .. Len(q) : Fits(mode, k, q[n])
    BY <1>2, <2>1, <2>2 DEF Rest, PlanOK
  <2>4. ASSUME NEW n \in 1 .. Len(q)
        PROVE  /\ q[n] \in {"ensure", "update", "update_trigger"}
                      => n < Len(q) /\ q[n + 1] = "invalidate"
               /\ q[n] \notin {"row", "fill", "whole"}
               /\ k = "ArchiveWorkflow" /\ q[n] = "memory" => n < Len(q) /\ q[n + 1] = "status"
    <3>1. CASE n = Len(q) /\ q[n] = "refused"
      BY <3>1
    <3>2. CASE n \in 1 .. Len(p) - d /\ q[n] = p[n + d]
      <4>1. n + d \in 1 .. Len(p) /\ n + d # 1
        BY <1>2, <3>2 DEF Rest, PlanOK
      <4>2. ASSUME n + d < Len(p) PROVE n < Len(q) /\ q[n + 1] = p[n + 1 + d]
        BY <1>2, <3>2, <4>2 DEF Rest, PlanOK
      <4> QED
        BY <3>2, <4>1, <4>2 DEF PlanOK
    <3> QED
      BY <2>2, <3>1, <3>2
  <2> QED
    BY <1>2, <2>3, <2>4 DEF Rest, PlanOK
<1>3. CASE Resumed(p, q)
  <2>1. Fits(mode, k, "row") /\ Fits(mode, k, "fill")
    BY <1>3 DEF Fits, Resumed, PlanOK
  <2>2. \A n \in 1 .. Len(q) : Fits(mode, k, q[n])
    BY <1>3, <2>1 DEF Resumed, PlanOK
  <2> QED
    BY <1>3, <2>2 DEF Resumed, PlanOK
<1>4. CASE k \in Patches /\ LastOnly(p, q)
  <2>1. Len(p) \in 1 .. Len(p)
    BY <1>4 DEF LastOnly, PlanOK
  <2> QED
    BY <1>4, <2>1 DEF LastOnly, PlanOK, Patches
<1> QED
  BY <1>1, <1>2, <1>3, <1>4 DEF Follows

(* A step leaves an order between two statements alone, unless it makes    *)
(* the first of them.                                                      *)
LEMMA StillPreceded ==
    ASSUME NEW k \in Kinds, NEW p, NEW q, NEW g, NEW w,
           PlanOK(mode, k, p), p # <<>>, Follows(k, p, q), Preceded(p, g, w),
           g \cap {"ensure", "invalidate"} = {},
           w \notin {"refused", "failed", "row", "fill"},
           k \in Patches => w = "update"
    PROVE  Preceded(q, g, w) \/ p[1] \in g
<1> SUFFICES ASSUME p[1] \notin g PROVE Preceded(q, g, w)
  OBVIOUS
<1>1. CASE Over(q)
  BY <1>1 DEF Over, Preceded
<1>2. ASSUME NEW d \in Nat, Rest(p, q, d), \A n \in 2 .. d : p[n] \in {"ensure", "invalidate"}
      PROVE  Preceded(q, g, w)
  <2> SUFFICES ASSUME NEW n \in 1 .. Len(q), q[n] = w PROVE \E m \in 1 .. n - 1 : q[m] \in g
    BY DEF Preceded
  <2>1. n \in 1 .. Len(p) - d /\ p[n + d] = w /\ n + d \in 1 .. Len(p)
    BY <1>2 DEF Rest, PlanOK
  <2>2. PICK m \in 1 .. n + d - 1 : p[m] \in g
    BY <2>1 DEF Preceded
  <2>3. m \notin 1 .. d
    BY <1>2, <2>2
  <2>4. m - d \in 1 .. n - 1 /\ q[m - d] = p[m]
    BY <1>2, <2>1, <2>3 DEF Rest, PlanOK
  <2> QED
    BY <2>2, <2>4
<1>3. CASE Resumed(p, q)
  <2> SUFFICES ASSUME NEW n \in 1 .. Len(q), q[n] = w PROVE \E m \in 1 .. n - 1 : q[m] \in g
    BY DEF Preceded
  <2>1. n # 1 /\ n \in 1 .. Len(p) /\ p[n] = w
    BY <1>3 DEF Resumed, PlanOK
  <2>2. PICK m \in 1 .. n - 1 : p[m] \in g
    BY <2>1 DEF Preceded
  <2>3. m # 1 /\ q[m] = p[m]
    BY <1>3, <2>1, <2>2 DEF Resumed, PlanOK
  <2> QED
    BY <2>2, <2>3
<1>4. CASE k \in Patches /\ LastOnly(p, q)
  BY <1>4 DEF LastOnly, PlanOK, Preceded
<1> QED
  BY <1>1, <1>2, <1>3, <1>4 DEF Follows

LEMMA StillPrecededByRead ==
    ASSUME NEW k \in Kinds, NEW p, NEW q, NEW w, PlanOK(mode, k, p), Resumed(p, q),
           Preceded(p, {"find", "row", "fill"}, w), w \notin {"row", "fill"}
    PROVE  Preceded(q, {"find", "row", "fill"}, w)
<1> SUFFICES ASSUME NEW n \in 1 .. Len(q), q[n] = w
             PROVE  \E m \in 1 .. n - 1 : q[m] \in {"find", "row", "fill"}
  BY DEF Preceded
<1>1. n # 1 /\ 1 \in 1 .. n - 1
  BY DEF Resumed, PlanOK
<1> QED
  BY <1>1 DEF Resumed

Handlers ==
    \A i \in Ops : plan[i] # Unstarted => /\ req[i].kind \in Kinds
                                          /\ PlanOK(mode, req[i].kind, plan[i])

LEMMA AllOver == Over(Refused) /\ Over(Failed)
<1>1. Refused \in Seq(Statements) /\ Failed \in Seq(Statements)
  BY DEF Refused, Failed, Statements
<1> QED
  BY <1>1 DEF Over, Refused, Failed

LEMMA CutIsRest ==
    ASSUME NEW p \in Seq(Statements), NEW d \in 1 .. Len(p), NEW m \in Nat, m = d + 1
    PROVE  /\ Rest(p, SubSeq(p, m, Len(p)), d)
           /\ Rest(p, SubSeq(p, m, Len(p)) \o Refused, d)
<1> DEFINE q == SubSeq(p, m, Len(p))
           r == q \o Refused
<1>1. \A n \in m .. Len(p) : p[n] \in Statements
  OBVIOUS
<1>2. /\ q \in Seq(Statements)
      /\ Len(q) = Len(p) - d
      /\ \A n \in 1 .. Len(p) - d : q[n] = p[n + d]
  BY <1>1, SubSeqProperties
<1> HIDE DEF q
<1>3. Refused \in Seq(Statements) /\ Len(Refused) = 1 /\ Refused[1] = "refused"
  BY AllOver DEF Over, Refused
<1>4. /\ r \in Seq(Statements)
      /\ Len(r) = Len(q) + Len(Refused)
      /\ \A n \in 1 .. Len(q) + Len(Refused) :
            r[n] = IF n <= Len(q) THEN q[n] ELSE Refused[n - Len(q)]
  BY <1>2, <1>3, ConcatProperties
<1> HIDE DEF r
<1>5. Rest(p, q, d)
  BY <1>2 DEF Rest
<1>6. Len(r) = Len(q) + 1 /\ Len(q) \in Nat
  BY <1>2, <1>3, <1>4
<1>7. \A n \in 1 .. Len(q) : r[n] = q[n]
  BY <1>3, <1>4, <1>6
<1>8. r[Len(r)] = "refused"
  BY <1>3, <1>4, <1>6
<1>9. Rest(p, r, d)
  BY <1>2, <1>4, <1>6, <1>7, <1>8 DEF Rest
<1> QED
  BY <1>5, <1>9 DEF q, r

LEMMA TailFollows ==
    ASSUME NEW k \in Kinds, NEW p, PlanOK(mode, k, p), p # <<>>
    PROVE  /\ p \in Seq(Statements)
           /\ Follows(k, p, Tail(p)) /\ Follows(k, p, Tail(p) \o Refused)
<1>1. p \in Seq(Statements) /\ Tail(p) = SubSeq(p, 2, Len(p)) /\ 1 \in 1 .. Len(p)
  BY TailIsSubSeq DEF PlanOK
<1>2. Rest(p, Tail(p), 1) /\ Rest(p, Tail(p) \o Refused, 1)
  BY <1>1, CutIsRest, 2 = 1 + 1
<1> QED
  BY <1>1, <1>2 DEF Follows

LEMMA SkipFollows ==
    ASSUME NEW k \in Kinds, NEW p, PlanOK(mode, k, p), p # <<>>,
           Head(p) \in {"update", "update_trigger"}
    PROVE  /\ Follows(k, p, SubSeq(p, 3, Len(p)))
           /\ Follows(k, p, SubSeq(p, 3, Len(p)) \o Refused)
<1>1. p \in Seq(Statements) /\ p[1] = Head(p) /\ 1 \in 1 .. Len(p)
  BY DEF PlanOK
<1>2. Len(p) > 1 /\ p[2] = "invalidate"
  BY <1>1 DEF PlanOK
<1>3. 2 \in 1 .. Len(p)
  BY <1>1, <1>2
<1>4. Rest(p, SubSeq(p, 3, Len(p)), 2) /\ Rest(p, SubSeq(p, 3, Len(p)) \o Refused, 2)
  BY <1>1, <1>3, CutIsRest, 3 = 2 + 1
<1> QED
  BY <1>2, <1>4 DEF Follows

LEMMA FoundFollows ==
    ASSUME NEW k \in Kinds, NEW p, PlanOK(mode, k, p), p # <<>>,
           Tail(p) # <<>>, Head(Tail(p)) = "ensure"
    PROVE  Follows(k, p, SubSeq(Tail(p), 3, Len(Tail(p))))
<1> DEFINE t == Tail(p)
<1>1. /\ p \in Seq(Statements) /\ t \in Seq(Statements) /\ Len(t) = Len(p) - 1
      /\ \A n \in 1 .. Len(t) : t[n] = p[n + 1]
  BY HeadTailProperties DEF PlanOK
<1>2. Len(p) > 1 /\ p[2] = "ensure"
  BY <1>1
<1>3. Len(p) > 2 /\ p[3] = "invalidate"
  BY <1>1, <1>2 DEF PlanOK
<1>4. Rest(t, SubSeq(t, 3, Len(t)), 2)
  BY <1>1, <1>3, CutIsRest, 3 = 2 + 1, 2 \in 1 .. Len(t)
<1> HIDE DEF t
<1>5. Rest(p, SubSeq(t, 3, Len(t)), 3)
  BY <1>1, <1>3, <1>4 DEF Rest
<1>6. \A n \in 2 .. 3 : p[n] \in {"ensure", "invalidate"}
  BY <1>2, <1>3
<1> QED
  BY <1>5, <1>6 DEF Follows, t

LEMMA ResumeFollows ==
    ASSUME NEW k \in Kinds, NEW p, PlanOK(mode, k, p), p # <<>>
    PROVE  /\ Head(p) = "find" => Resumed(p, <<"row">> \o Tail(p))
           /\ Head(p) = "row" => Resumed(p, <<"fill">> \o Tail(p))
<1>1. /\ p \in Seq(Statements) /\ Tail(p) \in Seq(Statements)
      /\ <<"row">> \in Seq(Statements) /\ <<"fill">> \in Seq(Statements)
  BY DEF PlanOK, Statements
<1> QED
  BY <1>1 DEF Resumed

LEMMA LastFollows ==
    ASSUME NEW k \in Patches, NEW p, PlanOK(mode, k, p), p # <<>>, Head(p) = "row", Tail(p) # <<>>
    PROVE  Follows(k, p, <<Tail(p)[Len(Tail(p))]>>)
<1>1. p \in Seq(Statements) /\ Len(Tail(p)) = Len(p) - 1 /\ Len(p) > 1
  BY DEF PlanOK
<1>2. Tail(p)[Len(Tail(p))] = p[Len(p)] /\ p[Len(p)] \in Statements
  BY <1>1
<1>3. LastOnly(p, <<Tail(p)[Len(Tail(p))]>>)
  BY <1>1, <1>2, Singles DEF LastOnly
<1> QED
  BY <1>3 DEF Follows

(* A handler with a statement to make is at it.  *)
LEMMA AtFacts ==
    ASSUME NEW i \in Ops, NEW w, At(i, w), Handlers, plan[i] \in Seq(Statements),
           w \notin {"unstarted", "refused", "failed"}
    PROVE  /\ Active(i)
           /\ plan[i] # Unstarted /\ req[i].kind \in Kinds /\ PlanOK(mode, req[i].kind, plan[i])
           /\ plan[i] # <<>> /\ plan[i][1] = w /\ Fits(mode, req[i].kind, w)
<1>1. plan[i] # <<>> /\ plan[i][1] = w /\ Head(plan[i]) = w /\ 1 \in 1 .. Len(plan[i])
  BY DEF At
<1>2. plan[i] \notin Ends
  BY <1>1 DEF Ends, Unstarted, Refused, Failed
<1>3. plan[i] # Unstarted
  BY <1>2 DEF Ends
<1>4. req[i].kind \in Kinds /\ PlanOK(mode, req[i].kind, plan[i])
  BY <1>3 DEF Handlers
<1> QED
  BY <1>1, <1>2, <1>3, <1>4 DEF Active, PlanOK

(* The handler of request i makes a statement. *)
Stepped(i) ==
    /\ Active(i)
    /\ plan[i] # Unstarted /\ plan[i] # <<>>
    /\ req[i].kind \in Kinds /\ PlanOK(mode, req[i].kind, plan[i])
    /\ Follows(req[i].kind, plan[i], plan'[i])
    /\ plan' = [plan EXCEPT ![i] = plan'[i]]
    /\ UNCHANGED <<mode, script, req, faults, restarts, overlap>>

LEMMA GoOnStepped ==
    ASSUME NEW i \in Ops, NEW w, NEW p, TypeOK, Handlers, At(i, w), GoOn(i, p),
           w \notin {"unstarted", "refused", "failed"},
           UNCHANGED <<mode, script, req, faults, restarts, overlap>>,
           \/ p \in {Tail(plan[i]), Tail(plan[i]) \o Refused, Refused, Failed}
           \/ /\ w \in {"update", "update_trigger"}
              /\ p \in {SubSeq(plan[i], 3, Len(plan[i])),
                        SubSeq(plan[i], 3, Len(plan[i])) \o Refused}
           \/ /\ Tail(plan[i]) # <<>> /\ Head(Tail(plan[i])) = "ensure"
              /\ p = SubSeq(Tail(plan[i]), 3, Len(Tail(plan[i])))
           \/ w = "find" /\ p = <<"row">> \o Tail(plan[i])
           \/ w = "row" /\ p = <<"fill">> \o Tail(plan[i])
           \/ /\ w = "row" /\ req[i].kind \in Patches /\ Tail(plan[i]) # <<>>
              /\ p = <<Tail(plan[i])[Len(Tail(plan[i]))]>>
    PROVE  Stepped(i)
<1> DEFINE k == req[i].kind
<1>1. plan[i] \in Seq(Statements) /\ plan' = [plan EXCEPT ![i] = p] /\ plan'[i] = p
  BY DEF TypeOK, GoOn
<1>2. /\ Active(i) /\ plan[i] # Unstarted /\ plan[i] # <<>>
      /\ k \in Kinds /\ PlanOK(mode, k, plan[i]) /\ Head(plan[i]) = w
  BY <1>1, AtFacts DEF At
<1>3. Follows(k, plan[i], Refused) /\ Follows(k, plan[i], Failed)
  BY AllOver DEF Follows
<1>4. Follows(k, plan[i], p)
  BY <1>2, <1>3, TailFollows, SkipFollows, FoundFollows, ResumeFollows, LastFollows DEF Follows
<1> QED
  BY <1>1, <1>2, <1>4 DEF Stepped

LEMMA ReadStepped ==
    ASSUME NEW i \in Ops, TypeOK, Handlers, SqlRead(i)
    PROVE  Stepped(i)
<1>1. CASE FindCached(i)
  BY <1>1, GoOnStepped DEF FindCached, Found, GoOn
<1>2. CASE FindMissed(i)
  BY <1>2, GoOnStepped DEF FindMissed
<1>3. CASE FindRow(i)
  <2>1. CASE sql.project # None
    BY <1>3, <2>1, GoOnStepped DEF FindRow
  <2>2. CASE sql.project = None
    BY <1>3, <2>2, GoOnStepped DEF FindRow, Absent, GoOn
  <2> QED
    BY <2>1, <2>2
<1>4. CASE FillCache(i)
  BY <1>4, GoOnStepped DEF FillCache, Found, GoOn
<1>5. CASE Invalidate(i)
  BY <1>5, GoOnStepped DEF Invalidate
<1>6. ASSUME NEW w \in {"vacant", "exists", "answer", "count", "load"}, NEW b,
             Decide(i, w, b)
      PROVE  Stepped(i)
  BY <1>6, GoOnStepped DEF Decide, GoOn
<1> QED
  BY <1>1, <1>2, <1>3, <1>4, <1>5, <1>6
     DEF SqlRead, CheckVacant, CheckExists, CountRuns, Load, AnswerFromMemory

LEMMA WriteStepped ==
    ASSUME NEW i \in Ops, TypeOK, Handlers, SqlWrite(i)
    PROVE  Stepped(i)
<1>2. CASE InsertProject(i)
  BY <1>2, GoOnStepped DEF InsertProject, Write, GoOn
<1>3. CASE EnsureProject(i)
  BY <1>3, GoOnStepped DEF EnsureProject, Write, GoOn
<1>4. CASE UpdateProject(i)
  BY <1>4, GoOnStepped DEF UpdateProject, Write, GoOn
<1>5. CASE DeleteProject(i)
  BY <1>5, GoOnStepped DEF DeleteProject, Write, GoOn
<1>6. CASE SetSecret(i)
  BY <1>6, GoOnStepped DEF SetSecret, Write, GoOn
<1>7. CASE InsertTrigger(i)
  BY <1>7, GoOnStepped DEF InsertTrigger, Write, GoOn
<1>8. CASE UpdateSqlTrigger(i)
  <2> DEFINE skip == SubSeq(plan[i], 3, Len(plan[i]))
  <2>1. plan[i] \in Seq(Statements)
    BY DEF TypeOK
  <2>2. skip \o <<>> = skip
    BY <2>1
  <2> QED
    BY <1>8, <2>2, GoOnStepped DEF UpdateSqlTrigger, Write, GoOn
<1>9. CASE DeleteSqlTrigger(i)
  BY <1>9, GoOnStepped DEF DeleteSqlTrigger, Write, GoOn
<1>10. CASE InsertWorkflow(i)
  BY <1>10, GoOnStepped DEF InsertWorkflow, Write, GoOn
<1>11. CASE UpsertWorkflow(i)
  BY <1>11, GoOnStepped DEF UpsertWorkflow, Write, GoOn
<1>12. CASE SetStatus(i)
  BY <1>12, GoOnStepped DEF SetStatus, Write, GoOn
<1>13. CASE DeleteSqlWorkflow(i)
  BY <1>13, GoOnStepped DEF DeleteSqlWorkflow, Write, GoOn
<1>14. CASE InsertRun(i)
  BY <1>14, GoOnStepped DEF InsertRun, Write, GoOn
<1> QED
  BY <1>2, <1>3, <1>4, <1>5, <1>6, <1>7, <1>8, <1>9, <1>10, <1>11, <1>12, <1>13, <1>14
     DEF SqlWrite

LEMMA MemoryStepped ==
    ASSUME NEW i \in Ops, TypeOK, Handlers, MemoryStep(i)
    PROVE  Stepped(i)
<1>1. ASSUME NEW w \in {"memory", "memory_ensure", "memory_upsert"}, NEW db, NEW p,
             InMemory(i, w, db, p),
             p \in {Tail(plan[i]), Tail(plan[i]) \o Refused, Refused}
      PROVE  Stepped(i)
  BY <1>1, GoOnStepped DEF InMemory
<1>2. CASE Whole(i)
  <2>1. At(i, "whole") /\ plan[i] \in Seq(Statements)
    BY <1>2 DEF TypeOK, Whole
  <2>2. plan[i][1] = "whole" /\ PlanOK(mode, req[i].kind, plan[i]) /\ plan[i] # <<>>
    BY <2>1, AtFacts
  <2>3. Len(plan[i]) = 1
    BY <2>1, <2>2 DEF PlanOK
  <2>4. Tail(plan[i]) = <<>>
    <3>1. Tail(plan[i]) \in Seq(Statements) /\ Len(Tail(plan[i])) = 0
      BY <2>1, <2>2, <2>3, HeadTailProperties
    <3> HIDE DEF Statements
    <3>2. \A t \in Seq(Statements) : t # <<>> => Len(t) \in Nat \ {0}
      BY EmptySeq
    <3> QED
      BY Zenon, <3>1, <3>2, 0 \notin Nat \ {0}
  <2>5. \E p \in {<<>>, Refused} : GoOn(i, p)
    BY <1>2 DEF Whole
  <2>6. UNCHANGED <<mode, script, req, faults, restarts, overlap>>
    BY <1>2 DEF Whole
  <2> QED
    BY <2>1, <2>4, <2>5, <2>6, GoOnStepped
<1>3. CASE DualMemory(i)
  <2>1. plan[i] \in Seq(Statements) /\ plan[i] # <<>>
    BY <1>3 DEF TypeOK, DualMemory, At
  <2>2. Tail(plan[i]) \o <<>> = Tail(plan[i])
    BY <2>1
  <2>3. Tail(plan[i]) \o MemAnswer(i) \in {Tail(plan[i]), Tail(plan[i]) \o Refused}
    BY <2>2 DEF MemAnswer, InDualMem
  <2>4. CASE GuardHolds(req[i].kind)
    <3>1. InMemory(i, "memory", MemEffect(i), Tail(plan[i]) \o MemAnswer(i))
      BY <1>3, <2>4 DEF DualMemory
    <3> QED
      BY <2>3, <3>1, GoOnStepped DEF InMemory
  <2>5. CASE ~GuardHolds(req[i].kind)
    BY <1>3, <2>5, GoOnStepped DEF DualMemory, InMemory
  <2> QED
    BY <2>4, <2>5
<1>4. CASE DualMemoryEnsure(i)
  BY <1>1, <1>4 DEF DualMemoryEnsure
<1>5. CASE DualMemoryUpsert(i)
  BY <1>1, <1>5 DEF DualMemoryUpsert
<1> QED
  BY <1>2, <1>3, <1>4, <1>5 DEF MemoryStep

LEMMA StepCases ==
    ASSUME TypeOK, Handlers, Next
    PROVE  \/ \E i \in Ops : Arrive(i)
           \/ \E i \in Ops : Stepped(i) /\ (SqlRead(i) \/ SqlWrite(i) \/ MemoryStep(i))
           \/ \E i \in Ops : Raise(i)
           \/ Restart
  BY ReadStepped, WriteStepped, MemoryStepped DEF Next

LEMMA NeverUnstarted ==
    ASSUME NEW k, NEW p, PlanOK(mode, k, p)
    PROVE  p # Unstarted
<1> SUFFICES ASSUME p = Unstarted PROVE FALSE
  OBVIOUS
<1>1. 1 \in 1 .. Len(p) /\ p[1] = "unstarted"
  BY DEF Unstarted
<1> QED
  BY <1>1 DEF PlanOK, Fits

LEMMA FailedOK ==
    ASSUME NEW k
    PROVE  PlanOK(mode, k, Failed) /\ Failed # Unstarted
<1>1. Fits(mode, k, "failed")
  BY DEF Fits
<1> QED
  BY <1>1, AllOver DEF Over, PlanOK, Failed, Unstarted

LEMMA ArriveFacts ==
    ASSUME NEW i \in Ops, TypeOK, Arrive(i)
    PROVE  /\ plan[i] = Unstarted /\ script[i] \in Kinds
           /\ plan' = [plan EXCEPT ![i] = PlanOf(script[i])]
           /\ plan'[i] = PlanOf(script[i]) /\ req'[i].kind = script[i]
           /\ req'[i] \in Requests
           /\ req' = [req EXCEPT ![i] = req'[i]]
           /\ PlanOK(mode, script[i], plan'[i])
           /\ InTurn(mode, script[i], plan'[i])
<1>1. /\ plan[i] = Unstarted /\ plan' = [plan EXCEPT ![i] = PlanOf(script[i])]
      /\ plan'[i] = PlanOf(script[i]) /\ i <= Len(script) /\ mode' = mode
  BY DEF Arrive, GoOn, TypeOK
<1>2. script \in Seq(Kinds)
  BY StoreAssumption DEF TypeOK
<1>3. script[i] \in Kinds
  BY <1>1, <1>2 DEF Ops
<1>4. PICK g \in Graphs, m \in Metadata, t \in {x.id : x \in Reader.triggers} \cup {0} :
          req' = [req EXCEPT ![i] =
                     [kind |-> script[i], graph |-> g,
                      metadata |-> IF script[i] = "RunProject" THEN ProjectRun(m) ELSE m,
                      trigger |-> t]]
  BY DEF Arrive
<1>5. {x.id : x \in Reader.triggers} \subseteq Ids
  BY DEF TypeOK, Reader, Databases
<1>6. req'[i].kind = script[i] /\ req'[i] \in Requests /\ req' = [req EXCEPT ![i] = req'[i]]
  <2>1. t \in Ids
    BY <1>5, StoreAssumption DEF Ids
  <2>2. m \in Metadata /\ ProjectRun(m) \in Metadata
    BY <1>4 DEF Metadata, ProjectRun
  <2> QED
    BY <1>3, <1>4, <2>1, <2>2 DEF TypeOK, Requests
<1>7. PlanOK(mode, script[i], PlanOf(script[i])) /\ InTurn(mode, script[i], PlanOf(script[i]))
  BY <1>3, PlanOfOK DEF TypeOK
<1> QED
  BY <1>1, <1>3, <1>6, <1>7

(* What the statements leave alone. *)
LEMMA Frames ==
    ASSUME NEW i \in Ops
    PROVE  /\ SqlRead(i) => UNCHANGED <<mem, sql, disturbed>>
           /\ SqlWrite(i) => UNCHANGED <<mem, cache, seen, loaded>>
           /\ MemoryStep(i) => UNCHANGED <<sql, cache, seen, loaded>>
<1>1. ASSUME SqlRead(i) PROVE UNCHANGED <<mem, sql, disturbed>>
  BY <1>1 DEF SqlRead, FindCached, FindMissed, FindRow, FillCache, Invalidate,
              CheckVacant, CheckExists, CountRuns, Load, AnswerFromMemory, Decide
<1>2. ASSUME SqlWrite(i) PROVE UNCHANGED <<mem, cache, seen, loaded>>
  BY <1>2 DEF SqlWrite, InsertProject, EnsureProject, UpdateProject, DeleteProject, SetSecret,
              InsertTrigger, UpdateSqlTrigger, DeleteSqlTrigger, InsertWorkflow,
              UpsertWorkflow, SetStatus, DeleteSqlWorkflow, InsertRun, Write
<1>3. ASSUME MemoryStep(i) PROVE UNCHANGED <<sql, cache, seen, loaded>>
  BY <1>3 DEF MemoryStep, Whole, DualMemory, DualMemoryEnsure, DualMemoryUpsert, InMemory
<1> QED
  BY <1>1, <1>2, <1>3

(* What a handler has read is its own. *)
LEMMA OthersKeep ==
    ASSUME NEW i \in Ops, SqlRead(i) \/ SqlWrite(i) \/ MemoryStep(i), TypeOK,
           NEW j \in Ops, j # i
    PROVE  seen'[j] = seen[j] /\ loaded'[j] = loaded[j]
<1>1. CASE SqlRead(i)
  BY <1>1 DEF SqlRead, FindCached, FindMissed, FindRow, FillCache, Invalidate, Keep,
              CheckVacant, CheckExists, CountRuns, Load, AnswerFromMemory, Decide, TypeOK
<1> QED
  BY <1>1, Frames

-----------------------------------------------------------------------------
(* Which requests are concurrent. *)
Arrivals ==
    /\ \A i, j \in Ops : j < i /\ plan[i] # Unstarted => plan[j] # Unstarted
    /\ \A i \in Ops : plan[i] = Unstarted => /\ req[i] = NoRequest
                                             /\ seen[i] = None /\ loaded[i] = None
                                             /\ overlap[i] = {}
    /\ \A i, j \in Ops : Active(i) /\ plan[j] # Unstarted /\ i < j
                             => i \in overlap[j] /\ j \in overlap[i]
    /\ \A i \in Ids : \A j \in overlap[i] : plan[j] # Unstarted
    /\ overlap[0] = {}

(* A request, once it has arrived, stays what it is; none starts again.    *)
Onward ==
    /\ mode' = mode /\ script' = script
    /\ \A j \in Ops : plan[j] # Unstarted =>
          /\ plan'[j] # Unstarted /\ req'[j] = req[j]
          /\ plan'[j] = plan[j] \/ Active(j)
    /\ \A j \in Ids : overlap[j] \subseteq overlap'[j]

LEMMA Progress ==
    ASSUME TypeOK, Handlers, Arrivals, Next
    PROVE  Onward /\ Handlers'
<1>1. ASSUME NEW i \in Ops, Arrive(i)
      PROVE  Onward /\ Handlers'
  <2>1. \A j \in Ops : j # i => plan'[j] = plan[j] /\ req'[j] = req[j]
    BY <1>1, ArriveFacts DEF TypeOK
  <2>2. \A j \in Ids : overlap[j] \subseteq overlap'[j]
    <3>1. plan[i] = Unstarted /\ overlap[i] = {}
      BY <1>1, ArriveFacts DEF Arrivals
    <3> QED
      BY <1>1, <3>1 DEF Arrive
  <2>3. Onward
    BY <1>1, <2>1, <2>2, ArriveFacts DEF Arrive, Onward
  <2> QED
    BY <1>1, <2>1, <2>3, ArriveFacts DEF Handlers, Onward
<1>2. ASSUME NEW i \in Ops, Stepped(i)
      PROVE  Onward /\ Handlers'
  <2>1. PlanOK(mode, req[i].kind, plan'[i])
    BY <1>2, FollowsOK DEF Stepped
  <2>2. \A j \in Ops : j # i => plan'[j] = plan[j]
    BY <1>2 DEF Stepped, TypeOK
  <2>3. Onward
    BY <1>2, <2>1, <2>2, NeverUnstarted DEF Stepped, Onward
  <2> QED
    BY <1>2, <2>1, <2>2, <2>3 DEF Stepped, Handlers, Onward
<1>3. ASSUME NEW i \in Ops, Raise(i)
      PROVE  Onward /\ Handlers'
  <2>1. plan[i] # Unstarted /\ plan'[i] = Failed
    BY <1>3 DEF Raise, Active, Ends, GoOn, TypeOK
  <2>2. \A j \in Ops : j # i => plan'[j] = plan[j]
    BY <1>3 DEF Raise, GoOn, TypeOK
  <2>3. Onward
    BY <1>3, <2>1, <2>2, FailedOK DEF Raise, Onward
  <2> QED
    BY <1>3, <2>1, <2>2, <2>3, FailedOK DEF Raise, Handlers, Onward
<1>4. CASE Restart
  <2>1. \A j \in Ops : plan'[j] = IF Active(j) THEN Failed ELSE plan[j]
    BY <1>4 DEF Restart
  <2>2. Onward
    BY <1>4, <2>1, FailedOK DEF Restart, Onward
  <2>3. \A j \in Ops : plan'[j] # Unstarted => plan[j] # Unstarted
    BY <2>1 DEF Active, Ends
  <2> QED
    BY <1>4, <2>1, <2>2, <2>3, FailedOK DEF Restart, Handlers, Onward
<1> QED
  BY <1>1, <1>2, <1>3, <1>4, StepCases

LEMMA ArrivalsStep ==
    ASSUME TypeOK, Handlers, Arrivals, Next
    PROVE  Arrivals'
<1>0. Onward
  BY Progress
<1>1. ASSUME NEW i \in Ops, Arrive(i)
      PROVE  Arrivals'
  <2> DEFINE others == {j \in Ops : Active(j)}
  <2>1. /\ overlap' = [j \in Ids |-> IF j = i THEN others
                                     ELSE IF j \in others THEN overlap[j] \cup {i}
                                     ELSE overlap[j]]
        /\ \A j \in Ops : j < i => plan[j] # Unstarted
        /\ UNCHANGED <<seen, loaded>>
    BY <1>1 DEF Arrive
  <2>2. /\ plan[i] = Unstarted /\ plan'[i] # Unstarted
        /\ \A j \in Ops : j # i => plan'[j] = plan[j] /\ req'[j] = req[j]
    BY <1>1, ArriveFacts, NeverUnstarted DEF TypeOK
  <2>3. Ops \subseteq Ids /\ Ops \subseteq Int /\ 0 \notin Ops /\ 0 \in Ids
    BY StoreAssumption DEF Ops, Ids
  <2>4. \A j \in Ops : plan[j] # Unstarted => j < i
    BY <2>2, <2>3 DEF Arrivals
  <2>5. \A j \in Ops : j # i => (Active(j)' <=> Active(j))
    BY <2>2 DEF Active
  <2>6. \A j \in Ops : Active(j) => plan[j] # Unstarted
    BY DEF Active, Ends
  <2>7. Arrivals!1'
    BY <2>1, <2>2, <2>3, <2>4 DEF Arrivals
  <2>8. Arrivals!2'
    BY <2>1, <2>2, <2>3, <2>6 DEF Arrivals
  <2>9. Arrivals!3'
    BY <2>1, <2>2, <2>3, <2>4, <2>5, <2>6 DEF Arrivals
  <2>10. Arrivals!4'
    BY <1>0, <2>1, <2>2, <2>3, <2>6 DEF Arrivals, Onward, TypeOK
  <2>11. Arrivals!5'
    BY <2>1, <2>3 DEF Arrivals
  <2> QED
    BY <2>7, <2>8, <2>9, <2>10, <2>11 DEF Arrivals
<1>2. ASSUME UNCHANGED overlap,
             \A j \in Ops : plan[j] = Unstarted => /\ plan'[j] = Unstarted
                                                   /\ req'[j] = req[j]
                                                   /\ seen'[j] = seen[j]
                                                   /\ loaded'[j] = loaded[j],
             \A j \in Ops : Active(j)' => Active(j)
      PROVE  Arrivals'
  BY <1>0, <1>2 DEF Arrivals, Onward, TypeOK
<1>3. ASSUME NEW i \in Ops, Stepped(i), SqlRead(i) \/ SqlWrite(i) \/ MemoryStep(i)
      PROVE  Arrivals'
  <2>1. \A j \in Ops : j # i => seen'[j] = seen[j] /\ loaded'[j] = loaded[j]
    BY <1>3, OthersKeep
  <2> QED
    BY <1>2, <1>3, <2>1 DEF Stepped, Active, TypeOK
<1>4. ASSUME NEW i \in Ops, Raise(i)
      PROVE  Arrivals'
  BY <1>2, <1>4, FailedOK DEF Raise, Active, GoOn, TypeOK, Ends
<1>5. CASE Restart
  BY <1>2, <1>5, FailedOK DEF Restart, Active, Ends
<1> QED
  BY <1>1, <1>3, <1>4, <1>5, StepCases

-----------------------------------------------------------------------------
(* What a handler holds when it comes to a statement that uses it. *)

Reads == {"find", "row", "fill"}

HasRead ==
    \A i \in Ops :
        /\ At(i, "fill") => seen[i] # None
        /\ plan[i] # Unstarted /\ ~Preceded(plan[i], Reads, "update") => seen[i] # None

HasLoaded ==
    \A i \in Ops :
        /\ plan[i] # Unstarted
        /\ req[i].kind \in Runs
        /\ ~Preceded(plan[i], {"load"}, "insert_run") \/ ~Preceded(plan[i], {"load"}, "memory")
        => loaded[i] # None

LEMMA PrecededWhenOver ==
    ASSUME NEW g, NEW w, w \notin {"refused", "failed"}
    PROVE  Preceded(Failed, g, w) /\ Preceded(Refused, g, w)
  BY DEF Preceded, Failed, Refused

(* The first statement of a plan is preceded by none. *)
LEMMA AtNotPreceded ==
    ASSUME NEW i \in Ops, NEW w, NEW g, At(i, w), plan[i] \in Seq(Statements)
    PROVE  ~Preceded(plan[i], g, w)
<1>1. 1 \in 1 .. Len(plan[i]) /\ plan[i][1] = w
  BY DEF At
<1> QED
  BY <1>1 DEF Preceded

(* A step reaches a statement from one that must precede it only by making *)
(* the latter.                                                             *)
LEMMA MadeFirst ==
    ASSUME NEW i \in Ops, NEW g, NEW w, TypeOK, Stepped(i),
           Preceded(plan[i], g, w), ~Preceded(plan'[i], g, w),
           g \cap {"ensure", "invalidate"} = {}, w \notin {"refused", "failed", "row", "fill"},
           req[i].kind \in Patches => w = "update"
    PROVE  \E x \in g : At(i, x)
<1>1. plan[i][1] \in g
  BY StillPreceded DEF Stepped
<1>2. plan[i] \in Seq(Statements) /\ plan[i] # <<>>
  BY DEF Stepped, TypeOK
<1> QED
  BY <1>1, <1>2 DEF At

(* The handler of a PATCH only reads on to its update with a project.      *)
LEMMA ReadsBeforeUpdate ==
    ASSUME NEW i \in Ops, TypeOK, Handlers, HasRead, Stepped(i), SqlRead(i),
           \E x \in Reads : At(i, x),
           ~Preceded(plan'[i], Reads, "update")
    PROVE  seen'[i] # None
<1> DEFINE k == req[i].kind
<1>1. /\ plan[i] \in Seq(Statements) /\ plan[i] # <<>> /\ k \in Kinds
      /\ PlanOK(mode, k, plan[i]) /\ PlanOK(mode, k, plan'[i])
  BY FollowsOK DEF Stepped, TypeOK
<1>2. PICK n \in 1 .. Len(plan'[i]) : plan'[i][n] = "update"
  BY DEF Preceded
<1>3. k \in Patches
  BY <1>1, <1>2 DEF PlanOK, Fits
<1>4. Head(plan[i]) \in Reads
  BY DEF At
<1>5. CASE FindCached(i)
  BY <1>3, <1>5 DEF FindCached, Keep, TypeOK
<1>6. CASE FindMissed(i)
  <2>1. Resumed(plan[i], plan'[i]) /\ seen'[i] = seen[i]
    BY <1>1, <1>6, ResumeFollows DEF FindMissed, At, GoOn, TypeOK
  <2>2. ~Preceded(plan[i], Reads, "update")
    BY <1>1, <2>1, StillPrecededByRead DEF Reads
  <2> QED
    BY <1>1, <2>1, <2>2 DEF HasRead, Stepped
<1>7. CASE FindRow(i)
  <2>1. CASE sql.project # None
    BY <1>7, <2>1 DEF FindRow, TypeOK
  <2>2. CASE sql.project = None
    <3> DEFINE t == Tail(plan[i])
    <3>1. t # <<>> => t[1] # "ensure" /\ Head(t) = t[1]
      <4>1. t # <<>> => 2 \in 1 .. Len(plan[i]) /\ t[1] = plan[i][2] /\ Head(t) = t[1]
        BY <1>1
      <4>2. \A m \in 1 .. Len(plan[i]) : plan[i][m] # "ensure"
        BY <1>1, <1>3 DEF PlanOK, Fits, Patches
      <4> QED
        BY <4>1, <4>2
    <3>2. plan'[i] \in {Refused, <<t[Len(t)]>>}
      BY <1>3, <1>7, <2>2, <3>1 DEF FindRow, Absent, GoOn, TypeOK, Patches, Runs
    <3>3. Len(plan'[i]) = 1
      BY <3>2 DEF Refused
    <3> QED
      BY <1>1, <1>2, <3>3 DEF PlanOK
  <2> QED
    BY <2>1, <2>2
<1>8. CASE FillCache(i)
  BY <1>3, <1>8 DEF FillCache, Keep, TypeOK, HasRead
<1>9. ASSUME At(i, "invalidate") \/ At(i, "vacant") \/ At(i, "exists") \/ At(i, "count")
             \/ At(i, "load") \/ At(i, "answer")
      PROVE  FALSE
  BY <1>4, <1>9 DEF At, Reads
<1> QED
  BY <1>5, <1>6, <1>7, <1>8, <1>9
     DEF SqlRead, Invalidate, CheckVacant, CheckExists, CountRuns, Load, AnswerFromMemory, Decide

(* The actions that read, by the statement the handler is at. *)
LEMMA Makes ==
    ASSUME NEW i \in Ops, SqlRead(i) \/ SqlWrite(i) \/ MemoryStep(i)
    PROVE  /\ (\E x \in Reads : At(i, x)) => SqlRead(i)
           /\ At(i, "row") => FindRow(i)
           /\ At(i, "load") => Load(i)
           /\ At(i, "count") => CountRuns(i)
           /\ (\A x \in Reads : ~At(i, x)) => seen' = seen
           /\ ~At(i, "load") => loaded' = loaded
<1> USE DEF At, Reads
<1>1. CASE SqlRead(i)
  BY <1>1 DEF SqlRead, FindCached, FindMissed, FindRow, FillCache, Invalidate,
              CheckVacant, CheckExists, CountRuns, Load, AnswerFromMemory, Decide
<1>2. CASE SqlWrite(i)
  BY <1>2 DEF SqlWrite, InsertProject, EnsureProject, UpdateProject, DeleteProject, SetSecret,
              InsertTrigger, UpdateSqlTrigger, DeleteSqlTrigger, InsertWorkflow,
              UpsertWorkflow, SetStatus, DeleteSqlWorkflow, InsertRun, Write
<1>3. CASE MemoryStep(i)
  BY <1>3 DEF MemoryStep, Whole, DualMemory, DualMemoryEnsure, DualMemoryUpsert, InMemory
<1> QED
  BY <1>1, <1>2, <1>3

(* get_project comes to its second and third statement from the one before. *)
LEMMA ReadOn ==
    ASSUME NEW i \in Ops, TypeOK, Handlers, Stepped(i), NEW w \in {"row", "fill"}, At(i, w)'
    PROVE  /\ Resumed(plan[i], plan'[i])
           /\ w = "fill" => At(i, "row")
           /\ w = "row" => At(i, "find")
<1> DEFINE k == req[i].kind
           p == plan[i]
           q == plan'[i]
<1>1. /\ p \in Seq(Statements) /\ p # <<>> /\ k \in Kinds
      /\ PlanOK(mode, k, p) /\ PlanOK(mode, k, q) /\ Follows(k, p, q)
  BY FollowsOK DEF Stepped, TypeOK
<1>2. q \in Seq(Statements) /\ q # <<>> /\ q[1] = w /\ Len(q) > 0
  BY <1>1 DEF At, PlanOK
<1>3. ~Over(q)
  BY <1>2 DEF Over
<1>4. \A n \in 1 .. Len(p) : p[n] = w => n = 1
  BY <1>1 DEF PlanOK
<1>5. ASSUME NEW d \in Nat, Rest(p, q, d) PROVE FALSE
  <2>1. 1 \in 1 .. Len(p) - d \/ q[1] = "refused"
    BY <1>1, <1>2, <1>5 DEF Rest
  <2>2. 1 + d \in 1 .. Len(p) /\ 1 + d # 1 /\ q[1] = p[1 + d]
    BY <1>1, <1>2, <1>5, <2>1 DEF Rest
  <2> QED
    BY <1>2, <1>4, <2>2
<1>6. ~LastOnly(p, q)
  BY <1>1, <1>2, <1>4 DEF LastOnly
<1>7. Resumed(p, q)
  BY <1>1, <1>3, <1>5, <1>6 DEF Follows
<1> QED
  BY <1>1, <1>2, <1>7 DEF Resumed, At

LEMMA FillHasRead ==
    ASSUME NEW i \in Ops, TypeOK, Handlers, Stepped(i),
           SqlRead(i) \/ SqlWrite(i) \/ MemoryStep(i), At(i, "fill")'
    PROVE  seen'[i] # None
<1> DEFINE p == plan[i]
           q == plan'[i]
<1>1. p \in Seq(Statements) /\ p # <<>>
  BY DEF Stepped, TypeOK
<1>2. q # <<>> /\ q[1] = "fill"
  BY DEF At
<1>3. Resumed(p, q) /\ At(i, "row")
  BY ReadOn
<1>5. FindRow(i)
  BY <1>3, Makes
<1>6. CASE sql.project = None
  <2>1. q \in {Refused, <<Tail(p)[Len(Tail(p))]>>, Tail(p), SubSeq(Tail(p), 3, Len(Tail(p)))}
    BY <1>5, <1>6 DEF FindRow, Absent, GoOn, TypeOK
  <2>2. q \in {Tail(p), <<Tail(p)[Len(Tail(p))]>>}
    BY <1>2, <1>5, <1>6, <2>1 DEF FindRow, Absent, GoOn, TypeOK, Refused
  <2>3. Len(q) = Len(p)
    BY <1>3 DEF Resumed
  <2>4. Len(Tail(p)) = Len(p) - 1
    BY <1>1
  <2>5. q = <<Tail(p)[Len(Tail(p))]>> /\ Tail(p) # <<>>
    BY <1>1, <1>2, <1>5, <1>6, <2>2, <2>3, <2>4 DEF FindRow, Absent, GoOn, TypeOK, Refused
  <2>6. Len(q) = 1 /\ Len(p) > 1
    BY <1>1, <2>5
  <2> QED
    BY <2>3, <2>6
<1> QED
  BY <1>5, <1>6 DEF FindRow, TypeOK

LEMMA HasReadStep ==
    ASSUME TypeOK, Handlers, Arrivals, HasRead, Next
    PROVE  HasRead'
<1> SUFFICES ASSUME NEW j \in Ops
             PROVE  /\ At(j, "fill")' => seen'[j] # None
                    /\ plan'[j] # Unstarted /\ ~Preceded(plan'[j], Reads, "update")
                           => seen'[j] # None
  BY DEF HasRead
<1> DEFINE Goal == /\ At(j, "fill")' => seen'[j] # None
                   /\ plan'[j] # Unstarted /\ ~Preceded(plan'[j], Reads, "update")
                          => seen'[j] # None
<1>1. ASSUME plan'[j] = plan[j], seen'[j] = seen[j] PROVE Goal
  BY <1>1 DEF HasRead, At
<1>2. ASSUME plan'[j] = Failed PROVE Goal
  BY <1>2, PrecededWhenOver DEF At, Failed
<1>3. ASSUME NEW i \in Ops, Arrive(i) PROVE Goal
  <2>1. CASE j # i
    BY <1>1, <1>3, <2>1, ArriveFacts DEF Arrive, TypeOK
  <2>2. CASE j = i
    <3>1. /\ PlanOK(mode, script[i], plan'[i]) /\ InTurn(mode, script[i], plan'[i])
          /\ script[i] \in Kinds
      BY <1>3, ArriveFacts
    <3>2. ~At(i, "fill")'
      BY <3>1 DEF At, PlanOK, InTurn
    <3>3. Preceded(plan'[i], Reads, "update")
      BY <3>1 DEF PlanOK, InTurn, Fits, Preceded, Reads
    <3> QED
      BY <2>2, <3>2, <3>3
  <2> QED
    BY <2>1, <2>2
<1>4. ASSUME NEW i \in Ops, Stepped(i), SqlRead(i) \/ SqlWrite(i) \/ MemoryStep(i)
      PROVE  Goal
  <2>1. CASE j # i
    BY <1>1, <1>4, <2>1, OthersKeep DEF Stepped, TypeOK
  <2>2. CASE j = i
    <3>1. At(i, "fill")' => seen'[i] # None
      BY <1>4, FillHasRead
    <3>2. ASSUME ~Preceded(plan'[i], Reads, "update") PROVE seen'[i] # None
      <4>1. CASE \E x \in Reads : At(i, x)
        BY <1>4, <3>2, <4>1, Makes, ReadsBeforeUpdate
      <4>2. CASE \A x \in Reads : ~At(i, x)
        <5>1. ~Preceded(plan[i], Reads, "update")
          BY <1>4, <3>2, <4>2, MadeFirst DEF Reads
        <5> QED
          BY <1>4, <4>2, <5>1, Makes DEF HasRead, Stepped
      <4> QED
        BY <4>1, <4>2
    <3> QED
      BY <2>2, <3>1, <3>2
  <2> QED
    BY <2>1, <2>2
<1>5. ASSUME NEW i \in Ops, Raise(i) PROVE Goal
  BY <1>1, <1>2, <1>5 DEF Raise, GoOn, TypeOK
<1>6. ASSUME Restart PROVE Goal
  BY <1>1, <1>2, <1>6 DEF Restart
<1> QED
  BY <1>3, <1>4, <1>5, <1>6, StepCases

LEMMA HasLoadedStep ==
    ASSUME TypeOK, Handlers, Arrivals, HasLoaded, Next
    PROVE  HasLoaded'
<1> DEFINE Uses(p) == \/ ~Preceded(p, {"load"}, "insert_run")
                      \/ ~Preceded(p, {"load"}, "memory")
<1> SUFFICES ASSUME NEW j \in Ops, plan'[j] # Unstarted, req'[j].kind \in Runs, Uses(plan'[j])
             PROVE  loaded'[j] # None
  BY DEF HasLoaded
<1>1. ASSUME plan'[j] = plan[j], req'[j] = req[j], loaded'[j] = loaded[j]
      PROVE  loaded'[j] # None
  BY <1>1 DEF HasLoaded
<1>2. ASSUME plan'[j] = Failed PROVE FALSE
  BY <1>2, PrecededWhenOver
<1>3. ASSUME NEW i \in Ops, Arrive(i) PROVE loaded'[j] # None
  <2>1. CASE j # i
    BY <1>1, <1>3, <2>1, ArriveFacts DEF Arrive, TypeOK
  <2>2. CASE j = i
    BY <1>3, <2>2, ArriveFacts DEF InTurn
  <2> QED
    BY <2>1, <2>2
<1>4. ASSUME NEW i \in Ops, Stepped(i), SqlRead(i) \/ SqlWrite(i) \/ MemoryStep(i)
      PROVE  loaded'[j] # None
  <2>1. CASE j # i
    BY <1>1, <1>4, <2>1, OthersKeep DEF Stepped, TypeOK
  <2>2. CASE j = i
    <3>1. req[i].kind \in Runs /\ req[i].kind \notin Patches
      BY <1>4, <2>2 DEF Stepped, Runs, Patches
    <3>2. CASE At(i, "load")
      <4>1. Load(i)
        BY <1>4, <3>2, Makes
      <4>2. CASE Reader.workflow # None
        BY <2>2, <4>1, <4>2 DEF Load, TypeOK
      <4>3. CASE Reader.workflow = None
        BY <2>2, <4>1, <4>3, PrecededWhenOver DEF Load, Decide, GoOn, TypeOK
      <4> QED
        BY <4>2, <4>3
    <3>3. CASE ~At(i, "load")
      <4>1. Uses(plan[i])
        BY <1>4, <2>2, <3>1, <3>3, MadeFirst
      <4> QED
        BY <1>4, <2>2, <3>1, <3>3, <4>1, Makes DEF HasLoaded, Stepped
    <3> QED
      BY <3>2, <3>3
  <2> QED
    BY <2>1, <2>2
<1>5. ASSUME NEW i \in Ops, Raise(i) PROVE loaded'[j] # None
  BY <1>1, <1>2, <1>5 DEF Raise, GoOn, TypeOK
<1>6. ASSUME Restart PROVE loaded'[j] # None
  BY <1>1, <1>2, <1>6 DEF Restart
<1> QED
  BY <1>3, <1>4, <1>5, <1>6, StepCases

-----------------------------------------------------------------------------
(* Types.  What the statements of StoreTables make of a database. *)

LEMMA NoneIsNoRow ==
    /\ \A p \in Projects : p # None
    /\ \A w \in Workflows : w # None
    /\ \A i \in Ids : i # None
<1>1. Ids \subseteq Nat
  BY StoreAssumption DEF Ids
<1> QED
  BY <1>1, StoreAssumption DEF Projects, Workflows

LEMMA RowTypes ==
    /\ FirstMetadata \in Metadata
    /\ \A i \in Ids : NewProject(i) \in Projects
    /\ \A g \in Graphs, m \in Metadata : NewWorkflow(g, m) \in Workflows
    /\ \A runs \in SUBSET RunRows : Disown(runs) \in SUBSET RunRows
    /\ \A w \in Workflows, g \in Graphs, m \in Metadata, b \in BOOLEAN :
          Redefine(w, g, m, b) \in Workflows
<1>1. \A i \in Ids : NewProject(i) \in Projects
  BY DEF NewProject, Projects
<1>2. \A g \in Graphs, m \in Metadata : NewWorkflow(g, m) \in Workflows
  BY DEF NewWorkflow, Workflows
<1>3. \A runs \in SUBSET RunRows : Disown(runs) \in SUBSET RunRows
  BY DEF Disown, RunRows
<1>4. ASSUME NEW w \in Workflows, NEW g \in Graphs, NEW m \in Metadata,
             NEW b \in BOOLEAN
      PROVE  Redefine(w, g, m, b) \in Workflows
  <2>1. CASE b
    <3>1. w.version + 1 \in Nat \ {0}
      BY DEF Workflows
    <3> QED
      BY <2>1, <3>1 DEF Redefine, Workflows
  <2>2. CASE ~b
    BY <2>2 DEF Redefine, Workflows
  <2> QED
    BY <2>1, <2>2
<1>5. FirstMetadata \in Metadata
  BY StoreAssumption DEF FirstMetadata, Metadata
<1> QED
  BY <1>1, <1>2, <1>3, <1>4, <1>5

LEMMA ProjectTableTypes ==
    ASSUME NEW db \in Databases, NEW i \in Ids
    PROVE  /\ NoRows \in Databases
           /\ [db EXCEPT !.project = NewProject(i)] \in Databases
           /\ MemCreateProject(db, i) \in Databases
           /\ MemEnsureProject(db, i) \in Databases
           /\ MemUpdateProject(db, i, "name") \in Databases
           /\ MemUpdateProject(db, i, "configs") \in Databases
           /\ MemDeleteProject(db) \in Databases
           /\ SqlEnsureProject(db, i) \in Databases
           /\ SqlDeleteProject(db) \in Databases
           /\ MemSetSecret(db, i) \in Databases
           /\ MemCreateTrigger(db, i) \in Databases
           /\ \A id : UpdateTrigger(db, i, id) \in Databases
           /\ \A id : DeleteTrigger(db, id) \in Databases
           /\ \A c \in Projects, f \in {"name", "configs"} :
                 SqlUpdateProject(db, c, i, f) \in Databases
<1>1. NoRows \in Databases
  BY DEF NoRows, Databases
<1>2. [db EXCEPT !.project = NewProject(i)] \in Databases
  BY RowTypes DEF Databases
<1>3. MemUpdateProject(db, i, "name") \in Databases
  <2>1. CASE db.project # None
    <3>1. db.project \in Projects
      BY <2>1 DEF Databases
    <3> QED
      BY <2>1, <3>1 DEF MemUpdateProject, Databases, Projects
  <2> QED
    BY <2>1 DEF MemUpdateProject
<1>4. MemUpdateProject(db, i, "configs") \in Databases
  <2>1. CASE db.project # None
    <3>1. db.project \in Projects
      BY <2>1 DEF Databases
    <3> QED
      BY <2>1, <3>1 DEF MemUpdateProject, Databases, Projects
  <2> QED
    BY <2>1 DEF MemUpdateProject
<1>5. MemDeleteProject(db) \in Databases /\ SqlDeleteProject(db) \in Databases
  BY RowTypes DEF MemDeleteProject, SqlDeleteProject, Databases
<1>6. MemSetSecret(db, i) \in Databases /\ MemCreateTrigger(db, i) \in Databases
  BY DEF MemSetSecret, MemCreateTrigger, Databases
<1>7. ASSUME NEW id PROVE UpdateTrigger(db, i, id) \in Databases /\ DeleteTrigger(db, id) \in Databases
  BY DEF UpdateTrigger, DeleteTrigger, Databases
<1>8. ASSUME NEW c \in Projects, NEW f \in {"name", "configs"}
      PROVE  SqlUpdateProject(db, c, i, f) \in Databases
  <2>1. [c EXCEPT ![f] = i] \in Projects
    BY DEF Projects
  <2> QED
    BY <2>1 DEF SqlUpdateProject, Databases
<1> QED
  BY <1>1, <1>2, <1>3, <1>4, <1>5, <1>6, <1>7, <1>8
     DEF MemCreateProject, MemEnsureProject, SqlEnsureProject

LEMMA WorkflowTableTypes ==
    ASSUME NEW db \in Databases, NEW g \in Graphs, NEW m \in Metadata
    PROVE  /\ MemCreateWorkflow(db, g, m) \in Databases
           /\ MemUpsertWorkflow(db, g, m) \in Databases
           /\ SqlUpsertWorkflow(db, g, m) \in Databases
           /\ \A t \in {"published", "archived"} : SetWorkflowStatus(db, t) \in Databases
           /\ MemDeleteWorkflow(db) \in Databases /\ SqlDeleteWorkflow(db) \in Databases
           /\ \A r \in RunRows : PutRun(db, r) \in Databases
<1>1. \A w \in Workflows \cup {None} : [db EXCEPT !.workflow = w] \in Databases
  BY DEF Databases
<1>2. NewWorkflow(g, m) \in Workflows
  BY RowTypes
<1>3. MemCreateWorkflow(db, g, m) \in Databases
  BY <1>1, <1>2 DEF MemCreateWorkflow
<1>4. ASSUME db.workflow # None
      PROVE  /\ db.workflow \in Workflows
             /\ \A b \in BOOLEAN : Redefine(db.workflow, g, m, b) \in Workflows
  BY <1>4, RowTypes DEF Databases
<1>5. MemUpsertWorkflow(db, g, m) \in Databases
  BY <1>1, <1>3, <1>4 DEF MemUpsertWorkflow
<1>6. SqlUpsertWorkflow(db, g, m) \in Databases
  BY <1>1, <1>2, <1>4 DEF SqlUpsertWorkflow
<1>7. ASSUME NEW t \in {"published", "archived"} PROVE SetWorkflowStatus(db, t) \in Databases
  BY <1>4 DEF SetWorkflowStatus, Workflows, Databases
<1>8. MemDeleteWorkflow(db) \in Databases /\ SqlDeleteWorkflow(db) \in Databases
  BY DEF MemDeleteWorkflow, SqlDeleteWorkflow, Databases
<1>9. \A r \in RunRows : PutRun(db, r) \in Databases
  BY DEF PutRun, Databases
<1> QED
  BY <1>3, <1>5, <1>6, <1>7, <1>8, <1>9

(* What a handler reads of its request and of what it holds. *)
LEMMA HeldTypes ==
    ASSUME NEW i \in Ops, TypeOK, Handlers, HasRead, HasLoaded
    PROVE  /\ i \in Ids /\ req[i].graph \in Graphs
           /\ req[i].metadata \in Metadata /\ Status(i) \in {"published", "archived"}
           /\ At(i, "update") => seen[i] \in Projects
           /\ At(i, "fill") => seen[i] \in Projects
           /\ At(i, "insert_run") \/ (At(i, "memory") /\ req[i].kind \in Runs)
                  => loaded[i] \in Workflows /\ Run(i) \in RunRows
<1>1. i \in Ids /\ req[i].graph \in Graphs /\ req[i].metadata \in Metadata
  <2>1. i \in Ids
    BY StoreAssumption DEF Ids, Ops
  <2>2. req[i] \in Requests
    BY DEF TypeOK
  <2> QED
    BY <2>1, <2>2 DEF Requests
<1>2. plan[i] \in Seq(Statements)
  BY DEF TypeOK
<1>3. At(i, "update") \/ At(i, "fill") => seen[i] \in Projects
  BY <1>2, AtFacts, AtNotPreceded DEF HasRead, TypeOK
<1>4. ASSUME At(i, "insert_run") \/ (At(i, "memory") /\ req[i].kind \in Runs)
      PROVE  loaded[i] \in Workflows /\ Run(i) \in RunRows
  <2>1. /\ plan[i] # Unstarted /\ req[i].kind \in Runs
        /\ ~Preceded(plan[i], {"load"}, "insert_run") \/ ~Preceded(plan[i], {"load"}, "memory")
    BY <1>2, <1>4, AtFacts, AtNotPreceded DEF Fits
  <2>2. loaded[i] \in Workflows
    BY <2>1 DEF HasLoaded, TypeOK
  <2> QED
    BY <1>1, <2>2 DEF Run, RunRows, Workflows
<1> QED
  BY <1>1, <1>3, <1>4 DEF Status

LEMMA SqlTyped ==
    ASSUME NEW i \in Ops, TypeOK, Handlers, HasRead, HasLoaded, SqlWrite(i)
    PROVE  sql' \in Databases
<1>1. /\ sql \in Databases /\ i \in Ids /\ req[i].graph \in Graphs
      /\ req[i].metadata \in Metadata /\ Status(i) \in {"published", "archived"}
  BY HeldTypes DEF TypeOK
<1>2. CASE InsertProject(i)
  BY <1>1, <1>2, ProjectTableTypes DEF InsertProject, Write
<1>3. CASE EnsureProject(i)
  BY <1>1, <1>3, ProjectTableTypes DEF EnsureProject, Write
<1>4. CASE UpdateProject(i)
  BY <1>1, <1>4, HeldTypes, ProjectTableTypes DEF UpdateProject, Write
<1>5. CASE DeleteProject(i)
  BY <1>1, <1>5, ProjectTableTypes DEF DeleteProject, Write
<1>6. CASE SetSecret(i)
  BY <1>1, <1>6, ProjectTableTypes DEF SetSecret, Write, MemSetSecret
<1>7. CASE InsertTrigger(i)
  BY <1>1, <1>7, ProjectTableTypes DEF InsertTrigger, Write
<1>8. CASE UpdateSqlTrigger(i)
  BY <1>1, <1>8, ProjectTableTypes DEF UpdateSqlTrigger, Write
<1>9. CASE DeleteSqlTrigger(i)
  BY <1>1, <1>9 DEF DeleteSqlTrigger, Write, Databases
<1>10. CASE InsertWorkflow(i)
  BY <1>1, <1>10, WorkflowTableTypes DEF InsertWorkflow, Write
<1>11. CASE UpsertWorkflow(i)
  BY <1>1, <1>11, WorkflowTableTypes DEF UpsertWorkflow, Write
<1>12. CASE SetStatus(i)
  BY <1>1, <1>12, WorkflowTableTypes DEF SetStatus, Write
<1>13. CASE DeleteSqlWorkflow(i)
  BY <1>1, <1>13, WorkflowTableTypes DEF DeleteSqlWorkflow, Write
<1>14. CASE InsertRun(i)
  <2>1. At(i, "insert_run") /\ sql' \in {sql, PutRun(sql, Run(i))}
    BY <1>14 DEF InsertRun, Write
  <2>2. Run(i) \in RunRows
    BY <2>1, HeldTypes
  <2> QED
    BY <1>1, <2>1, <2>2, WorkflowTableTypes
<1> QED
  BY <1>2, <1>3, <1>4, <1>5, <1>6, <1>7, <1>8, <1>9, <1>10, <1>11, <1>12, <1>13, <1>14
     DEF SqlWrite

LEMMA MemEffectTyped ==
    ASSUME NEW i \in Ops, TypeOK, Handlers, HasRead, HasLoaded,
           At(i, "memory") \/ req[i].kind \notin Runs
    PROVE  MemEffect(i) \in Databases
<1>1. /\ mem \in Databases /\ i \in Ids /\ req[i].graph \in Graphs
      /\ req[i].metadata \in Metadata
      /\ Status(i) \in {"published", "archived"}
  BY HeldTypes DEF TypeOK
<1>2. req[i].kind \in Runs => Run(i) \in RunRows
  BY HeldTypes
<1> QED
  BY <1>1, <1>2, ProjectTableTypes, WorkflowTableTypes DEF MemEffect, Runs

LEMMA MemTyped ==
    ASSUME NEW i \in Ops, TypeOK, Handlers, HasRead, HasLoaded, MemoryStep(i)
    PROVE  mem' \in Databases
<1>1. /\ mem \in Databases /\ i \in Ids /\ req[i].graph \in Graphs
      /\ req[i].metadata \in Metadata
      /\ \A id : UpdateTrigger(mem, i, id) \in Databases /\ DeleteTrigger(mem, id) \in Databases
  BY HeldTypes, ProjectTableTypes DEF TypeOK
<1>2. /\ MemEnsureProject(mem, i) \in Databases
      /\ \A m \in Metadata :
            /\ MemUpsertWorkflow(MemEnsureProject(mem, i), req[i].graph, m) \in Databases
            /\ MemUpsertWorkflow(mem, req[i].graph, m) \in Databases
  BY <1>1, ProjectTableTypes, WorkflowTableTypes
<1>3. CASE Whole(i)
  <2> DEFINE k == req[i].kind
             db == IF k # "RunProject" THEN mem
                   ELSE MemUpsertWorkflow(MemEnsureProject(mem, i), req[i].graph, req[i].metadata)
             run == [id |-> i, version |-> db.workflow.version, graph |-> db.workflow.graph,
                     owned |-> TRUE]
  <2>1. db \in Databases
    BY <1>1, <1>2
  <2>2. ASSUME k \in Runs, MemHolds(k, db) PROVE PutRun(db, run) \in Databases
    <3>1. db.workflow # None
      BY <2>2 DEF MemHolds
    <3>2. db.workflow \in Workflows
      BY <2>1, <3>1 DEF Databases
    <3> HIDE DEF db
    <3>3. run \in RunRows
      BY <1>1, <3>2 DEF RunRows, Workflows
    <3> QED
      BY <1>1, <2>1, <3>3, WorkflowTableTypes
  <2>3. k \notin Runs => MemEffect(i) \in Databases
    BY MemEffectTyped
  <2> HIDE DEF db, run
  <2>4. mem' \in {db, PutRun(db, run), UpdateTrigger(mem, i, req[i].trigger),
                  DeleteTrigger(mem, req[i].trigger), MemEffect(i)}
    BY <1>3 DEF Whole, db, run
  <2>5. mem' = IF ~MemHolds(k, db) THEN db
               ELSE IF k \in Runs THEN PutRun(db, run)
               ELSE IF k = "PatchTrigger" THEN UpdateTrigger(mem, i, req[i].trigger)
               ELSE IF k = "DeleteTrigger" THEN DeleteTrigger(mem, req[i].trigger)
               ELSE MemEffect(i)
    BY <1>3 DEF Whole, db, run
  <2> QED
    BY <1>1, <2>1, <2>2, <2>3, <2>5
<1>4. CASE DualMemory(i)
  BY <1>1, <1>4, MemEffectTyped DEF DualMemory, InMemory
<1>5. CASE DualMemoryEnsure(i)
  BY <1>2, <1>5 DEF DualMemoryEnsure, InMemory
<1>6. CASE DualMemoryUpsert(i)
  BY <1>1, <1>2, <1>6 DEF DualMemoryUpsert, InMemory
<1> QED
  BY <1>3, <1>4, <1>5, <1>6 DEF MemoryStep

LEMMA ReadTyped ==
    ASSUME NEW i \in Ops, TypeOK, SqlRead(i)
    PROVE  /\ cache' \in Projects \cup {None}
           /\ seen' \in [Ops -> Projects \cup {None}]
           /\ loaded' \in [Ops -> Workflows \cup {None}]
<1>1. /\ sql.project \in Projects \cup {None} /\ Reader.workflow \in Workflows \cup {None}
      /\ seen[i] \in Projects \cup {None}
  BY DEF TypeOK, Reader, Databases
<1> QED
  BY <1>1 DEF TypeOK, SqlRead, FindCached, FindMissed, FindRow, FillCache, Invalidate, Keep,
              CheckVacant, CheckExists, CountRuns, Load, AnswerFromMemory, Decide

LEMMA TypeStep ==
    ASSUME TypeOK, Handlers, Arrivals, HasRead, HasLoaded, Next
    PROVE  TypeOK'
<1>0. mode' = mode /\ script' = script /\ Handlers'
  BY Progress DEF Onward
<1>1. plan' \in [Ops -> Seq(Statements)]
  <2>1. ASSUME NEW j \in Ops PROVE plan'[j] \in Seq(Statements)
    <3>1. CASE plan'[j] # Unstarted
      BY <1>0, <3>1 DEF Handlers, PlanOK
    <3>2. CASE plan'[j] = Unstarted
      BY <3>2, Singles DEF Unstarted, Statements
    <3> QED
      BY <3>1, <3>2
  <2>2. \A i \in Ops : Arrive(i) => plan' = [plan EXCEPT ![i] = plan'[i]]
    BY ArriveFacts
  <2>3. plan' = [j \in Ops |-> plan'[j]]
    BY <2>2, StepCases DEF Stepped, Raise, GoOn, Restart, TypeOK
  <2> QED
    BY <2>1, <2>3
<1>2. ASSUME NEW i \in Ops, Arrive(i)
      PROVE  TypeOK'
  <2>1. UNCHANGED <<mem, sql, cache, seen, loaded, faults, restarts>>
    BY <1>2 DEF Arrive
  <2>2. req' \in [Ops -> Requests]
    BY <1>2, ArriveFacts DEF TypeOK
  <2>3. overlap' \in [Ids -> SUBSET Ops] /\ disturbed' \in BOOLEAN
    BY <1>2 DEF Arrive, Disturb, TypeOK
  <2> QED
    BY <1>0, <1>1, <2>1, <2>2, <2>3 DEF TypeOK
<1>3. ASSUME NEW i \in Ops, Stepped(i), SqlRead(i)
      PROVE  TypeOK'
  BY <1>0, <1>1, <1>3, Frames, ReadTyped DEF Stepped, TypeOK
<1>4. ASSUME NEW i \in Ops, Stepped(i), SqlWrite(i)
      PROVE  TypeOK'
  <2>1. disturbed' \in BOOLEAN
    BY <1>4 DEF SqlWrite, InsertProject, EnsureProject, UpdateProject, DeleteProject, SetSecret,
                InsertTrigger, UpdateSqlTrigger, DeleteSqlTrigger, InsertWorkflow,
                UpsertWorkflow, SetStatus, DeleteSqlWorkflow, InsertRun, Disturb, TypeOK
  <2> QED
    BY <1>0, <1>1, <1>4, <2>1, Frames, SqlTyped DEF Stepped, TypeOK
<1>5. ASSUME NEW i \in Ops, Stepped(i), MemoryStep(i)
      PROVE  TypeOK'
  <2>1. disturbed' \in BOOLEAN
    BY <1>5 DEF MemoryStep, Whole, DualMemory, DualMemoryEnsure, DualMemoryUpsert, Disturb, TypeOK
  <2> QED
    BY <1>0, <1>1, <1>5, <2>1, Frames, MemTyped DEF Stepped, TypeOK
<1>6. ASSUME NEW i \in Ops, Raise(i)
      PROVE  TypeOK'
  <2>1. faults + 1 \in 0 .. MaxTroubles
    BY <1>6, StoreAssumption DEF Raise, TypeOK
  <2> QED
    BY <1>0, <1>1, <1>6, <2>1 DEF Raise, Disturb, TypeOK
<1>7. CASE Restart
  <2>1. restarts + 1 \in 0 .. MaxTroubles
    BY <1>7, StoreAssumption DEF Restart, TypeOK
  <2>2. mem' \in Databases /\ disturbed' \in BOOLEAN
    BY <1>7 DEF Restart, NoRows, Databases, Disturb, TypeOK
  <2>3. UNCHANGED <<sql, cache, req, seen, loaded, faults, overlap>>
    BY <1>7 DEF Restart
  <2>4. restarts' \in 0 .. MaxTroubles
    BY <1>7, <2>1 DEF Restart
  <2> QED
    BY <1>0, <1>1, <2>2, <2>3, <2>4 DEF TypeOK
<1> QED
  BY <1>2, <1>3, <1>4, <1>5, <1>6, <1>7, StepCases

Base == TypeOK /\ Handlers /\ Arrivals /\ HasRead /\ HasLoaded

LEMMA BaseInit ==
    ASSUME Init
    PROVE  Base
<1>1. Unstarted \in Seq(Statements)
  BY Singles DEF Unstarted, Statements
<1>2. \A i \in Ops : plan[i] = Unstarted /\ seen[i] = None /\ loaded[i] = None /\ req[i] = NoRequest
  BY DEF Init
<1>3. NoRequest \in Requests /\ 0 \in Ids /\ 0 \in 0 .. MaxTroubles /\ Ops \subseteq Ids
  BY RowTypes, StoreAssumption DEF NoRequest, Requests, Ids, Ops
<1>4. \A db \in {NoRows, Stocked({}), Stocked({FirstRun})} : db \in Databases
  <2>1. NewProject(0) \in Projects /\ NewWorkflow(FirstGraph, FirstMetadata) \in Workflows
    BY <1>3, StoreAssumption, RowTypes
  <2>2. FirstRun \in RunRows
    BY <1>3, StoreAssumption DEF FirstRun, RunRows
  <2> QED
    BY <1>3, <2>1, <2>2 DEF NoRows, Stocked, Databases
<1>5. mem \in Databases /\ sql \in Databases
  BY <1>4 DEF Init
<1>6. cache \in Projects \cup {None}
  BY <1>5 DEF Init, Databases
<1>7. TypeOK
  BY <1>1, <1>3, <1>5, <1>6 DEF Init, TypeOK
<1>8. Arrivals
  BY <1>2, <1>3 DEF Init, Arrivals, Active, Ends
<1>9. Handlers /\ HasLoaded
  BY <1>2 DEF Handlers, HasLoaded
<1>10. HasRead
  BY <1>2 DEF HasRead, At, Unstarted
<1> QED
  BY <1>7, <1>8, <1>9, <1>10 DEF Base

LEMMA BaseStep ==
    ASSUME Base, [Next]_vars
    PROVE  Base'
<1>1. CASE Next
  BY <1>1, TypeStep, Progress, ArrivalsStep, HasReadStep, HasLoadedStep DEF Base
<1>2. CASE UNCHANGED vars
  BY <1>2 DEF Base, TypeOK, Handlers, Arrivals, HasRead, HasLoaded, At, Active, vars
<1> QED
  BY <1>1, <1>2

LEMMA BaseInvariance == Spec => []Base
<1> QED
  BY BaseInit, BaseStep, PTL DEF Spec

(* The databases, the cache and what the handlers hold are always rows of  *)
(* the schema or nothing: no statement writes a row made of a project or a *)
(* workflow that its handler has not read.                                 *)
THEOREM StoreTypes == Spec => []TypeOK
<1>1. Base => TypeOK
  BY DEF Base
<1> QED
  BY <1>1, BaseInvariance, PTL

-----------------------------------------------------------------------------
(* What belongs to a project. *)

Owned(db)     == db.triggers # {} => db.project # None
OwnedSecret(db) == db.secret # None => db.project # None

LEMMA OwnershipKept ==
    ASSUME NEW db \in Databases, Owned(db), NEW i \in Ids
    PROVE  /\ Owned(MemCreateProject(db, i)) /\ Owned(MemEnsureProject(db, i))
           /\ Owned(MemUpdateProject(db, i, "name")) /\ Owned(MemUpdateProject(db, i, "configs"))
           /\ Owned(MemDeleteProject(db)) /\ Owned(MemSetSecret(db, i))
           /\ db.project # None => Owned(MemCreateTrigger(db, i))
           /\ \A id : Owned(UpdateTrigger(db, i, id)) /\ Owned(DeleteTrigger(db, id))
           /\ \A g, m : /\ Owned(MemCreateWorkflow(db, g, m)) /\ Owned(MemUpsertWorkflow(db, g, m))
                        /\ Owned(SqlUpsertWorkflow(db, g, m))
           /\ \A t : Owned(SetWorkflowStatus(db, t))
           /\ Owned(MemDeleteWorkflow(db)) /\ Owned(SqlDeleteWorkflow(db))
           /\ \A r : Owned(PutRun(db, r))
<1>1. NewProject(i) # None
  BY RowTypes, NoneIsNoRow
<1>2. Owned(MemCreateProject(db, i)) /\ Owned(MemEnsureProject(db, i))
  BY <1>1 DEF Owned, MemCreateProject, MemEnsureProject, Databases
<1>3. ASSUME NEW f \in {"name", "configs"}
      PROVE  Owned(MemUpdateProject(db, i, f))
  <2>1. CASE db.project # None
    <3>1. db.project \in Projects /\ [db.project EXCEPT ![f] = i] \in Projects
      BY <2>1 DEF Databases, Projects
    <3>2. MemUpdateProject(db, i, f).project = [db.project EXCEPT ![f] = i]
      BY <2>1 DEF MemUpdateProject, Databases
    <3> QED
      BY <3>1, <3>2, NoneIsNoRow DEF Owned
  <2> QED
    BY <2>1 DEF Owned, MemUpdateProject
<1>4. Owned(MemDeleteProject(db)) /\ Owned(MemSetSecret(db, i))
  BY DEF Owned, MemDeleteProject, MemSetSecret, Databases
<1>5. db.project # None => Owned(MemCreateTrigger(db, i))
  BY DEF Owned, MemCreateTrigger, Databases
<1>6. ASSUME NEW id PROVE Owned(UpdateTrigger(db, i, id)) /\ Owned(DeleteTrigger(db, id))
  BY DEF Owned, UpdateTrigger, DeleteTrigger, Databases
<1>7. ASSUME NEW g, NEW m
      PROVE  /\ Owned(MemCreateWorkflow(db, g, m)) /\ Owned(MemUpsertWorkflow(db, g, m))
             /\ Owned(SqlUpsertWorkflow(db, g, m))
  BY DEF Owned, MemCreateWorkflow, MemUpsertWorkflow, SqlUpsertWorkflow, Databases
<1>8. ASSUME NEW t PROVE Owned(SetWorkflowStatus(db, t))
  BY DEF Owned, SetWorkflowStatus, Databases
<1>9. Owned(MemDeleteWorkflow(db)) /\ Owned(SqlDeleteWorkflow(db))
  BY DEF Owned, MemDeleteWorkflow, SqlDeleteWorkflow, Databases
<1>10. ASSUME NEW r PROVE Owned(PutRun(db, r))
  BY DEF Owned, PutRun, Databases
<1> QED
  BY <1>2, <1>3, <1>4, <1>5, <1>6, <1>7, <1>8, <1>9, <1>10

(* In SQL the foreign keys see to it, whatever the mode. *)
LEMMA SqlOwnership ==
    ASSUME Base, NEW i \in Ops, SqlWrite(i), Owned(sql), OwnedSecret(sql)
    PROVE  Owned(sql)' /\ OwnedSecret(sql)'
<1>1. /\ sql \in Databases /\ i \in Ids /\ NewProject(i) # None
      /\ At(i, "update") => seen[i] \in Projects
  BY HeldTypes, RowTypes, NoneIsNoRow DEF Base, TypeOK
<1> USE DEF Owned, OwnedSecret, Databases
<1>2. CASE InsertProject(i)
  BY <1>1, <1>2 DEF InsertProject, Write
<1>3. CASE EnsureProject(i)
  BY <1>1, <1>3 DEF EnsureProject, Write, SqlEnsureProject
<1>4. CASE UpdateProject(i)
  <2>1. PICK f \in {"name", "configs"} : sql' = SqlUpdateProject(sql, seen[i], i, f)
    BY <1>4 DEF UpdateProject, Write
  <2>2. seen[i] \in Projects
    BY <1>1, <1>4 DEF UpdateProject, Write
  <2>3. [seen[i] EXCEPT ![f] = i] # None
    <3>1. [seen[i] EXCEPT ![f] = i] \in Projects
      BY <1>1, <2>2 DEF Projects
    <3> QED
      BY <3>1, NoneIsNoRow
  <2> QED
    BY <1>1, <2>1, <2>3 DEF SqlUpdateProject
<1>5. CASE DeleteProject(i)
  BY <1>1, <1>5 DEF DeleteProject, Write, SqlDeleteProject
<1>6. CASE SetSecret(i)
  BY <1>1, <1>6 DEF SetSecret, Write, ProjectReferenced
<1>7. CASE InsertTrigger(i)
  BY <1>1, <1>7 DEF InsertTrigger, Write, ProjectReferenced, MemCreateTrigger
<1>8. CASE UpdateSqlTrigger(i)
  BY <1>1, <1>8 DEF UpdateSqlTrigger, Write, UpdateTrigger
<1>9. CASE DeleteSqlTrigger(i)
  BY <1>1, <1>9 DEF DeleteSqlTrigger, Write
<1>10. CASE InsertWorkflow(i)
  BY <1>1, <1>10 DEF InsertWorkflow, Write, MemCreateWorkflow
<1>11. CASE UpsertWorkflow(i)
  BY <1>1, <1>11 DEF UpsertWorkflow, Write, SqlUpsertWorkflow
<1>12. CASE SetStatus(i)
  BY <1>1, <1>12 DEF SetStatus, Write, SetWorkflowStatus
<1>13. CASE DeleteSqlWorkflow(i)
  BY <1>1, <1>13 DEF DeleteSqlWorkflow, Write, SqlDeleteWorkflow
<1>14. CASE InsertRun(i)
  BY <1>1, <1>14 DEF InsertRun, Write, PutRun
<1> QED
  BY <1>2, <1>3, <1>4, <1>5, <1>6, <1>7, <1>8, <1>9, <1>10, <1>11, <1>12, <1>13, <1>14
     DEF SqlWrite

(* In memory the handlers see to it: they look for the project and add to  *)
(* it without a suspension in between.                                     *)
LEMMA MemOwnership ==
    ASSUME Base, NEW i \in Ops, MemoryStep(i), ~ReadsSql, Owned(mem)
    PROVE  Owned(mem)'
<1> DEFINE k == req[i].kind
<1>1. /\ mem \in Databases /\ i \in Ids /\ req[i].graph \in Graphs
      /\ req[i].metadata \in Metadata
      /\ MemEnsureProject(mem, i) \in Databases
      /\ mode \in {"memory", "dual_memory"}
  BY HeldTypes, ProjectTableTypes, ModeFacts DEF Base, TypeOK, ReadsSql
<1>2. ASSUME k = "CreateTrigger" => mem.project # None
      PROVE  Owned(MemEffect(i))
  BY <1>1, <1>2, OwnershipKept DEF MemEffect, Runs
<1>3. CASE Whole(i)
  <2> DEFINE db == IF k # "RunProject" THEN mem
                   ELSE MemUpsertWorkflow(MemEnsureProject(mem, i), req[i].graph, req[i].metadata)
             run == [id |-> i, version |-> db.workflow.version, graph |-> db.workflow.graph,
                     owned |-> TRUE]
  <2>1. db \in Databases /\ Owned(db)
    BY <1>1, OwnershipKept, WorkflowTableTypes
  <2> HIDE DEF db
  <2>2. mem' = IF ~MemHolds(k, db) THEN db
               ELSE IF k \in Runs THEN PutRun(db, run)
               ELSE IF k = "PatchTrigger" THEN UpdateTrigger(mem, i, req[i].trigger)
               ELSE IF k = "DeleteTrigger" THEN DeleteTrigger(mem, req[i].trigger)
               ELSE MemEffect(i)
    BY <1>3 DEF Whole, db
  <2>3. MemHolds(k, db) /\ k = "CreateTrigger" => mem.project # None
    BY DEF MemHolds, db
  <2> HIDE DEF run
  <2> QED
    BY <1>1, <1>2, <2>1, <2>2, <2>3, OwnershipKept
<1>4. CASE DualMemory(i)
  <2>1. mode = "dual_memory"
    BY <1>1, <1>4, AtFacts DEF DualMemory, Fits, Base, TypeOK
  <2>2. GuardHolds(k) /\ k = "CreateTrigger" => mem.project # None
    BY <2>1 DEF GuardHolds
  <2> QED
    BY <1>2, <1>4, <2>2 DEF DualMemory, InMemory
<1>5. CASE DualMemoryEnsure(i)
  BY <1>1, <1>5, OwnershipKept DEF DualMemoryEnsure, InMemory
<1>6. CASE DualMemoryUpsert(i)
  <2>1. mem' = MemUpsertWorkflow(MemEnsureProject(mem, i), req[i].graph, req[i].metadata)
    BY <1>6 DEF DualMemoryUpsert, InMemory
  <2>2. Owned(MemEnsureProject(mem, i))
    BY <1>1, OwnershipKept
  <2> QED
    BY <1>1, <2>1, <2>2, OwnershipKept
<1> QED
  BY <1>3, <1>4, <1>5, <1>6 DEF MemoryStep

Ownership == /\ Owned(sql) /\ OwnedSecret(sql)
             /\ ~ReadsSql => Owned(mem)

LEMMA OwnershipStep ==
    ASSUME Base, Ownership, [Next]_vars
    PROVE  Ownership'
<1>1. mode' = mode /\ ReadsSql' = ReadsSql
  BY Progress DEF Base, Onward, ReadsSql, vars
<1>2. ASSUME mem' = mem, sql' = sql
      PROVE  Ownership'
  BY <1>1, <1>2 DEF Ownership, Owned, OwnedSecret
<1>3. CASE Restart
  <2>1. Owned(mem)' /\ sql' = sql
    BY <1>3 DEF Restart, NoRows, Owned
  <2> QED
    BY <1>1, <2>1 DEF Ownership, Owned, OwnedSecret
<1>4. ASSUME NEW i \in Ops, SqlWrite(i)
      PROVE  Ownership'
  BY <1>1, <1>4, Frames, SqlOwnership DEF Ownership, Owned
<1>5. ASSUME NEW i \in Ops, MemoryStep(i)
      PROVE  Ownership'
  BY <1>1, <1>5, Frames, MemOwnership DEF Ownership, Owned, OwnedSecret
<1>6. ASSUME NEW i \in Ops, Arrive(i) \/ Raise(i)
      PROVE  Ownership'
  BY <1>2, <1>6 DEF Arrive, Raise
<1> QED
  BY <1>2, <1>3, <1>4, <1>5, <1>6, Frames DEF Next, vars

(* What the reader lists is owned, after any sequence of requests, faults  *)
(* and restarts: in SQL by the foreign keys, in memory because a handler   *)
(* looks and writes without suspending.                                    *)
THEOREM NothingOutlivesItsProject == Spec => []OwnedFollowsOwner
<1>1. Init => Ownership
  <2>1. ASSUME NEW db \in {NoRows, Stocked({}), Stocked({FirstRun})}
        PROVE  Owned(db) /\ OwnedSecret(db)
    <3>1. NewProject(0) # None
      BY StoreAssumption, RowTypes, NoneIsNoRow, 0 \in Ids DEF Ids
    <3> QED
      BY <3>1 DEF Owned, OwnedSecret, NoRows, Stocked
  <2> QED
    BY <2>1 DEF Init, Ownership
<1>2. Ownership => OwnedFollowsOwner
  BY DEF Ownership, Owned, OwnedSecret, OwnedFollowsOwner, Reader
<1> QED
  BY <1>1, <1>2, BaseInvariance, OwnershipStep, PTL DEF Spec

-----------------------------------------------------------------------------
(* The workflow and its runs, as the reader holds them: what one step may  *)
(* make of them.                                                           *)

(* Every run of b is one of a; its project reference may have gone. *)
AsRuns(a, b) ==
    \A r \in b : \E q \in a : q.id = r.id /\ q.version = r.version /\ q.graph = r.graph

Keeps(a, b) == b.workflow = a.workflow /\ AsRuns(a.runs, b.runs)

(* v is what a request with graph g makes of the workflow w. *)
Brought(w, v, g) ==
    /\ v \in Workflows /\ v.graph = g
    /\ w # None => /\ v.status = w.status
                   /\ \/ v.version = w.version + 1
                      \/ v.version = w.version /\ w.graph = g

Brings(a, b, g) == b.runs = a.runs /\ Brought(a.workflow, b.workflow, g)

LEMMA ProjectTablesKeepRuns ==
    ASSUME NEW db \in Databases, NEW i \in Ids
    PROVE  /\ Keeps(db, db)
           /\ Keeps(db, [db EXCEPT !.project = NewProject(i)])
           /\ Keeps(db, MemCreateProject(db, i))
           /\ Keeps(db, MemUpdateProject(db, i, "name"))
           /\ Keeps(db, MemUpdateProject(db, i, "configs"))
           /\ Keeps(db, MemDeleteProject(db)) /\ Keeps(db, SqlDeleteProject(db))
           /\ Keeps(db, SqlEnsureProject(db, i))
           /\ MemEnsureProject(db, i).workflow = db.workflow
           /\ MemEnsureProject(db, i).runs = db.runs
           /\ Keeps(db, MemSetSecret(db, i)) /\ Keeps(db, MemCreateTrigger(db, i))
           /\ \A c, f : Keeps(db, SqlUpdateProject(db, c, i, f))
           /\ \A id : Keeps(db, UpdateTrigger(db, i, id)) /\ Keeps(db, DeleteTrigger(db, id))
<1>1. \A b \in Databases : b.workflow = db.workflow /\ b.runs = db.runs => Keeps(db, b)
  BY DEF Keeps, AsRuns
<1>2. AsRuns(db.runs, Disown(db.runs))
  BY DEF AsRuns, Disown, Databases, RunRows
<1>3. Keeps(db, MemDeleteProject(db)) /\ Keeps(db, SqlDeleteProject(db))
  BY <1>1, <1>2 DEF Keeps, MemDeleteProject, SqlDeleteProject, Databases
<1>4. /\ MemEnsureProject(db, i).workflow = db.workflow
      /\ MemEnsureProject(db, i).runs = db.runs
  BY DEF MemEnsureProject, MemCreateProject, Databases
<1>5. AsRuns(db.runs, db.runs)
  BY DEF AsRuns
<1> USE DEF Keeps, Databases
<1>6. /\ Keeps(db, db)
      /\ Keeps(db, [db EXCEPT !.project = NewProject(i)])
      /\ Keeps(db, MemCreateProject(db, i)) /\ Keeps(db, SqlEnsureProject(db, i))
      /\ Keeps(db, MemSetSecret(db, i)) /\ Keeps(db, MemCreateTrigger(db, i))
  BY <1>5 DEF MemCreateProject, SqlEnsureProject, MemSetSecret, MemCreateTrigger
<1>7. \A f : Keeps(db, MemUpdateProject(db, i, f))
  BY <1>5 DEF MemUpdateProject
<1>8. \A c, f : Keeps(db, SqlUpdateProject(db, c, i, f))
  BY <1>5 DEF SqlUpdateProject
<1>9. \A id : Keeps(db, UpdateTrigger(db, i, id)) /\ Keeps(db, DeleteTrigger(db, id))
  BY <1>5 DEF UpdateTrigger, DeleteTrigger
<1> QED
  BY <1>3, <1>4, <1>6, <1>7, <1>8, <1>9

LEMMA WorkflowTablesBring ==
    ASSUME NEW db \in Databases, NEW g \in Graphs, NEW m \in Metadata
    PROVE  /\ db.workflow = None => Brings(db, MemCreateWorkflow(db, g, m), g)
           /\ Brings(db, MemUpsertWorkflow(db, g, m), g)
           /\ Brings(db, SqlUpsertWorkflow(db, g, m), g)
<1>1. NewWorkflow(g, m) \in Workflows /\ NewWorkflow(g, m).graph = g
  BY RowTypes DEF NewWorkflow
<1>2. /\ MemCreateWorkflow(db, g, m).workflow = NewWorkflow(g, m)
      /\ MemCreateWorkflow(db, g, m).runs = db.runs
  BY DEF MemCreateWorkflow, Databases
<1>3. db.workflow = None => Brings(db, MemCreateWorkflow(db, g, m), g)
  BY <1>1, <1>2 DEF Brings, Brought
<1>4. ASSUME NEW w \in Workflows, NEW b \in BOOLEAN, w.graph # g => b
      PROVE  Brought(w, Redefine(w, g, m, b), g)
  <2>1. Redefine(w, g, m, b) \in Workflows
    BY RowTypes
  <2>2. /\ Redefine(w, g, m, b).graph = g /\ Redefine(w, g, m, b).status = w.status
        /\ Redefine(w, g, m, b).version = IF b THEN w.version + 1 ELSE w.version
    BY DEF Redefine, Workflows
  <2> QED
    BY <1>4, <2>1, <2>2 DEF Brought
<1>5. CASE db.workflow = None
  <2>1. SqlUpsertWorkflow(db, g, m) = MemCreateWorkflow(db, g, m)
    BY <1>5 DEF SqlUpsertWorkflow, MemCreateWorkflow
  <2> QED
    BY <1>3, <1>5, <2>1 DEF MemUpsertWorkflow
<1>6. CASE db.workflow # None
  <2> DEFINE w == db.workflow
  <2>1. w \in Workflows
    BY <1>6 DEF Databases
  <2>2. /\ MemUpsertWorkflow(db, g, m).workflow = Redefine(w, g, m, w.graph # g)
        /\ MemUpsertWorkflow(db, g, m).runs = db.runs
    BY <1>6 DEF MemUpsertWorkflow, Databases
  <2>3. /\ SqlUpsertWorkflow(db, g, m).workflow =
               Redefine(w, g, m, w.graph # g \/ w.metadata # m)
        /\ SqlUpsertWorkflow(db, g, m).runs = db.runs
    BY <1>6 DEF SqlUpsertWorkflow, Databases
  <2>4. /\ Brought(w, Redefine(w, g, m, w.graph # g), g)
        /\ Brought(w, Redefine(w, g, m, w.graph # g \/ w.metadata # m), g)
    BY <1>4, <2>1
  <2> QED
    BY <1>6, <2>2, <2>3, <2>4 DEF Brings
<1> QED
  BY <1>3, <1>5, <1>6

LEMMA WorkflowTablesDo ==
    ASSUME NEW db \in Databases
    PROVE  /\ \A t : /\ db.workflow = None => SetWorkflowStatus(db, t) = db
                     /\ db.workflow # None =>
                           /\ SetWorkflowStatus(db, t).workflow = [db.workflow EXCEPT !.status = t]
                           /\ SetWorkflowStatus(db, t).runs = db.runs
           /\ MemDeleteWorkflow(db).workflow = None /\ MemDeleteWorkflow(db).runs = db.runs
           /\ SqlDeleteWorkflow(db).workflow = None
           /\ db.workflow # None => SqlDeleteWorkflow(db).runs = {}
           /\ db.workflow = None => SqlDeleteWorkflow(db) = db
           /\ \A r : /\ PutRun(db, r).workflow = db.workflow
                     /\ PutRun(db, r).runs = db.runs \cup {r}
  BY DEF SetWorkflowStatus, MemDeleteWorkflow, SqlDeleteWorkflow, PutRun, Databases


(* What a statement of request i makes of the workflow and the runs. *)
Moves(i, a, b) ==
    LET k == req[i].kind
        ran == [id |-> i, version |-> b.workflow.version, graph |-> b.workflow.graph,
                owned |-> TRUE]
    IN  \/ Keeps(a, b)
        \/ k \in Writers /\ Brings(a, b, req[i].graph)
        \/ /\ k \in {"PublishWorkflow", "ArchiveWorkflow"}
           /\ a.workflow # None /\ b.workflow = [a.workflow EXCEPT !.status = Status(i)]
           /\ b.runs = a.runs
        \/ /\ k = "DeleteWorkflow" /\ b.workflow = None
           /\ b.runs = {} \/ (b.runs = a.runs /\ At(i, "memory"))
        \/ /\ k \in Runs /\ (At(i, "insert_run") \/ At(i, "memory"))
           /\ b.workflow = a.workflow /\ b.runs = a.runs \cup {Run(i)}
        \/ /\ k \in Runs /\ At(i, "whole") /\ b.workflow # None
           /\ \/ b.workflow = a.workflow /\ k = "RunWorkflow"
              \/ Brought(a.workflow, b.workflow, req[i].graph) /\ k = "RunProject"
           /\ \/ b.runs = a.runs
              \/ b.workflow.status # "archived" /\ b.runs = a.runs \cup {ran}

LEMMA SqlMoves ==
    ASSUME NEW i \in Ops, TypeOK, Handlers, HasRead, HasLoaded, SqlWrite(i)
    PROVE  Moves(i, sql, sql')
<1>1. /\ sql \in Databases /\ i \in Ids /\ req[i].graph \in Graphs
      /\ req[i].metadata \in Metadata /\ plan[i] \in Seq(Statements)
      /\ Keeps(sql, sql)
  BY HeldTypes, ProjectTablesKeepRuns DEF TypeOK
<1>2. CASE InsertProject(i)
  BY <1>1, <1>2, ProjectTablesKeepRuns DEF InsertProject, Write, Moves
<1>3. CASE EnsureProject(i)
  BY <1>1, <1>3, ProjectTablesKeepRuns DEF EnsureProject, Write, Moves
<1>4. CASE UpdateProject(i)
  BY <1>1, <1>4, ProjectTablesKeepRuns DEF UpdateProject, Write, Moves
<1>5. CASE DeleteProject(i)
  BY <1>1, <1>5, ProjectTablesKeepRuns DEF DeleteProject, Write, Moves
<1>6. CASE SetSecret(i)
  BY <1>1, <1>6, ProjectTablesKeepRuns DEF SetSecret, Write, MemSetSecret, Moves
<1>7. CASE InsertTrigger(i)
  BY <1>1, <1>7, ProjectTablesKeepRuns DEF InsertTrigger, Write, Moves
<1>8. CASE UpdateSqlTrigger(i)
  BY <1>1, <1>8, ProjectTablesKeepRuns DEF UpdateSqlTrigger, Write, Moves
<1>9. CASE DeleteSqlTrigger(i)
  BY <1>1, <1>9 DEF DeleteSqlTrigger, Write, Moves, Keeps, Databases
<1>10. CASE InsertWorkflow(i)
  <2>1. At(i, "insert_workflow") /\ req[i].kind = "CreateWorkflow"
    BY <1>1, <1>10, AtFacts DEF InsertWorkflow, Write, Fits
  <2>2. CASE sql.workflow = None
    BY <1>1, <1>10, <2>1, <2>2, WorkflowTablesBring DEF InsertWorkflow, Write, Moves, Writers
  <2>3. CASE sql.workflow # None
    BY <1>1, <1>10, <2>3 DEF InsertWorkflow, Write, InsertWorkflowAllowed, Moves
  <2> QED
    BY <2>2, <2>3
<1>11. CASE UpsertWorkflow(i)
  <2>1. At(i, "upsert") /\ req[i].kind \in Writers
    BY <1>1, <1>11, AtFacts DEF UpsertWorkflow, Write, Fits
  <2>2. Brings(sql, SqlUpsertWorkflow(sql, req[i].graph, req[i].metadata), req[i].graph)
    BY <1>1, WorkflowTablesBring
  <2> QED
    BY <1>1, <1>11, <2>1, <2>2 DEF UpsertWorkflow, Write, Moves
<1>12. CASE SetStatus(i)
  <2>1. At(i, "status") /\ req[i].kind \in {"PublishWorkflow", "ArchiveWorkflow"}
    BY <1>1, <1>12, AtFacts DEF SetStatus, Write, Fits
  <2>2. sql' = SetWorkflowStatus(sql, Status(i))
    BY <1>12 DEF SetStatus, Write
  <2> QED
    BY <1>1, <2>1, <2>2, WorkflowTablesDo DEF Moves
<1>13. CASE DeleteSqlWorkflow(i)
  <2>1. At(i, "delete_workflow") /\ req[i].kind = "DeleteWorkflow"
    BY <1>1, <1>13, AtFacts DEF DeleteSqlWorkflow, Write, Fits
  <2>2. sql' = SqlDeleteWorkflow(sql)
    BY <1>13 DEF DeleteSqlWorkflow, Write
  <2> QED
    BY <1>1, <2>1, <2>2, WorkflowTablesDo DEF Moves
<1>14. CASE InsertRun(i)
  <2>1. At(i, "insert_run") /\ req[i].kind \in Runs
    BY <1>1, <1>14, AtFacts DEF InsertRun, Write, Fits
  <2>2. sql' \in {sql, PutRun(sql, Run(i))}
    BY <1>14 DEF InsertRun, Write
  <2> QED
    BY <1>1, <2>1, <2>2, WorkflowTablesDo DEF Moves
<1> QED
  BY <1>2, <1>3, <1>4, <1>5, <1>6, <1>7, <1>8, <1>9, <1>10, <1>11, <1>12, <1>13, <1>14
     DEF SqlWrite

LEMMA EffectMoves ==
    ASSUME NEW i \in Ops, TypeOK, Handlers, HasRead, HasLoaded, req[i].kind \in Kinds,
           req[i].kind = "CreateWorkflow" => mem.workflow = None,
           req[i].kind = "DeleteWorkflow" => mem.runs = {} \/ At(i, "memory"),
           req[i].kind \in Runs => At(i, "memory")
    PROVE  Moves(i, mem, MemEffect(i))
<1> DEFINE k == req[i].kind
<1>1. /\ mem \in Databases /\ i \in Ids /\ req[i].graph \in Graphs
      /\ req[i].metadata \in Metadata
      /\ Keeps(mem, mem)
  BY HeldTypes, ProjectTablesKeepRuns DEF TypeOK
<1>2. /\ Keeps(mem, MemCreateProject(mem, i)) /\ Keeps(mem, MemDeleteProject(mem))
      /\ Keeps(mem, MemUpdateProject(mem, i, "name"))
      /\ Keeps(mem, MemUpdateProject(mem, i, "configs"))
      /\ Keeps(mem, MemSetSecret(mem, i)) /\ Keeps(mem, MemCreateTrigger(mem, i))
      /\ Keeps(mem, UpdateTrigger(mem, i, Target(i)))
      /\ Keeps(mem, DeleteTrigger(mem, Target(i)))
  BY <1>1, ProjectTablesKeepRuns
<1>3. CASE k \in {"CreateProject", "PatchName", "PatchConfigs", "DeleteProject",
                  "PutSecret", "CreateTrigger", "PatchTrigger", "DeleteTrigger"}
  <2>1. Keeps(mem, MemEffect(i))
    BY <1>2, <1>3 DEF MemEffect, Runs
  <2> QED
    BY <2>1 DEF Moves
<1>4. CASE k = "CreateWorkflow"
  <2>1. MemEffect(i) = MemCreateWorkflow(mem, req[i].graph, req[i].metadata)
    BY <1>4 DEF MemEffect, Runs
  <2>2. Brings(mem, MemEffect(i), req[i].graph)
    BY <1>1, <1>4, <2>1, WorkflowTablesBring
  <2> QED
    BY <1>4, <2>2 DEF Moves, Writers
<1>5. CASE k \in {"PublishWorkflow", "ArchiveWorkflow"}
  <2>1. MemEffect(i) = SetWorkflowStatus(mem, Status(i))
    BY <1>5 DEF MemEffect, Runs
  <2>2. CASE mem.workflow = None
    <3>1. MemEffect(i) = mem
      BY <1>1, <2>1, <2>2, WorkflowTablesDo
    <3> QED
      BY <1>1, <3>1 DEF Moves
  <2>3. CASE mem.workflow # None
    <3>1. /\ MemEffect(i).workflow = [mem.workflow EXCEPT !.status = Status(i)]
          /\ MemEffect(i).runs = mem.runs
      BY <1>1, <2>1, <2>3, WorkflowTablesDo
    <3> QED
      BY <1>5, <2>3, <3>1 DEF Moves
  <2> QED
    BY <2>2, <2>3
<1>6. CASE k = "DeleteWorkflow"
  <2>1. MemEffect(i) = MemDeleteWorkflow(mem)
    BY <1>6 DEF MemEffect, Runs
  <2>2. MemEffect(i).workflow = None /\ MemEffect(i).runs = mem.runs
    BY <1>1, <2>1, WorkflowTablesDo
  <2> QED
    BY <1>6, <2>2 DEF Moves
<1>7. CASE k \in Runs
  <2>1. MemEffect(i) = PutRun(mem, Run(i))
    BY <1>7 DEF MemEffect, Runs
  <2>2. MemEffect(i).workflow = mem.workflow /\ MemEffect(i).runs = mem.runs \cup {Run(i)}
    BY <1>1, <2>1, WorkflowTablesDo
  <2> QED
    BY <1>7, <2>2 DEF Moves
<1>8. CASE k = "GetProject"
  <2>1. MemEffect(i) = mem
    BY <1>8 DEF MemEffect, Runs
  <2> QED
    BY <1>1, <2>1 DEF Moves
<1> QED
  BY <1>3, <1>4, <1>5, <1>6, <1>7, <1>8 DEF Kinds, Runs

LEMMA WholeMoves ==
    ASSUME NEW i \in Ops, TypeOK, Handlers, HasRead, HasLoaded, Whole(i)
    PROVE  Moves(i, mem, mem')
<1> DEFINE k  == req[i].kind
           db == IF k # "RunProject" THEN mem
                 ELSE MemUpsertWorkflow(MemEnsureProject(mem, i), req[i].graph, req[i].metadata)
           run == [id |-> i, version |-> db.workflow.version, graph |-> db.workflow.graph,
                   owned |-> TRUE]
<1>1. /\ mem \in Databases /\ i \in Ids /\ req[i].graph \in Graphs
      /\ req[i].metadata \in Metadata
      /\ plan[i] \in Seq(Statements)
      /\ Keeps(mem, mem)
  BY HeldTypes, ProjectTablesKeepRuns DEF TypeOK
<1>2. At(i, "whole") /\ k \in Kinds
  BY <1>1, AtFacts DEF Whole
<1>3. db \in Databases /\ db.runs = mem.runs
      /\ (k = "RunProject" => Brought(mem.workflow, db.workflow, req[i].graph))
      /\ (k # "RunProject" => db = mem)
  <2>1. CASE k = "RunProject"
    <3>1. MemEnsureProject(mem, i) \in Databases
      BY <1>1, ProjectTableTypes
    <3>2. Brings(MemEnsureProject(mem, i), db, req[i].graph) /\ db \in Databases
      BY <2>1, <3>1, <1>1, WorkflowTablesBring, WorkflowTableTypes
    <3>3. /\ MemEnsureProject(mem, i).workflow = mem.workflow
          /\ MemEnsureProject(mem, i).runs = mem.runs
      BY <1>1, ProjectTablesKeepRuns
    <3> HIDE DEF db
    <3> QED
      BY <2>1, <3>2, <3>3 DEF Brings
  <2>2. CASE k # "RunProject"
    BY <1>1, <2>2
  <2> QED
    BY <2>1, <2>2
<1> HIDE DEF db, run
<1>4. mem' = IF ~MemHolds(k, db) THEN db
             ELSE IF k \in Runs THEN PutRun(db, run)
             ELSE IF k = "PatchTrigger" THEN UpdateTrigger(mem, i, req[i].trigger)
             ELSE IF k = "DeleteTrigger" THEN DeleteTrigger(mem, req[i].trigger)
             ELSE MemEffect(i)
  BY DEF Whole, db, run
<1>5. CASE ~MemHolds(k, db)
  <2>1. mem' = db
    BY <1>4, <1>5
  <2>2. CASE k = "RunProject"
    BY <1>3, <2>1, <2>2 DEF Moves, Brings, Writers
  <2> QED
    BY <1>1, <1>3, <2>1, <2>2 DEF Moves
<1>6. CASE MemHolds(k, db) /\ k \in Runs
  <2>1. mem'.workflow = db.workflow /\ mem'.runs = mem.runs \cup {run}
    BY <1>3, <1>4, <1>6, WorkflowTablesDo
  <2>2. db.workflow # None /\ db.workflow.status # "archived"
    BY <1>6 DEF MemHolds
  <2>3. run = [id |-> i, version |-> db.workflow.version, graph |-> db.workflow.graph,
               owned |-> TRUE]
    BY DEF run
  <2> QED
    BY <1>2, <1>3, <1>6, <2>1, <2>2, <2>3 DEF Moves, Runs
<1>7. CASE MemHolds(k, db) /\ k \in {"PatchTrigger", "DeleteTrigger"}
  BY <1>1, <1>4, <1>7, ProjectTablesKeepRuns DEF Moves, Runs
<1>8. CASE MemHolds(k, db) /\ k \notin Runs \cup {"PatchTrigger", "DeleteTrigger"}
  <2>1. mem' = MemEffect(i) /\ db = mem
    BY <1>3, <1>4, <1>8 DEF Runs
  <2>2. MemHolds(k, mem)
    BY <1>8, <2>1
  <2>3. /\ k = "CreateWorkflow" => mem.workflow = None
        /\ k = "DeleteWorkflow" => mem.runs = {}
    BY <2>2 DEF MemHolds
  <2> QED
    BY <1>1, <1>2, <1>8, <2>1, <2>3, EffectMoves
<1> QED
  BY <1>5, <1>6, <1>7, <1>8

LEMMA MemMoves ==
    ASSUME NEW i \in Ops, TypeOK, Handlers, HasRead, HasLoaded, MemoryStep(i), ~ReadsSql
    PROVE  Moves(i, mem, mem')
<1> DEFINE k == req[i].kind
<1>1. /\ mem \in Databases /\ i \in Ids /\ req[i].graph \in Graphs
      /\ req[i].metadata \in Metadata /\ plan[i] \in Seq(Statements)
      /\ Keeps(mem, mem)
  BY HeldTypes, ProjectTablesKeepRuns DEF TypeOK
<1>2. CASE DualMemory(i)
  <2>1. At(i, "memory") /\ k \in Kinds /\ mode = "dual_memory"
    BY <1>1, <1>2, AtFacts DEF DualMemory, Fits, ReadsSql
  <2>2. mem' = IF GuardHolds(k) THEN MemEffect(i) ELSE mem
    BY <1>2 DEF DualMemory, InMemory
  <2>3. CASE ~GuardHolds(k)
    BY <1>1, <2>2, <2>3 DEF Moves
  <2>4. CASE GuardHolds(k)
    <3>1. mem' = MemEffect(i)
      BY <2>2, <2>4
    <3>2. k = "CreateWorkflow" => mem.workflow = None
      BY <2>1, <2>4 DEF GuardHolds
    <3> QED
      BY <2>1, <3>1, <3>2, EffectMoves
  <2> QED
    BY <2>3, <2>4
<1>3. CASE DualMemoryEnsure(i)
  BY <1>1, <1>3, ProjectTablesKeepRuns DEF DualMemoryEnsure, InMemory, Moves, Keeps
<1>4. CASE DualMemoryUpsert(i)
  <2>1. At(i, "memory_upsert") /\ k \in Writers
    BY <1>1, <1>4, AtFacts DEF DualMemoryUpsert, InMemory, Fits, Writers
  <2>2. /\ MemEnsureProject(mem, i) \in Databases
        /\ MemEnsureProject(mem, i).workflow = mem.workflow
        /\ MemEnsureProject(mem, i).runs = mem.runs
    BY <1>1, ProjectTableTypes, ProjectTablesKeepRuns
  <2>3. mem' = MemUpsertWorkflow(MemEnsureProject(mem, i), req[i].graph, req[i].metadata)
    BY <1>4 DEF DualMemoryUpsert, InMemory
  <2>4. Brings(MemEnsureProject(mem, i), mem', req[i].graph)
    BY <1>1, <2>2, <2>3, WorkflowTablesBring
  <2> QED
    BY <2>1, <2>2, <2>4 DEF Moves, Brings
<1> QED
  BY <1>2, <1>3, <1>4, WholeMoves DEF MemoryStep

LEMMA ReaderMoves ==
    ASSUME NEW i \in Ops, Base, Stepped(i), SqlRead(i) \/ SqlWrite(i) \/ MemoryStep(i)
    PROVE  Moves(i, Reader, Reader')
<1>1. TypeOK /\ Handlers /\ HasRead /\ HasLoaded
  BY DEF Base
<1>2. Reader' = IF ReadsSql THEN sql' ELSE mem'
  BY DEF Stepped, Reader, ReadsSql
<1>3. Reader' = Reader => Moves(i, Reader, Reader')
  BY DEF Moves, Keeps, AsRuns
<1>4. CASE SqlRead(i)
  BY <1>2, <1>3, <1>4, Frames DEF Reader
<1>5. CASE SqlWrite(i)
  BY <1>1, <1>2, <1>3, <1>5, Frames, SqlMoves DEF Reader
<1>6. CASE MemoryStep(i)
  BY <1>1, <1>2, <1>3, <1>6, Frames, MemMoves DEF Reader
<1> QED
  BY <1>4, <1>5, <1>6

-----------------------------------------------------------------------------
(* Run history.  A deletion that has counted no runs and is still on its   *)
(* way overlaps every request whose run the reader has come to hold since. *)

HasCounted(p) == \/ ~Preceded(p, {"count"}, "delete_workflow")
                 \/ ~Preceded(p, {"count"}, "memory")

Counted ==
    \A i \in Ops :
        /\ plan[i] # Unstarted /\ req[i].kind = "DeleteWorkflow" /\ HasCounted(plan[i])
        => \A r \in Reader.runs : i \in overlap[r.id]

(* A handler with a statement still preceded by none is in progress. *)
LEMMA BeyondIsActive ==
    ASSUME NEW i \in Ops, plan[i] # Unstarted, NEW g, NEW w, w \notin {"refused", "failed"},
           ~Preceded(plan[i], g, w)
    PROVE  Active(i)
<1>1. Preceded(<<>>, g, w)
  BY DEF Preceded
<1> QED
  BY <1>1, PrecededWhenOver DEF Active, Ends

LEMMA CountedIsActive ==
    ASSUME NEW i \in Ops, plan[i] # Unstarted, HasCounted(plan[i])
    PROVE  Active(i)
<1>1. CASE ~Preceded(plan[i], {"count"}, "delete_workflow")
  BY <1>1, BeyondIsActive
<1>2. CASE ~Preceded(plan[i], {"count"}, "memory")
  BY <1>2, BeyondIsActive
<1> QED
  BY <1>1, <1>2 DEF HasCounted

(* Where the runs of the reader come from. *)
LEMMA RunsComeFrom ==
    ASSUME NEW i \in Ops, Base, Stepped(i), SqlRead(i) \/ SqlWrite(i) \/ MemoryStep(i),
           NEW r \in Reader'.runs
    PROVE  \/ \E q \in Reader.runs : q.id = r.id /\ q.version = r.version /\ q.graph = r.graph
           \/ r.id = i /\ req[i].kind \in Runs
<1>1. Moves(i, Reader, Reader')
  BY ReaderMoves
<1>2. CASE Keeps(Reader, Reader')
  BY <1>2 DEF Keeps, AsRuns
<1>3. CASE Reader'.runs \in {{}, Reader.runs}
  BY <1>3
<1>4. CASE Reader'.runs = Reader.runs \cup {Run(i)} /\ req[i].kind \in Runs
  BY <1>4 DEF Run
<1>5. CASE \E v, g : /\ Reader'.runs = Reader.runs \cup
                           {[id |-> i, version |-> v, graph |-> g, owned |-> TRUE]}
                     /\ req[i].kind \in Runs
  BY <1>5
<1> QED
  BY <1>1, <1>2, <1>3, <1>4, <1>5 DEF Moves, Brings

LEMMA CountedStep ==
    ASSUME Base, Counted, Next
    PROVE  Counted'
<1> SUFFICES ASSUME NEW j \in Ops, plan'[j] # Unstarted, req'[j].kind = "DeleteWorkflow",
                    HasCounted(plan'[j]), NEW r \in Reader'.runs
             PROVE  j \in overlap'[r.id]
  BY DEF Counted
<1>0. TypeOK /\ Handlers /\ Arrivals /\ Onward
  BY Progress DEF Base
<1>1. ASSUME plan'[j] = plan[j], req'[j] = req[j],
             \E q \in Reader.runs : q.id = r.id
      PROVE  j \in overlap'[r.id]
  <2>1. PICK q \in Reader.runs : q.id = r.id
    BY <1>1
  <2>2. q.id \in Ids
    BY <1>0 DEF TypeOK, Databases, RunRows, Reader
  <2>3. j \in overlap[q.id]
    BY <1>1, <2>1 DEF Counted
  <2> QED
    BY <1>0, <2>1, <2>2, <2>3 DEF Onward
<1>2. ASSUME plan'[j] = Failed PROVE FALSE
  BY <1>2, PrecededWhenOver DEF HasCounted
<1>3. ASSUME NEW i \in Ops, Arrive(i) PROVE j \in overlap'[r.id]
  <2>1. CASE j # i
    <3>1. Reader' = Reader
      BY <1>3 DEF Arrive, Reader, ReadsSql
    <3> QED
      BY <1>0, <1>1, <1>3, <2>1, <3>1, ArriveFacts DEF TypeOK
  <2>2. CASE j = i
    BY <1>0, <1>3, <2>2, ArriveFacts DEF InTurn, HasCounted
  <2> QED
    BY <2>1, <2>2
<1>4. ASSUME NEW i \in Ops, Stepped(i), SqlRead(i) \/ SqlWrite(i) \/ MemoryStep(i)
      PROVE  j \in overlap'[r.id]
  <2>1. overlap' = overlap /\ req' = req /\ \A h \in Ops : h # i => plan'[h] = plan[h]
    BY <1>0, <1>4 DEF Stepped, TypeOK
  <2>2. CASE j # i
    <3>1. CASE \E q \in Reader.runs : q.id = r.id
      BY <1>1, <2>1, <2>2, <3>1
    <3>2. CASE r.id = i
      <4>0. plan[j] # Unstarted /\ HasCounted(plan[j])
        BY <2>1, <2>2
      <4>1. Active(j) /\ Active(i) /\ plan[i] # Unstarted
        BY <1>4, <4>0, CountedIsActive DEF Stepped
      <4>2. j \in overlap[i]
        BY <1>0, <2>2, <4>1 DEF Arrivals, Active, Ends, Ops
      <4> QED
        BY <2>1, <3>2, <4>2
    <3> QED
      BY <1>4, <3>1, <3>2, RunsComeFrom
  <2>3. CASE j = i
    <3>1. req[i].kind = "DeleteWorkflow" /\ req[i].kind \notin Runs /\ req[i].kind \notin Patches
      BY <2>1, <2>3 DEF Runs, Patches
    <3>2. PICK q \in Reader.runs : q.id = r.id
      BY <1>4, <3>1, RunsComeFrom
    <3>3. CASE At(i, "count")
      <4>1. CountRuns(i)
        BY <1>4, <3>3, Makes
      <4>2. plan'[i] = Refused
        BY <1>0, <3>2, <4>1 DEF CountRuns, Decide, GoOn, TypeOK
      <4> QED
        BY <2>3, <4>2, PrecededWhenOver DEF HasCounted
    <3>4. CASE ~At(i, "count")
      <4>1. HasCounted(plan[i])
        BY <1>0, <1>4, <2>3, <3>1, <3>4, MadeFirst DEF HasCounted
      <4>2. i \in overlap[q.id]
        BY <1>4, <3>1, <4>1 DEF Counted, Stepped
      <4> QED
        BY <2>1, <2>3, <3>2, <4>2
    <3> QED
      BY <3>3, <3>4
  <2> QED
    BY <2>2, <2>3
<1>5. ASSUME NEW i \in Ops, Raise(i) PROVE j \in overlap'[r.id]
  <2>1. Reader' = Reader
    BY <1>5 DEF Raise, Reader, ReadsSql
  <2> QED
    BY <1>0, <1>1, <1>2, <1>5, <2>1 DEF Raise, GoOn, TypeOK
<1>6. ASSUME Restart PROVE j \in overlap'[r.id]
  <2>1. plan'[j] = Failed \/ ~Active(j)
    BY <1>6 DEF Restart
  <2>2. Active(j)
    BY <1>2, <1>6, <2>1, CountedIsActive DEF Restart
  <2> QED
    BY <1>2, <2>1, <2>2
<1> QED
  BY <1>0, <1>3, <1>4, <1>5, <1>6, StepCases

LEMMA CountedInvariance == Spec => []Counted
<1>1. Init => Counted
  BY DEF Init, Counted
<1>2. ASSUME Base, Counted, [Next]_vars PROVE Counted'
  <2>1. CASE Next
    BY <1>2, <2>1, CountedStep
  <2>2. CASE UNCHANGED vars
    BY <1>2, <2>2 DEF vars, Counted, Reader, ReadsSql
  <2> QED
    BY <1>2, <2>1, <2>2
<1> QED
  BY <1>1, <1>2, BaseInvariance, PTL DEF Spec

(* Every run of a is one of b. *)
LosesNone(a, b) == \A r \in a : \E q \in b : q.id = r.id

LEMMA OnlyDeletionsLoseRuns ==
    ASSUME NEW i \in Ops, TypeOK, SqlWrite(i), ~DeleteSqlWorkflow(i)
    PROVE  LosesNone(sql.runs, sql'.runs)
<1>1. sql \in Databases /\ LosesNone(sql.runs, sql.runs)
  BY DEF TypeOK, LosesNone
<1>2. CASE DeleteProject(i)
  <2>1. LosesNone(sql.runs, Disown(sql.runs))
    <3>1. \A r \in sql.runs : [r EXCEPT !.owned = FALSE].id = r.id
      BY <1>1 DEF Databases, RunRows
    <3> QED
      BY <3>1 DEF LosesNone, Disown
  <2> QED
    BY <1>1, <1>2, <2>1 DEF DeleteProject, Write, SqlDeleteProject, Databases
<1>3. CASE InsertRun(i)
  BY <1>1, <1>3, WorkflowTablesDo DEF InsertRun, Write, LosesNone
<1>4. CASE InsertWorkflow(i) \/ UpsertWorkflow(i) \/ SetStatus(i)
  <2>1. sql'.runs = sql.runs
    BY <1>1, <1>4 DEF InsertWorkflow, UpsertWorkflow, SetStatus, Write, MemCreateWorkflow,
                      SqlUpsertWorkflow, SetWorkflowStatus, Databases
  <2> QED
    BY <1>1, <2>1
<1>5. CASE InsertProject(i) \/ EnsureProject(i) \/ UpdateProject(i) \/ SetSecret(i)
  <2>1. sql'.runs = sql.runs
    BY <1>1, <1>5 DEF InsertProject, EnsureProject, UpdateProject, SetSecret, Write,
                      SqlEnsureProject, SqlUpdateProject, Databases
  <2> QED
    BY <1>1, <2>1
<1>6. CASE InsertTrigger(i) \/ UpdateSqlTrigger(i) \/ DeleteSqlTrigger(i)
  <2>1. sql'.runs = sql.runs
    BY <1>1, <1>6 DEF InsertTrigger, UpdateSqlTrigger, DeleteSqlTrigger, Write,
                      MemCreateTrigger, UpdateTrigger, Databases
  <2> QED
    BY <1>1, <2>1
<1> QED
  BY <1>2, <1>3, <1>4, <1>5, <1>6 DEF SqlWrite

(* DELETE /workflows/{id} takes no run with it that was there when it      *)
(* counted them: what it destroys is the run of a request it overlapped,   *)
(* or, where memory is read, one that memory does not know                 *)
(* (apps/api/app/main.py, delete_workflow).                                *)
THEOREM RunsAreKept == Spec => RunHistoryRetained
<1> DEFINE Kept == \A r \in sql.runs :
                      \/ \E q \in sql'.runs : q.id = r.id
                      \/ \E j \in overlap[r.id] : req[j].kind = "DeleteWorkflow"
                      \/ mode = "dual_memory" /\ \A q \in mem.runs : q.id # r.id
<1>1. ASSUME Base, Counted, [Next]_vars PROVE [Kept]_vars
  <2>0. TypeOK /\ Handlers
    BY <1>1 DEF Base
  <2>1. sql' = sql => Kept
    OBVIOUS
  <2>2. ASSUME NEW i \in Ops, Stepped(i), SqlRead(i) \/ SqlWrite(i) \/ MemoryStep(i) PROVE Kept
    <3>1. CASE DeleteSqlWorkflow(i)
      <4>1. At(i, "delete_workflow") /\ plan[i] \in Seq(Statements)
        BY <2>0, <3>1 DEF DeleteSqlWorkflow, Write, TypeOK
      <4>2. /\ req[i].kind = "DeleteWorkflow" /\ mode # "memory" /\ plan[i] # Unstarted
            /\ HasCounted(plan[i])
        BY <2>0, <4>1, AtFacts, AtNotPreceded DEF Fits, HasCounted
      <4>3. \A q \in Reader.runs : i \in overlap[q.id]
        BY <1>1, <4>2 DEF Counted
      <4>4. mode \in {"dual_sql", "postgres", "dual_memory"}
        BY <2>0, <4>2, ModeFacts DEF TypeOK
      <4> QED
        BY <4>2, <4>3, <4>4 DEF Reader, ReadsSql
    <3>2. CASE ~DeleteSqlWorkflow(i) /\ SqlWrite(i)
      BY <2>0, <3>2, OnlyDeletionsLoseRuns DEF LosesNone
    <3>3. CASE ~SqlWrite(i)
      BY <2>1, <2>2, <3>3, Frames
    <3> QED
      BY <3>1, <3>2, <3>3
  <2>3. \A i \in Ops : Arrive(i) \/ Raise(i) => sql' = sql
    BY DEF Arrive, Raise
  <2>4. Restart \/ UNCHANGED vars => sql' = sql
    BY DEF Restart, vars
  <2> QED
    BY <1>1, <2>0, <2>1, <2>2, <2>3, <2>4, StepCases
<1> QED
  BY <1>1, BaseInvariance, CountedInvariance, PTL DEF Spec, RunHistoryRetained

-----------------------------------------------------------------------------
(* Versions.  A run is known by the version and the graph it ran; so is    *)
(* the run a handler is about to make of the workflow it has loaded.       *)

Loaded(i) ==
    /\ plan[i] # Unstarted
    /\ req[i].kind \in Runs
    /\ ~Preceded(plan[i], {"load"}, "insert_run") \/ ~Preceded(plan[i], {"load"}, "memory")

Claims == Reader.runs \cup {Run(i) : i \in {j \in Ops : Loaded(j)}}

Torn(id) == \E j \in overlap[id] : req[j].kind = "DeleteWorkflow"

Current(c) ==
    \/ Torn(c.id)
    \/ /\ Reader.workflow # None
       /\ c.version <= Reader.workflow.version
       /\ c.version = Reader.workflow.version => c.graph = Reader.workflow.graph

Versions ==
    /\ \A c \in Claims : Current(c)
    /\ \A c, d \in Claims :
          c.version = d.version => c.graph = d.graph \/ Torn(c.id) \/ Torn(d.id)

Same(c, d) == c.id = d.id /\ c.version = d.version /\ c.graph = d.graph

OfWorkflow(c, w) == w # None /\ c.version = w.version /\ c.graph = w.graph

LEMMA LoadedIsActive ==
    ASSUME NEW i \in Ops, Loaded(i)
    PROVE  Active(i)
<1>1. CASE ~Preceded(plan[i], {"load"}, "insert_run")
  BY <1>1, BeyondIsActive DEF Loaded
<1>2. CASE ~Preceded(plan[i], {"load"}, "memory")
  BY <1>2, BeyondIsActive DEF Loaded
<1> QED
  BY <1>1, <1>2 DEF Loaded

LEMMA ClaimTypes ==
    ASSUME Base
    PROVE  Claims \subseteq RunRows /\ \A c \in Claims : c.id \in Ids /\ c.version \in Nat
<1>1. Reader.runs \subseteq RunRows
  BY DEF Base, TypeOK, Reader, Databases
<1>2. ASSUME NEW i \in Ops, Loaded(i) PROVE Run(i) \in RunRows
  <2>1. loaded[i] \in Workflows
    BY <1>2 DEF Base, HasLoaded, TypeOK, Loaded
  <2>2. i \in Ids
    BY StoreAssumption DEF Ids, Ops
  <2> QED
    BY <2>1, <2>2 DEF Run, RunRows, Workflows
<1>3. Claims \subseteq RunRows
  BY <1>1, <1>2 DEF Claims
<1> QED
  BY <1>3 DEF RunRows

LEMMA TornStays ==
    ASSUME Base, Onward, NEW id \in Ids, Torn(id)
    PROVE  Torn(id)'
<1>1. PICK j \in overlap[id] : req[j].kind = "DeleteWorkflow"
  BY DEF Torn
<1>2. j \in Ops /\ plan[j] # Unstarted /\ j \in overlap'[id]
  BY DEF Base, TypeOK, Arrivals, Onward
<1> QED
  BY <1>1, <1>2 DEF Onward, Torn

(* A handler that goes on to use what it has loaded has just loaded it, or *)
(* had loaded it before.                                                   *)
LEMMA LoadedStep ==
    ASSUME NEW i \in Ops, Base, Stepped(i), SqlRead(i) \/ SqlWrite(i) \/ MemoryStep(i),
           NEW j \in Ops, Loaded(j)'
    PROVE  \/ Loaded(j) /\ Run(j)' = Run(j)
           \/ /\ j = i /\ At(i, "load") /\ Reader' = Reader
              /\ OfWorkflow(Run(j)', Reader.workflow) /\ Reader.workflow.status # "archived"
<1>0. TypeOK /\ Handlers
  BY DEF Base
<1>1. req' = req /\ \A h \in Ops : h # i => plan'[h] = plan[h]
  BY <1>0 DEF Stepped, TypeOK
<1>2. CASE j # i
  BY <1>0, <1>1, <1>2, OthersKeep DEF Loaded, Run
<1>3. CASE j = i /\ At(i, "load")
  <2>1. Load(i)
    BY <1>3, Makes
  <2>2. CASE Reader.workflow # None /\ Reader.workflow.status # "archived"
    <3>1. loaded'[i] = Reader.workflow
      BY <1>0, <2>1, <2>2 DEF Load, TypeOK
    <3>2. Reader' = Reader
      BY <2>1, Frames DEF SqlRead, Reader, ReadsSql, Load, Decide
    <3> QED
      BY <1>3, <2>2, <3>1, <3>2 DEF Run, OfWorkflow
  <2>3. CASE Reader.workflow = None \/ Reader.workflow.status = "archived"
    <3>1. plan'[i] = Refused
      BY <1>0, <2>1, <2>3 DEF Load, Decide, GoOn, TypeOK
    <3> QED
      BY <1>3, <3>1, PrecededWhenOver DEF Loaded
  <2> QED
    BY <2>2, <2>3
<1>4. CASE j = i /\ ~At(i, "load")
  <2>1. req[i].kind \in Runs /\ req[i].kind \notin Patches
    BY <1>1, <1>4 DEF Loaded, Runs, Patches
  <2>2. \/ ~Preceded(plan[i], {"load"}, "insert_run")
        \/ ~Preceded(plan[i], {"load"}, "memory")
    BY <1>0, <1>4, <2>1, MadeFirst DEF Loaded, Base
  <2>3. loaded' = loaded
    BY <1>4, Makes
  <2> QED
    BY <1>4, <2>1, <2>2, <2>3 DEF Loaded, Stepped, Run
<1> QED
  BY <1>2, <1>3, <1>4

LEMMA ClaimsCome ==
    ASSUME Base, Next, NEW c \in Claims'
    PROVE  \/ \E d \in Claims : Same(c, d)
           \/ OfWorkflow(c, Reader'.workflow)
<1>0. TypeOK /\ Handlers /\ Arrivals /\ Onward
  BY Progress DEF Base
<1>1. CASE c \in Reader'.runs
  <2>1. ASSUME NEW i \in Ops, Arrive(i) \/ Raise(i) PROVE c \in Reader.runs
    BY <1>1, <2>1 DEF Arrive, Raise, Reader, ReadsSql
  <2>2. ASSUME Restart PROVE c \in Reader.runs
    BY <1>1, <2>2 DEF Restart, Reader, ReadsSql, NoRows
  <2>3. ASSUME NEW i \in Ops, Stepped(i), SqlRead(i) \/ SqlWrite(i) \/ MemoryStep(i)
        PROVE  (\E d \in Claims : Same(c, d)) \/ OfWorkflow(c, Reader'.workflow)
    <3>1. Moves(i, Reader, Reader')
      BY <2>3, ReaderMoves
    <3>2. CASE Keeps(Reader, Reader')
      BY <1>1, <3>2 DEF Keeps, AsRuns, Claims, Same
    <3>3. CASE Reader'.runs \in {{}, Reader.runs}
      BY <1>1, <3>3 DEF Claims, Same
    <3>4. CASE /\ Reader'.runs = Reader.runs \cup {Run(i)} /\ req[i].kind \in Runs
               /\ At(i, "insert_run") \/ At(i, "memory")
      <4>1. Loaded(i)
        BY <1>0, <2>3, <3>4, AtNotPreceded DEF Loaded, Stepped, TypeOK
      <4> QED
        BY <1>1, <3>4, <4>1 DEF Claims, Same
    <3>5. CASE /\ Reader'.workflow # None
               /\ Reader'.runs = Reader.runs \cup
                      {[id |-> i, version |-> Reader'.workflow.version,
                        graph |-> Reader'.workflow.graph, owned |-> TRUE]}
      BY <1>1, <3>5 DEF Claims, Same, OfWorkflow
    <3> QED
      BY <3>1, <3>2, <3>3, <3>4, <3>5 DEF Moves, Brings
  <2>4. (\E d \in Claims : Same(c, d)) \/ OfWorkflow(c, Reader'.workflow) \/ c \in Reader.runs
    BY <1>0, <2>1, <2>2, <2>3, StepCases
  <2> QED
    BY <2>4 DEF Claims, Same
<1>2. CASE c \notin Reader'.runs
  <2>1. PICK j \in Ops : Loaded(j)' /\ c = Run(j)'
    BY <1>2 DEF Claims
  <2>2. ASSUME NEW i \in Ops, Arrive(i) PROVE Loaded(j) /\ Run(j)' = Run(j)
    <3>1. j # i
      BY <1>0, <2>1, <2>2, ArriveFacts DEF Loaded, InTurn
    <3> QED
      BY <1>0, <2>1, <2>2, <3>1, ArriveFacts DEF Loaded, TypeOK, Arrive, Run
  <2>3. plan'[j] # Failed
    BY <2>1, PrecededWhenOver DEF Loaded
  <2>4. ASSUME NEW i \in Ops, Raise(i) PROVE Loaded(j) /\ Run(j)' = Run(j)
    BY <1>0, <2>1, <2>3, <2>4 DEF Raise, GoOn, TypeOK, Loaded, Run
  <2>5. ASSUME Restart PROVE Loaded(j) /\ Run(j)' = Run(j)
    BY <1>0, <2>1, <2>3, <2>5 DEF Restart, Loaded, Run
  <2>6. ASSUME NEW i \in Ops, Stepped(i), SqlRead(i) \/ SqlWrite(i) \/ MemoryStep(i)
        PROVE  (Loaded(j) /\ Run(j)' = Run(j)) \/ OfWorkflow(c, Reader'.workflow)
    BY <2>1, <2>6, LoadedStep
  <2>7. (Loaded(j) /\ Run(j)' = Run(j)) \/ OfWorkflow(c, Reader'.workflow)
    BY <1>0, <2>2, <2>4, <2>5, <2>6, StepCases
  <2> QED
    BY <2>1, <2>7 DEF Claims, Same
<1> QED
  BY <1>1, <1>2

(* A claim stays current: a definition changes under a new version only,   *)
(* and one that is deleted is deleted under the run that claims it.        *)
LEMMA StaysCurrent ==
    ASSUME Base, Counted, Next, NEW c \in Claims', NEW d \in Claims, Same(c, d), Current(d)
    PROVE  Current(c)'
<1>0. /\ TypeOK /\ Handlers /\ Arrivals /\ Onward
      /\ d.id \in Ids /\ c.id = d.id /\ c.version = d.version /\ c.graph = d.graph
      /\ d.version \in Nat
  BY Progress, ClaimTypes DEF Base, Same
<1>1. Torn(d.id) => Current(c)'
  BY <1>0, TornStays DEF Current
<1>2. Reader'.workflow = Reader.workflow => Current(c)'
  BY <1>0, <1>1 DEF Current
<1>3. ASSUME NEW i \in Ops, Stepped(i), SqlRead(i) \/ SqlWrite(i) \/ MemoryStep(i)
      PROVE  Current(c)'
  <2>1. Moves(i, Reader, Reader')
    BY <1>3, ReaderMoves
  <2>2. ASSUME NEW g, Brought(Reader.workflow, Reader'.workflow, g) PROVE Current(c)'
    <3>1. CASE Reader.workflow = None
      BY <1>1, <3>1 DEF Current
    <3>2. CASE Reader.workflow # None
      <4>1. Reader.workflow.version \in Nat
        BY <1>0, <3>2 DEF TypeOK, Reader, Databases, Workflows
      <4>2. Reader'.workflow # None
        BY <2>2, NoneIsNoRow DEF Brought
      <4>3. \/ Reader'.workflow.version = Reader.workflow.version + 1
            \/ /\ Reader'.workflow.version = Reader.workflow.version
               /\ Reader'.workflow.graph = Reader.workflow.graph
        BY <2>2, <3>2 DEF Brought
      <4> QED
        BY <1>0, <1>1, <3>2, <4>1, <4>2, <4>3 DEF Current
    <3> QED
      BY <3>1, <3>2
  <2>3. CASE /\ Reader.workflow # None
             /\ Reader'.workflow = [Reader.workflow EXCEPT !.status = Status(i)]
    <3>1. Reader.workflow \in Workflows
      BY <1>0, <2>3 DEF TypeOK, Reader, Databases
    <3>2. /\ Reader'.workflow # None
          /\ Reader'.workflow.version = Reader.workflow.version
          /\ Reader'.workflow.graph = Reader.workflow.graph
      <4>1. Status(i) \in {"draft", "published", "archived"}
        BY DEF Status
      <4>2. Reader'.workflow \in Workflows
        BY <2>3, <3>1, <4>1 DEF Workflows
      <4> QED
        BY <2>3, <3>1, <4>2, NoneIsNoRow DEF Workflows
    <3> QED
      BY <1>0, <1>1, <2>3, <3>2 DEF Current
  <2>4. CASE /\ req[i].kind = "DeleteWorkflow"
             /\ Reader'.runs = {} \/ (Reader'.runs = Reader.runs /\ At(i, "memory"))
    <3>1. i \in overlap[c.id] => Torn(c.id)
      BY <2>4 DEF Torn
    <3>2. CASE c \in Reader'.runs
      <4>1. At(i, "memory") /\ c \in Reader.runs
        BY <2>4, <3>2
      <4>2. HasCounted(plan[i])
        BY <1>0, <4>1, AtNotPreceded DEF HasCounted, TypeOK
      <4> QED
        BY <1>0, <1>1, <1>3, <2>4, <3>1, <4>1, <4>2 DEF Counted, Stepped
    <3>3. CASE c \notin Reader'.runs
      <4>1. PICK j \in Ops : Loaded(j)' /\ c = Run(j)'
        BY <3>3 DEF Claims
      <4>2. req' = req
        BY <1>3 DEF Stepped
      <4>3. j # i /\ req[i].kind \notin Runs
        BY <2>4, <4>1, <4>2 DEF Loaded, Runs
      <4>4. Loaded(j)
        BY <1>3, <4>1, <4>3, LoadedStep
      <4>5. Active(j) /\ Active(i) /\ plan[i] # Unstarted /\ plan[j] # Unstarted
        BY <1>3, <4>4, LoadedIsActive DEF Stepped, Loaded
      <4>6. i \in overlap[j] /\ c.id = j
        BY <1>0, <4>1, <4>3, <4>5 DEF Arrivals, Run, Ops
      <4> QED
        BY <1>0, <1>1, <3>1, <4>6
    <3> QED
      BY <3>2, <3>3
  <2>5. \/ Reader'.workflow = Reader.workflow
        \/ \E g : Brought(Reader.workflow, Reader'.workflow, g)
        \/ /\ Reader.workflow # None
           /\ Reader'.workflow = [Reader.workflow EXCEPT !.status = Status(i)]
        \/ /\ req[i].kind = "DeleteWorkflow"
           /\ Reader'.runs = {} \/ (Reader'.runs = Reader.runs /\ At(i, "memory"))
    BY <2>1 DEF Moves, Keeps, Brings
  <2> QED
    BY <1>2, <2>2, <2>3, <2>4, <2>5
<1>4. \A i \in Ops : Arrive(i) \/ Raise(i) => Reader' = Reader
  BY DEF Arrive, Raise, Reader, ReadsSql
<1>5. CASE Restart
  <2>1. CASE ReadsSql
    BY <1>2, <1>5, <2>1 DEF Restart, Reader, ReadsSql
  <2>2. CASE ~ReadsSql
    <3>1. Reader'.runs = {}
      BY <1>5, <2>2 DEF Restart, Reader, ReadsSql, NoRows
    <3>2. PICK j \in Ops : Loaded(j)'
      BY <3>1 DEF Claims
    <3>3. plan'[j] # Failed
      BY <3>2, PrecededWhenOver DEF Loaded
    <3>4. Loaded(j) /\ ~Active(j)
      BY <1>5, <3>2, <3>3 DEF Restart, Loaded
    <3> QED
      BY <3>4, LoadedIsActive
  <2> QED
    BY <2>1, <2>2
<1> QED
  BY <1>0, <1>2, <1>3, <1>4, <1>5, StepCases

LEMMA VersionsStep ==
    ASSUME Base, Counted, Versions, Next
    PROVE  Versions'
<1>0. Base' /\ Onward
  BY BaseStep, Progress DEF Base
<1>1. ASSUME NEW c \in Claims' PROVE Current(c)'
  <2>2. CASE \E d \in Claims : Same(c, d)
    BY <2>2, StaysCurrent DEF Versions
  <2>3. CASE OfWorkflow(c, Reader'.workflow)
    <3>1. c.version \in Nat
      BY <1>0, <2>3 DEF OfWorkflow, Base, TypeOK, Reader, Databases, Workflows
    <3> QED
      BY <2>3, <3>1 DEF OfWorkflow, Current
  <2> QED
    BY <2>2, <2>3, ClaimsCome
<1>2. ASSUME NEW c \in Claims', NEW d \in Claims', c.version = d.version
      PROVE  c.graph = d.graph \/ Torn(c.id)' \/ Torn(d.id)'
  <2>1. Current(c)' /\ Current(d)'
    BY <1>1
  <2>2. CASE OfWorkflow(c, Reader'.workflow)
    BY <1>2, <2>1, <2>2 DEF OfWorkflow, Current
  <2>3. CASE OfWorkflow(d, Reader'.workflow)
    BY <1>2, <2>1, <2>3 DEF OfWorkflow, Current
  <2>4. ASSUME NEW a \in Claims, NEW b \in Claims, Same(c, a), Same(d, b)
        PROVE  c.graph = d.graph \/ Torn(c.id)' \/ Torn(d.id)'
    <3>1. a.graph = b.graph \/ Torn(a.id) \/ Torn(b.id)
      BY <1>2, <2>4 DEF Versions, Same
    <3>2. a.id \in Ids /\ b.id \in Ids
      BY ClaimTypes
    <3>3. (Torn(a.id) => Torn(a.id)') /\ (Torn(b.id) => Torn(b.id)')
      BY <1>0, <3>2, TornStays
    <3>4. a.id = c.id /\ b.id = d.id /\ a.graph = c.graph /\ b.graph = d.graph
      BY <2>4 DEF Same
    <3> QED
      BY <3>1, <3>3, <3>4 DEF Torn
  <2> QED
    BY <2>2, <2>3, <2>4, ClaimsCome
<1> QED
  BY <1>1, <1>2 DEF Versions

LEMMA VersionsInit == Init => Versions
<1> SUFFICES ASSUME Init PROVE Versions
  OBVIOUS
<1>1. \A i \in Ops : ~Loaded(i)
  BY DEF Init, Loaded
<1>2. Claims = Reader.runs
  BY <1>1 DEF Claims
<1>3. \/ Reader = NoRows
      \/ Reader = Stocked({})
      \/ Reader = Stocked({FirstRun})
  BY DEF Init, Reader, ReadsSql
<1>4. ASSUME Reader = Stocked({FirstRun})
      PROVE  Claims = {FirstRun} /\ Current(FirstRun)
  <2>1. Reader.workflow = NewWorkflow(FirstGraph, FirstMetadata) /\ Reader.runs = {FirstRun}
    BY <1>4 DEF Stocked
  <2>2. Reader.workflow # None
    BY <2>1, RowTypes, NoneIsNoRow, StoreAssumption
  <2> QED
    BY <1>2, <2>1, <2>2 DEF FirstRun, NewWorkflow, Current
<1>5. ASSUME Reader.runs = {} PROVE Versions
  BY <1>2, <1>5 DEF Versions
<1>6. NoRows.runs = {} /\ Stocked({}).runs = {}
  BY DEF NoRows, Stocked
<1> QED
  BY <1>3, <1>4, <1>5, <1>6 DEF Versions

(* Runs of one version ran one definition, unless one of them was made     *)
(* while the workflow was being deleted (apps/api/app/store.py,            *)
(* upsert_workflow and put_run).                                           *)
THEOREM VersionsAreDefinitions == Spec => []VersionNamesDefinition
<1>1. Versions => VersionNamesDefinition
  BY DEF Versions, VersionNamesDefinition, Claims, Torn
<1>2. ASSUME Base, Counted, Versions, [Next]_vars PROVE Versions'
  <2>1. CASE Next
    BY <1>2, <2>1, VersionsStep
  <2>2. CASE UNCHANGED vars
    BY <1>2, <2>2 DEF vars, Versions, Claims, Current, Torn, Loaded, Run, Reader, ReadsSql
  <2> QED
    BY <1>2, <2>1, <2>2
<1> QED
  BY <1>1, <1>2, VersionsInit, BaseInvariance, CountedInvariance, PTL DEF Spec

-----------------------------------------------------------------------------
(* The graph that is run.  Own: of the requests q, i or one of those o it  *)
(* overlaps has brought the graph g.                                       *)

Own(o, q, i, g) == \E j \in {i} \cup o[i] : q[j].kind \in Writers /\ q[j].graph = g

(* RunProject, after it has stored its graph, finds it or a newer one, and *)
(* that is what it goes on with.                                           *)
OwnGraphs ==
    \A i \in Ops :
        plan[i] # Unstarted /\ req[i].kind = "RunProject" =>
            /\ ~Preceded(plan[i], {OwnUpsert(mode)}, "load")
                   => Reader.workflow = None \/ Own(overlap, req, i, Reader.workflow.graph)
            /\ Loaded(i) => Own(overlap, req, i, loaded[i].graph)

RunsStarted == \A r \in Reader.runs : r.id \in Ops => plan[r.id] # Unstarted

LEMMA OwnStays ==
    ASSUME Base, Onward, NEW i \in Ops, plan[i] # Unstarted, NEW g, Own(overlap, req, i, g)
    PROVE  Own(overlap', req', i, g)
<1>1. PICK j \in {i} \cup overlap[i] : req[j].kind \in Writers /\ req[j].graph = g
  BY DEF Own
<1>2. i \in Ids
  BY StoreAssumption DEF Ids, Ops
<1>3. j \in Ops /\ plan[j] # Unstarted /\ j \in {i} \cup overlap'[i]
  BY <1>2 DEF Base, TypeOK, Arrivals, Onward
<1> QED
  BY <1>1, <1>3 DEF Onward, Own

LEMMA MakesUpsert ==
    ASSUME NEW i \in Ops, SqlRead(i) \/ SqlWrite(i) \/ MemoryStep(i)
    PROVE  /\ At(i, "upsert") => UpsertWorkflow(i)
           /\ At(i, "memory_upsert") => DualMemoryUpsert(i)
           /\ At(i, "whole") => Whole(i)
<1> USE DEF At
<1>1. CASE SqlRead(i)
  BY <1>1 DEF SqlRead, FindCached, FindMissed, FindRow, FillCache, Invalidate,
              CheckVacant, CheckExists, CountRuns, Load, AnswerFromMemory, Decide
<1>2. CASE SqlWrite(i)
  BY <1>2 DEF SqlWrite, InsertProject, EnsureProject, UpdateProject, DeleteProject, SetSecret,
              InsertTrigger, UpdateSqlTrigger, DeleteSqlTrigger, InsertWorkflow,
              UpsertWorkflow, SetStatus, DeleteSqlWorkflow, InsertRun, Write
<1>3. CASE MemoryStep(i)
  BY <1>3 DEF MemoryStep, Whole, DualMemory, DualMemoryEnsure, DualMemoryUpsert, InMemory
<1> QED
  BY <1>1, <1>2, <1>3

LEMMA UpsertBrings ==
    ASSUME NEW i \in Ops, Base, Stepped(i), SqlRead(i) \/ SqlWrite(i) \/ MemoryStep(i),
           At(i, OwnUpsert(mode)), plan'[i] # Failed
    PROVE  Reader'.workflow.graph = req[i].graph
<1>0. /\ TypeOK /\ Handlers /\ plan[i] \in Seq(Statements)
      /\ sql \in Databases /\ mem \in Databases /\ i \in Ids /\ req[i].graph \in Graphs
      /\ req[i].metadata \in Metadata
  BY HeldTypes DEF Base, TypeOK
<1>1. Reader' = IF ReadsSql THEN sql' ELSE mem'
  BY DEF Stepped, Reader, ReadsSql
<1>2. CASE mode = "dual_memory"
  <2>1. DualMemoryUpsert(i) /\ ~ReadsSql
    BY <1>2, MakesUpsert DEF OwnUpsert, ReadsSql
  <2>2. mem' = MemUpsertWorkflow(MemEnsureProject(mem, i), req[i].graph, req[i].metadata)
    BY <2>1 DEF DualMemoryUpsert, InMemory
  <2>3. MemEnsureProject(mem, i) \in Databases
    BY <1>0, ProjectTableTypes
  <2>4. Brings(MemEnsureProject(mem, i), mem', req[i].graph)
    BY <1>0, <2>2, <2>3, WorkflowTablesBring
  <2> QED
    BY <1>1, <2>1, <2>4 DEF Brings, Brought
<1>3. CASE mode # "dual_memory"
  <2>1. UpsertWorkflow(i) /\ At(i, "upsert")
    BY <1>3, MakesUpsert DEF OwnUpsert
  <2>2. mode # "memory"
    BY <1>0, <2>1, AtFacts DEF Fits
  <2>3. ReadsSql
    BY <1>0, <1>3, <2>2, ModeFacts DEF TypeOK, ReadsSql
  <2>4. ProjectReferenced(sql)
    BY <1>0, <2>1 DEF UpsertWorkflow, Write, GoOn, TypeOK
  <2>5. sql' = SqlUpsertWorkflow(sql, req[i].graph, req[i].metadata)
    BY <2>1, <2>4 DEF UpsertWorkflow, Write
  <2>6. Brings(sql, sql', req[i].graph)
    BY <1>0, <2>5, WorkflowTablesBring
  <2> QED
    BY <1>1, <2>3, <2>6 DEF Brings, Brought
<1> QED
  BY <1>2, <1>3

(* Only a request that brings a graph changes the graph of the workflow.   *)
LEMMA GraphFollows ==
    ASSUME NEW i \in Ops, Base, Stepped(i), SqlRead(i) \/ SqlWrite(i) \/ MemoryStep(i),
           Reader'.workflow # None
    PROVE  \/ Reader.workflow # None /\ Reader'.workflow.graph = Reader.workflow.graph
           \/ req[i].kind \in Writers /\ Reader'.workflow.graph = req[i].graph
<1>1. Moves(i, Reader, Reader')
  BY ReaderMoves
<1>2. Reader.workflow \in Workflows \cup {None}
  BY DEF Base, TypeOK, Reader, Databases
<1>3. ASSUME Reader.workflow # None,
             Reader'.workflow = [Reader.workflow EXCEPT !.status = Status(i)]
      PROVE  Reader'.workflow.graph = Reader.workflow.graph
  BY <1>2, <1>3 DEF Workflows
<1>4. \/ Reader'.workflow = Reader.workflow
      \/ req[i].kind \in Writers /\ Brought(Reader.workflow, Reader'.workflow, req[i].graph)
      \/ /\ Reader.workflow # None
         /\ Reader'.workflow = [Reader.workflow EXCEPT !.status = Status(i)]
  BY <1>1 DEF Moves, Keeps, Brings, Writers
<1> QED
  BY <1>3, <1>4 DEF Brought

LEMMA OwnGraphsStep ==
    ASSUME Base, OwnGraphs, Next
    PROVE  OwnGraphs'
<1>0. TypeOK /\ Handlers /\ Arrivals /\ Onward
  BY Progress DEF Base
<1> SUFFICES ASSUME NEW j \in Ops, plan'[j] # Unstarted, req'[j].kind = "RunProject"
             PROVE  /\ ~Preceded(plan'[j], {OwnUpsert(mode)}, "load")
                           => \/ Reader'.workflow = None
                              \/ Own(overlap', req', j, Reader'.workflow.graph)
                    /\ Loaded(j)' => Own(overlap', req', j, loaded'[j].graph)
  BY <1>0 DEF OwnGraphs, Onward, OwnUpsert
<1> DEFINE Past(p) == ~Preceded(p, {OwnUpsert(mode)}, "load")
           Goal == /\ Past(plan'[j]) => \/ Reader'.workflow = None
                                        \/ Own(overlap', req', j, Reader'.workflow.graph)
                   /\ Loaded(j)' => Own(overlap', req', j, loaded'[j].graph)
<1>1. ASSUME plan'[j] = plan[j], req'[j] = req[j], Reader' = Reader, loaded'[j] = loaded[j]
      PROVE  Goal
  <2>1. Loaded(j)' => Loaded(j)
    BY <1>1 DEF Loaded
  <2>2. /\ Past(plan[j]) => Reader.workflow = None \/ Own(overlap, req, j, Reader.workflow.graph)
        /\ Loaded(j) => Own(overlap, req, j, loaded[j].graph)
    BY <1>1 DEF OwnGraphs
  <2> QED
    BY <1>0, <1>1, <2>1, <2>2, OwnStays
<1>2. ASSUME plan'[j] = Failed PROVE Goal
  BY <1>2, PrecededWhenOver DEF Loaded
<1>3. ASSUME NEW i \in Ops, Arrive(i) PROVE Goal
  <2>1. CASE j # i
    <3>1. Reader' = Reader /\ loaded' = loaded
      BY <1>3 DEF Arrive, Reader, ReadsSql
    <3> QED
      BY <1>0, <1>1, <1>3, <2>1, <3>1, ArriveFacts DEF TypeOK
  <2>2. CASE j = i
    BY <1>0, <1>3, <2>2, ArriveFacts DEF InTurn, Loaded
  <2> QED
    BY <2>1, <2>2
<1>4. ASSUME NEW i \in Ops, Stepped(i), SqlRead(i) \/ SqlWrite(i) \/ MemoryStep(i)
      PROVE  Goal
  <2>1. /\ overlap' = overlap /\ req' = req /\ \A h \in Ops : h # i => plan'[h] = plan[h]
        /\ req[j].kind = "RunProject" /\ plan[j] # Unstarted
        /\ Active(i) /\ plan[i] # Unstarted
    BY <1>0, <1>4 DEF Stepped, TypeOK
  <2>2. /\ Past(plan[j]) => Reader.workflow = None \/ Own(overlap, req, j, Reader.workflow.graph)
        /\ Loaded(j) => Own(overlap, req, j, loaded[j].graph)
    BY <2>1 DEF OwnGraphs
  <2>3. \A g : Own(overlap', req', j, g) <=> Own(overlap, req, j, g)
    BY <2>1 DEF Own
  <2>4. Loaded(j)' => Own(overlap', req', j, loaded'[j].graph)
    <3>1. ASSUME Loaded(j), Run(j)' = Run(j) PROVE Own(overlap', req', j, loaded'[j].graph)
      BY <2>2, <2>3, <3>1 DEF Run
    <3>2. ASSUME j = i, At(i, "load"), OfWorkflow(Run(j)', Reader.workflow)
          PROVE  Own(overlap', req', j, loaded'[j].graph)
      <4>1. Past(plan[j])
        BY <1>0, <3>2, AtNotPreceded DEF TypeOK
      <4>2. Own(overlap, req, j, Reader.workflow.graph)
        BY <2>2, <3>2, <4>1 DEF OfWorkflow
      <4> QED
        BY <2>3, <3>2, <4>2 DEF OfWorkflow, Run
    <3> QED
      BY <1>4, <3>1, <3>2, LoadedStep
  <2>5. ASSUME Past(plan'[j]), Reader'.workflow # None
        PROVE  Own(overlap, req, j, Reader'.workflow.graph)
    <3>1. CASE j = i /\ At(i, OwnUpsert(mode))
      <4>1. plan'[i] # Failed
        BY <2>5, <3>1, PrecededWhenOver
      <4>2. Reader'.workflow.graph = req[i].graph
        BY <1>4, <3>1, <4>1, UpsertBrings
      <4> QED
        BY <2>1, <3>1, <4>2 DEF Own, Writers
    <3>2. CASE ~(j = i /\ At(i, OwnUpsert(mode)))
      <4>1. Past(plan[j])
        <5>1. CASE j # i
          BY <2>1, <2>5, <5>1
        <5>2. CASE j = i
          <6>1. /\ req[i].kind \notin Patches
                /\ {OwnUpsert(mode)} \cap {"ensure", "invalidate"} = {}
            BY <2>1, <5>2 DEF Patches, OwnUpsert
          <6> QED
            BY <1>0, <1>4, <2>5, <3>2, <5>2, <6>1, MadeFirst
        <5> QED
          BY <5>1, <5>2
      <4>2. CASE Reader.workflow # None /\ Reader'.workflow.graph = Reader.workflow.graph
        BY <2>2, <4>1, <4>2
      <4>3. CASE req[i].kind \in Writers /\ Reader'.workflow.graph = req[i].graph
        <5>1. Active(j)
          BY <2>1, <4>1, BeyondIsActive
        <5>2. i \in {j} \cup overlap[j]
          BY <1>0, <2>1, <5>1 DEF Arrivals, Ops
        <5> QED
          BY <4>3, <5>2 DEF Own
      <4> QED
        BY <1>4, <2>5, <4>2, <4>3, GraphFollows
    <3> QED
      BY <3>1, <3>2
  <2> QED
    BY <2>3, <2>4, <2>5
<1>5. ASSUME NEW i \in Ops, Raise(i) PROVE Goal
  <2>1. Reader' = Reader
    BY <1>5 DEF Raise, Reader, ReadsSql
  <2> QED
    BY <1>0, <1>1, <1>2, <1>5, <2>1 DEF Raise, GoOn, TypeOK
<1>6. ASSUME Restart PROVE Goal
  <2>1. plan'[j] = Failed \/ (plan'[j] = plan[j] /\ ~Active(j))
    BY <1>6 DEF Restart
  <2>2. plan'[j] = plan[j] /\ ~Active(j) => ~Past(plan'[j]) /\ ~Loaded(j)'
    <3>1. ASSUME plan'[j] = plan[j], ~Active(j) PROVE ~Past(plan'[j])
      BY <3>1, BeyondIsActive
    <3>2. ASSUME plan'[j] = plan[j], ~Active(j) PROVE ~Loaded(j)'
      BY <1>6, <3>2, LoadedIsActive DEF Loaded, Restart
    <3> QED
      BY <3>1, <3>2
  <2> QED
    BY <1>2, <2>1, <2>2
<1> QED
  BY <1>0, <1>3, <1>4, <1>5, <1>6, StepCases

LEMMA RunsStartedStep ==
    ASSUME Base, RunsStarted, Next
    PROVE  RunsStarted'
<1>0. TypeOK /\ Handlers /\ Onward
  BY Progress DEF Base
<1>1. ASSUME \A r \in Reader'.runs : \E q \in Reader.runs : q.id = r.id PROVE RunsStarted'
  BY <1>0, <1>1 DEF RunsStarted, Onward
<1>2. \A i \in Ops : Arrive(i) \/ Raise(i) => Reader' = Reader
  BY DEF Arrive, Raise, Reader, ReadsSql
<1>3. Restart => Reader'.runs \in {{}, Reader.runs}
  BY DEF Restart, Reader, ReadsSql, NoRows
<1>4. ASSUME NEW i \in Ops, Stepped(i), SqlRead(i) \/ SqlWrite(i) \/ MemoryStep(i)
      PROVE  RunsStarted'
  <2> SUFFICES ASSUME NEW r \in Reader'.runs, r.id \in Ops PROVE plan'[r.id] # Unstarted
    BY DEF RunsStarted
  <2>1. plan'[i] # Unstarted
    BY <1>0, <1>4 DEF Stepped, Onward
  <2> QED
    BY <1>0, <1>4, <2>1, RunsComeFrom DEF RunsStarted, Onward
<1> QED
  BY <1>0, <1>1, <1>2, <1>3, <1>4, StepCases

LEMMA RunsOwnGraphStep ==
    ASSUME Base, OwnGraphs, RunsStarted, RunsOwnGraph, Next
    PROVE  RunsOwnGraph'
<1>0. TypeOK /\ Handlers /\ Onward
  BY Progress DEF Base
<1> SUFFICES ASSUME NEW r \in Reader'.runs, r.id \in Ops, req'[r.id].kind = "RunProject"
             PROVE  Own(overlap', req', r.id, r.graph)
  BY DEF RunsOwnGraph, Own
<1>1. ASSUME NEW q \in Reader.runs, q.id = r.id, q.graph = r.graph
      PROVE  Own(overlap', req', r.id, r.graph)
  <2>1. plan[q.id] # Unstarted
    BY <1>1 DEF RunsStarted
  <2>2. req[q.id].kind = "RunProject"
    BY <1>0, <1>1, <2>1 DEF Onward
  <2>3. Own(overlap, req, q.id, q.graph)
    BY <1>1, <2>2 DEF RunsOwnGraph, Own
  <2> QED
    BY <1>0, <1>1, <2>1, <2>3, OwnStays
<1>2. \A i \in Ops : Arrive(i) \/ Raise(i) => Reader' = Reader
  BY DEF Arrive, Raise, Reader, ReadsSql
<1>3. Restart => Reader'.runs \in {{}, Reader.runs}
  BY DEF Restart, Reader, ReadsSql, NoRows
<1>4. ASSUME NEW i \in Ops, Stepped(i), SqlRead(i) \/ SqlWrite(i) \/ MemoryStep(i)
      PROVE  Own(overlap', req', r.id, r.graph)
  <2>1. plan[i] # Unstarted /\ req' = req /\ overlap' = overlap
    BY <1>4 DEF Stepped
  <2>2. \A g : Own(overlap, req, i, g) => Own(overlap', req', i, g)
    BY <2>1 DEF Own
  <2>3. Moves(i, Reader, Reader')
    BY <1>4, ReaderMoves
  <2>4. CASE Keeps(Reader, Reader')
    BY <1>1, <2>4 DEF Keeps, AsRuns
  <2>5. CASE Reader'.runs \in {{}, Reader.runs}
    BY <1>1, <2>5
  <2>6. CASE /\ Reader'.runs = Reader.runs \cup {Run(i)} /\ req[i].kind \in Runs
             /\ At(i, "insert_run") \/ At(i, "memory")
    <3>1. Loaded(i)
      BY <1>0, <2>1, <2>6, AtNotPreceded DEF Loaded, TypeOK
    <3>2. CASE r = Run(i)
      <4>1. r.id = i /\ r.graph = loaded[i].graph
        BY <3>2 DEF Run
      <4>2. Own(overlap, req, i, loaded[i].graph)
        BY <2>1, <3>1, <4>1 DEF OwnGraphs
      <4> QED
        BY <2>2, <4>1, <4>2
    <3> QED
      BY <1>1, <2>6, <3>2
  <2>7. CASE /\ Brought(Reader.workflow, Reader'.workflow, req[i].graph)
             /\ req[i].kind = "RunProject"
             /\ Reader'.runs = Reader.runs \cup
                    {[id |-> i, version |-> Reader'.workflow.version,
                      graph |-> Reader'.workflow.graph, owned |-> TRUE]}
    <3>1. Own(overlap, req, i, req[i].graph)
      BY <2>7 DEF Own, Writers
    <3> QED
      BY <1>1, <2>2, <2>7, <3>1 DEF Brought
  <2>8. CASE /\ req[i].kind = "RunWorkflow"
             /\ \E v, g : Reader'.runs = Reader.runs \cup
                    {[id |-> i, version |-> v, graph |-> g, owned |-> TRUE]}
    <3>1. r.id # i
      BY <2>1, <2>8
    <3> QED
      BY <1>1, <2>8, <3>1
  <2> QED
    BY <2>3, <2>4, <2>5, <2>6, <2>7, <2>8 DEF Moves, Brings
<1> QED
  BY <1>0, <1>1, <1>2, <1>3, <1>4, StepCases

(* POST /projects/{id}/runs starts the graph it was sent, or one sent at   *)
(* the same time (apps/api/app/main.py, create_project_run).               *)
THEOREM RunsTheGraphSent == Spec => []RunsOwnGraph
<1> DEFINE I == OwnGraphs /\ RunsStarted /\ RunsOwnGraph
<1>1. Init => I
  <2> SUFFICES ASSUME Init PROVE I
    OBVIOUS
  <2>1. Reader \in {NoRows, Stocked({}), Stocked({FirstRun})}
    BY DEF Init, Reader, ReadsSql
  <2>2. \A r \in Reader.runs : r.id \notin Ops
    BY <2>1 DEF NoRows, Stocked, FirstRun, Ops
  <2> QED
    BY <2>2 DEF Init, OwnGraphs, RunsStarted, RunsOwnGraph
<1>2. ASSUME Base, I, [Next]_vars PROVE I'
  <2>1. CASE Next
    BY <1>2, <2>1, OwnGraphsStep, RunsStartedStep, RunsOwnGraphStep
  <2>2. CASE UNCHANGED vars
    <3>1. UNCHANGED <<mode, mem, sql, req, plan, loaded, overlap>>
      BY <2>2 DEF vars
    <3>2. Reader' = Reader
      BY <3>1 DEF Reader, ReadsSql
    <3>3. OwnGraphs' = OwnGraphs
      BY <3>1, <3>2 DEF OwnGraphs, Own, Loaded
    <3>4. RunsStarted' = RunsStarted
      BY <3>1, <3>2 DEF RunsStarted
    <3>5. RunsOwnGraph' = RunsOwnGraph
      BY <3>1, <3>2 DEF RunsOwnGraph
    <3> QED
      BY <1>2, <3>3, <3>4, <3>5
  <2> QED
    BY <1>2, <2>1, <2>2
<1> QED
  BY <1>1, <1>2, BaseInvariance, PTL DEF Spec

-----------------------------------------------------------------------------
(* Archived workflows.  An archive has been stamped when what is left of   *)
(* its plan is the copy for the store that is not read.                    *)

Stamped(i) ==
    /\ plan[i] # Unstarted /\ req[i].kind = "ArchiveWorkflow"
    /\ \A n \in 1 .. Len(plan[i]) : mode = "dual_memory" /\ plan[i][n] = "status"

Revived ==
    \/ \E j \in Ops : req[j].kind \in {"PublishWorkflow", "DeleteWorkflow"}
    \/ MemoryLost

IsArchived(w) == w # None /\ w.status = "archived"

ArchiveHolds ==
    ~Revived => \A i \in Ops : Stamped(i) =>
        /\ IsArchived(Reader.workflow)
        /\ \A j \in Ops : j > i /\ j \notin overlap[i] =>
              ~Loaded(j) /\ \A r \in Reader.runs : r.id # j

LEMMA RevivedStays ==
    ASSUME Base, Next, Revived
    PROVE  Revived'
<1>0. TypeOK /\ Handlers /\ Arrivals /\ Onward
  BY Progress DEF Base
<1>1. ASSUME NEW j \in Ops, req[j].kind \in {"PublishWorkflow", "DeleteWorkflow"}
      PROVE  Revived'
  <2>1. plan[j] # Unstarted
    BY <1>0, <1>1 DEF Arrivals, NoRequest
  <2> QED
    BY <1>0, <1>1, <2>1 DEF Onward, Revived
<1>2. restarts > 0 => restarts' > 0
  <2>1. restarts \in Nat
    BY <1>0, StoreAssumption DEF TypeOK
  <2>2. \A i \in Ops : Arrive(i) \/ Stepped(i) \/ Raise(i) => restarts' = restarts
    BY DEF Arrive, Stepped, Raise
  <2>3. Restart => restarts' = restarts + 1
    BY DEF Restart
  <2>4. restarts' \in {restarts, restarts + 1}
    BY <1>0, <2>2, <2>3, StepCases
  <2> QED
    BY <2>1, <2>4
<1>3. MemoryLost => MemoryLost'
  BY <1>0, <1>2 DEF MemoryLost, ReadsSql, Onward
<1> QED
  BY <1>1, <1>3 DEF Revived

LEMMA ArchivePlan ==
    ASSUME mode \in Modes
    PROVE  \/ PlanOf("ArchiveWorkflow") = <<"whole">> /\ mode = "memory"
           \/ PlanOf("ArchiveWorkflow") = <<"memory">> \o <<"status">>
           \/ PlanOf("ArchiveWorkflow") = <<>> \o <<"status">> /\ mode # "dual_memory"
<1>1. PlanOf("ArchiveWorkflow") = IF mode = "memory" THEN <<"whole">>
                                  ELSE InDual(<<"memory">>) \o <<"status">>
  BY DEF PlanOf, Patches, Runs
<1> QED
  BY <1>1 DEF InDual, Dual

(* A new archive has all to do. *)
LEMMA NotStampedYet ==
    ASSUME NEW i \in Ops, TypeOK, Arrive(i)
    PROVE  ~Stamped(i)'
<1> SUFFICES ASSUME script[i] = "ArchiveWorkflow"
             PROVE  \E n \in 1 .. Len(plan'[i]) : mode # "dual_memory" \/ plan'[i][n] # "status"
  BY ArriveFacts DEF Stamped, Arrive
<1>1. plan'[i] = PlanOf("ArchiveWorkflow")
  BY ArriveFacts
<1>2. mode \in Modes
  BY DEF TypeOK
<1>3. CASE plan'[i] = <<"whole">>
  BY <1>3
<1>4. CASE plan'[i] = <<"memory">> \o <<"status">>
  <2>1. 1 \in 1 .. Len(plan'[i]) /\ plan'[i][1] = "memory"
    BY <1>4
  <2> QED
    BY <2>1
<1>5. CASE plan'[i] = <<>> \o <<"status">> /\ mode # "dual_memory"
  <2>1. 1 \in 1 .. Len(plan'[i])
    BY <1>5
  <2> QED
    BY <1>5, <2>1
<1> QED
  BY <1>1, <1>2, <1>3, <1>4, <1>5, ArchivePlan

(* The statement that stamps it archives what the reader holds. *)
LEMMA StampArchives ==
    ASSUME NEW i \in Ops, Base, Stepped(i), SqlRead(i) \/ SqlWrite(i) \/ MemoryStep(i),
           Stamped(i)', ~Stamped(i)
    PROVE  IsArchived(Reader'.workflow)
<1> DEFINE p == plan[i]
           q == plan'[i]
<1>0. /\ TypeOK /\ Handlers /\ p \in Seq(Statements) /\ q \in Seq(Statements) /\ p # <<>>
      /\ mode' = mode /\ req' = req /\ req[i].kind = "ArchiveWorkflow" /\ p # Unstarted
      /\ PlanOK(mode, "ArchiveWorkflow", p)
      /\ sql \in Databases /\ mem \in Databases
      /\ Status(i) = "archived"
      /\ \A n \in 1 .. Len(q) : mode = "dual_memory" /\ q[n] = "status"
  <2>1. q \in Seq(Statements)
    BY FollowsOK DEF Stepped, PlanOK
  <2> QED
    BY <2>1 DEF Base, TypeOK, Stepped, Stamped, Status
<1>1. Reader' = IF ReadsSql THEN sql' ELSE mem'
  BY DEF Stepped, Reader, ReadsSql
<1>2. q # Refused /\ q # Failed
  <2>1. ~Over(q)
    <3> SUFFICES ASSUME Over(q) PROVE FALSE
      OBVIOUS
    <3>1. 1 \in 1 .. Len(q) /\ q[1] \in {"refused", "failed"}
      BY DEF Over
    <3> QED
      BY <1>0, <3>1
  <2> QED
    BY <2>1, AllOver
<1>3. ASSUME NEW w, At(i, w), w \notin {"unstarted", "refused", "failed"}
      PROVE  w \in {"whole", "memory", "status"} /\ Fits(mode, "ArchiveWorkflow", w)
  BY <1>0, <1>3, AtFacts DEF Fits
<1>4. ASSUME NEW db \in Databases, db.workflow # None
      PROVE  IsArchived(SetWorkflowStatus(db, "archived").workflow)
  <2>1. SetWorkflowStatus(db, "archived").workflow = [db.workflow EXCEPT !.status = "archived"]
    BY <1>4, WorkflowTablesDo
  <2>2. db.workflow \in Workflows
    BY <1>4 DEF Databases
  <2>3. /\ [db.workflow EXCEPT !.status = "archived"] \in Workflows
        /\ [db.workflow EXCEPT !.status = "archived"].status = "archived"
    BY <2>2 DEF Workflows
  <2> QED
    BY <2>1, <2>3, NoneIsNoRow DEF IsArchived
<1>5. CASE At(i, "whole")
  <2>1. Whole(i) /\ mode = "memory"
    BY <1>3, <1>5, MakesUpsert DEF Fits
  <2>2. MemHolds("ArchiveWorkflow", mem)
    BY <1>0, <1>2, <2>1 DEF Whole, GoOn, TypeOK
  <2>3. mem' = SetWorkflowStatus(mem, "archived") /\ mem.workflow # None
    BY <1>0, <2>1, <2>2 DEF Whole, MemEffect, MemHolds, Runs
  <2> QED
    BY <1>0, <1>1, <1>4, <2>1, <2>3 DEF ReadsSql
<1>6. CASE At(i, "memory")
  <2>1. DualMemory(i)
    BY <1>6 DEF At, SqlRead, FindCached, FindMissed, FindRow, FillCache, Invalidate,
                CheckVacant, CheckExists, CountRuns, Load, AnswerFromMemory, Decide,
                SqlWrite, InsertProject, EnsureProject, UpdateProject, DeleteProject, SetSecret,
                InsertTrigger, UpdateSqlTrigger, DeleteSqlTrigger, InsertWorkflow,
                UpsertWorkflow, SetStatus, DeleteSqlWorkflow, InsertRun, Write,
                MemoryStep, Whole, DualMemoryEnsure, DualMemoryUpsert, InMemory
  <2>2. /\ mem' = SetWorkflowStatus(mem, "archived")
        /\ q = Tail(p) \o MemAnswer(i)
    BY <1>0, <2>1 DEF DualMemory, InMemory, GuardHolds, MemEffect, Runs, Patches, GoOn, TypeOK
  <2>3. /\ Tail(p) \in Seq(Statements) /\ Len(Tail(p)) > 0 /\ Tail(p)[1] = "status"
    <3>1. p[1] = "memory" /\ 1 \in 1 .. Len(p)
      BY <1>0, <1>6 DEF At
    <3>2. 1 < Len(p) /\ p[2] = "status"
      BY <1>0, <3>1 DEF PlanOK
    <3> QED
      BY <1>0, <3>2
  <2>4. MemAnswer(i) \in {<<>>, Refused} /\ MemAnswer(i) \in Seq(Statements)
    BY AllOver DEF MemAnswer, InDualMem, Over
  <2>5. mode = "dual_memory"
    <3>1. 1 \in 1 .. Len(q)
      BY <2>2, <2>3, <2>4
    <3> QED
      BY <1>0, <3>1
  <2>6. mem.workflow # None
    <3> SUFFICES ASSUME mem.workflow = None PROVE FALSE
      OBVIOUS
    <3>1. MemAnswer(i) = Refused
      BY <1>0, <2>5 DEF MemAnswer, InDualMem
    <3>2. Len(q) \in 1 .. Len(q) /\ q[Len(q)] = "refused"
      <4>1. Len(q) = Len(Tail(p)) + 1 /\ Len(Tail(p)) \in Nat
        BY <2>2, <2>3, <3>1 DEF Refused
      <4> QED
        BY <2>2, <2>3, <3>1, <4>1 DEF Refused
    <3> QED
      BY <1>0, <3>2
  <2> QED
    BY <1>0, <1>1, <1>4, <2>2, <2>5, <2>6 DEF ReadsSql
<1>7. CASE At(i, "status")
  <2>1. SetStatus(i)
    BY <1>7 DEF At, SqlRead, FindCached, FindMissed, FindRow, FillCache, Invalidate,
                CheckVacant, CheckExists, CountRuns, Load, AnswerFromMemory, Decide,
                SqlWrite, InsertProject, EnsureProject, UpdateProject, DeleteProject, SetSecret,
                InsertTrigger, UpdateSqlTrigger, DeleteSqlTrigger, InsertWorkflow,
                UpsertWorkflow, SetStatus, DeleteSqlWorkflow, InsertRun, Write,
                MemoryStep, Whole, DualMemory, DualMemoryEnsure, DualMemoryUpsert, InMemory
  <2>2. CASE ReadsSql
    <3>1. sql' = SetWorkflowStatus(sql, "archived") /\ sql.workflow # None
      BY <1>0, <1>2, <2>1, <2>2 DEF SetStatus, Write, GoOn, TypeOK
    <3> QED
      BY <1>0, <1>1, <1>4, <2>2, <3>1
  <2>3. CASE ~ReadsSql
    <3>1. mode = "dual_memory"
      BY <1>0, <1>3, <1>7, <2>3, ModeFacts DEF Fits, ReadsSql, TypeOK
    <3>2. q = Tail(p)
      BY <1>0, <2>1, <2>3 DEF SetStatus, Write, GoOn, TypeOK
    <3>3. \A n \in 1 .. Len(p) : n = 1 \/ (n - 1 \in 1 .. Len(q) /\ p[n] = q[n - 1])
      BY <1>0, <3>2
    <3>4. p[1] = "status"
      BY <1>7 DEF At
    <3>5. Stamped(i)
      BY <1>0, <3>1, <3>3, <3>4 DEF Stamped
    <3> QED
      BY <3>5
  <2> QED
    BY <2>2, <2>3
<1>8. ASSUME NEW w \in Statements \ {"whole", "memory", "status", "unstarted", "refused", "failed"}
      PROVE  ~At(i, w)
  BY <1>3, <1>8
<1>9. SqlRead(i) \/ SqlWrite(i) \/ MemoryStep(i) =>
         \E w \in Statements \ {"unstarted", "refused", "failed"} : At(i, w)
  BY DEF SqlRead, FindCached, FindMissed, FindRow, FillCache, Invalidate,
         CheckVacant, CheckExists, CountRuns, Load, AnswerFromMemory, Decide,
         SqlWrite, InsertProject, EnsureProject, UpdateProject, DeleteProject, SetSecret,
         InsertTrigger, UpdateSqlTrigger, DeleteSqlTrigger, InsertWorkflow,
         UpsertWorkflow, SetStatus, DeleteSqlWorkflow, InsertRun, Write, Statements,
         MemoryStep, Whole, DualMemory, DualMemoryEnsure, DualMemoryUpsert, InMemory
<1> QED
  BY <1>5, <1>6, <1>7, <1>8, <1>9

LEMMA ArchiveHoldsStep ==
    ASSUME Base, RunsStarted, ArchiveHolds, Next
    PROVE  ArchiveHolds'
<1>0. TypeOK /\ Handlers /\ Arrivals /\ Onward
  BY Progress DEF Base
<1> SUFFICES ASSUME ~Revived', NEW i \in Ops, Stamped(i)'
             PROVE  /\ IsArchived(Reader'.workflow)
                    /\ \A j \in Ops : j > i /\ j \notin overlap'[i] =>
                          ~Loaded(j)' /\ \A r \in Reader'.runs : r.id # j
  BY DEF ArchiveHolds
<1> DEFINE Goal == /\ IsArchived(Reader'.workflow)
                   /\ \A j \in Ops : j > i /\ j \notin overlap'[i] =>
                         ~Loaded(j)' /\ \A r \in Reader'.runs : r.id # j
<1>1. /\ ~Revived /\ RunsStarted'
      /\ \A j \in Ops : req[j].kind \notin {"PublishWorkflow", "DeleteWorkflow"}
  <2>1. ~Revived /\ RunsStarted'
    BY RevivedStays, RunsStartedStep
  <2>2. \A j \in Ops : req[j].kind \notin {"PublishWorkflow", "DeleteWorkflow"}
    BY <2>1 DEF Revived
  <2> QED
    BY <2>1, <2>2
<1>2. overlap[i] \subseteq overlap'[i]
  BY <1>0, StoreAssumption DEF Onward, Ids, Ops
<1>3. Stamped(i) => /\ IsArchived(Reader.workflow)
                    /\ \A j \in Ops : j > i /\ j \notin overlap'[i] =>
                          ~Loaded(j) /\ \A r \in Reader.runs : r.id # j
  BY <1>1, <1>2 DEF ArchiveHolds
<1>4. plan'[i] # Failed
  <2> SUFFICES ASSUME plan'[i] = Failed PROVE FALSE
    OBVIOUS
  <2>1. Len(plan'[i]) = 1 /\ plan'[i][1] \in {"refused", "failed"}
    BY AllOver DEF Over
  <2>2. plan'[i][1] = "status"
    BY <2>1 DEF Stamped
  <2> QED
    BY <2>1, <2>2
<1>5. ASSUME Reader' = Reader, plan'[i] = plan[i], req'[i] = req[i],
             \A j \in Ops : Loaded(j)' => Loaded(j)
      PROVE  Goal
  <2>1. Stamped(i)
    BY <1>0, <1>5 DEF Stamped, Onward
  <2> QED
    BY <1>3, <1>5, <2>1
<1>6. ASSUME NEW h \in Ops, Arrive(h) PROVE Goal
  <2>1. h # i
    BY <1>0, <1>6, NotStampedYet
  <2>2. Reader' = Reader /\ loaded' = loaded
    BY <1>6 DEF Arrive, Reader, ReadsSql
  <2>3. \A j \in Ops : j # h => plan'[j] = plan[j] /\ req'[j] = req[j]
    BY <1>0, <1>6, ArriveFacts DEF TypeOK
  <2>4. ~Loaded(h)'
    BY <1>0, <1>6, ArriveFacts DEF InTurn, Loaded
  <2>5. \A j \in Ops : Loaded(j)' => Loaded(j)
    BY <2>3, <2>4 DEF Loaded
  <2> QED
    BY <1>5, <2>1, <2>2, <2>3, <2>5
<1>7. ASSUME NEW h \in Ops, Stepped(h), SqlRead(h) \/ SqlWrite(h) \/ MemoryStep(h)
      PROVE  Goal
  <2>1. /\ overlap' = overlap /\ req' = req /\ mode' = mode
        /\ \A j \in Ops : j # h => plan'[j] = plan[j]
    BY <1>0, <1>7 DEF Stepped, TypeOK
  <2>2. Moves(h, Reader, Reader')
    BY <1>7, ReaderMoves
  <2>3. CASE Stamped(i)
    <3>1. IsArchived(Reader'.workflow)
      <4>1. Reader.workflow \in Workflows /\ Reader.workflow.status = "archived"
        BY <1>0, <1>3, <2>3 DEF IsArchived, TypeOK, Reader, Databases
      <4>2. req[h].kind \notin {"PublishWorkflow", "DeleteWorkflow"}
        BY <1>1
      <4>3. CASE Reader'.workflow = Reader.workflow
        BY <1>3, <2>3, <4>3
      <4>4. CASE Brought(Reader.workflow, Reader'.workflow, req[h].graph)
        BY <1>3, <2>3, <4>4, NoneIsNoRow DEF Brought, IsArchived
      <4>5. CASE /\ req[h].kind = "ArchiveWorkflow"
                 /\ Reader'.workflow = [Reader.workflow EXCEPT !.status = Status(h)]
        <5>1. Status(h) = "archived"
          BY <4>5 DEF Status
        <5>2. Reader'.workflow \in Workflows /\ Reader'.workflow.status = "archived"
          BY <4>1, <4>5, <5>1 DEF Workflows
        <5> QED
          BY <5>2, NoneIsNoRow DEF IsArchived
      <4> QED
        BY <2>2, <4>2, <4>3, <4>4, <4>5 DEF Moves, Keeps, Brings
    <3>2. ASSUME NEW j \in Ops, j > i, j \notin overlap'[i]
          PROVE  ~Loaded(j)' /\ \A r \in Reader'.runs : r.id # j
      <4>1. ~Loaded(j) /\ \A r \in Reader.runs : r.id # j
        BY <1>3, <2>3, <3>2
      <4>2. ~Loaded(j)'
        BY <1>3, <1>7, <2>3, <4>1, LoadedStep DEF IsArchived
      <4>3. ASSUME NEW r \in Reader'.runs, r.id = j PROVE FALSE
        <5>1. ~ \E q \in Reader.runs : q.id = r.id
          BY <4>1, <4>3
        <5>2. CASE Keeps(Reader, Reader')
          BY <5>1, <5>2 DEF Keeps, AsRuns
        <5>3. CASE Reader'.runs \in {{}, Reader.runs}
          BY <5>1, <5>3
        <5>4. CASE /\ Reader'.runs = Reader.runs \cup {Run(h)} /\ req[h].kind \in Runs
                   /\ At(h, "insert_run") \/ At(h, "memory")
          <6>1. Loaded(h)
            BY <1>0, <1>7, <5>4, AtNotPreceded DEF Loaded, Stepped, TypeOK
          <6>2. r.id = h
            BY <5>1, <5>4 DEF Run
          <6> QED
            BY <4>1, <4>3, <6>1, <6>2
        <5>5. CASE Reader'.workflow.status # "archived"
          BY <3>1, <5>5 DEF IsArchived
        <5> QED
          BY <2>2, <5>2, <5>3, <5>4, <5>5 DEF Moves, Brings
      <4> QED
        BY <4>2, <4>3
    <3> QED
      BY <3>1, <3>2
  <2>4. CASE ~Stamped(i)
    <3>1. h = i
      BY <2>1, <2>4 DEF Stamped
    <3>2. IsArchived(Reader'.workflow)
      BY <1>7, <2>4, <3>1, StampArchives
    <3>3. ASSUME NEW j \in Ops, j > i, j \notin overlap'[i]
          PROVE  ~Loaded(j)' /\ \A r \in Reader'.runs : r.id # j
      <4>1. plan[j] = Unstarted
        BY <1>0, <1>7, <2>1, <3>1, <3>3 DEF Stepped, Arrivals
      <4>2. j # h
        BY <1>7, <4>1 DEF Stepped
      <4>3. plan'[j] = Unstarted
        BY <2>1, <4>1, <4>2
      <4>4. ~Loaded(j)'
        BY <4>3 DEF Loaded
      <4>5. \A r \in Reader'.runs : r.id # j
        BY <1>1, <4>3 DEF RunsStarted
      <4> QED
        BY <4>4, <4>5
    <3> QED
      BY <3>2, <3>3
  <2> QED
    BY <2>3, <2>4
<1>8. ASSUME NEW h \in Ops, Raise(h) PROVE Goal
  <2>1. Reader' = Reader /\ loaded' = loaded /\ req' = req
    BY <1>8 DEF Raise, Reader, ReadsSql
  <2>2. \A j \in Ops : plan'[j] = Failed \/ plan'[j] = plan[j]
    BY <1>0, <1>8 DEF Raise, GoOn, TypeOK
  <2>3. \A j \in Ops : Loaded(j)' => Loaded(j)
    BY <2>1, <2>2, PrecededWhenOver DEF Loaded
  <2> QED
    BY <1>4, <1>5, <2>1, <2>2, <2>3
<1>9. ASSUME Restart PROVE Goal
  <2>1. \A j \in Ops : plan'[j] = Failed \/ plan'[j] = plan[j]
    BY <1>9 DEF Restart
  <2>2. req' = req
    BY <1>9 DEF Restart
  <2>3. \A j \in Ops : Loaded(j)' => Loaded(j)
    BY <2>1, <2>2, PrecededWhenOver DEF Loaded
  <2>4. Reader' = Reader
    <3>1. restarts' > 0 /\ ~MemoryLost'
      <4>1. restarts \in Nat
        BY <1>0, StoreAssumption DEF TypeOK
      <4> QED
        BY <1>9, <4>1 DEF Restart, Revived
    <3> QED
      BY <1>9, <3>1 DEF Restart, MemoryLost, Reader, ReadsSql
  <2> QED
    BY <1>4, <1>5, <2>1, <2>2, <2>3, <2>4
<1> QED
  BY <1>0, <1>6, <1>7, <1>8, <1>9, StepCases

(* A request that arrives after an archive has been answered makes no run  *)
(* of the workflow, though it may bring a graph for it, unless some        *)
(* request publishes or deletes it (apps/api/app/main.py,                  *)
(* _create_run_impl).                                                      *)
THEOREM ArchivedStaysIdle == Spec => []ArchivedTakesNoRuns
<1> DEFINE I == RunsStarted /\ ArchiveHolds
<1>1. Init => I
  <2> SUFFICES ASSUME Init PROVE I
    OBVIOUS
  <2>1. Reader \in {NoRows, Stocked({}), Stocked({FirstRun})}
    BY DEF Init, Reader, ReadsSql
  <2>2. \A r \in Reader.runs : r.id \notin Ops
    BY <2>1 DEF NoRows, Stocked, FirstRun, Ops
  <2> QED
    BY <2>2 DEF Init, RunsStarted, ArchiveHolds, Stamped
<1>2. ASSUME Base, I, [Next]_vars PROVE I'
  <2>1. CASE Next
    BY <1>2, <2>1, RunsStartedStep, ArchiveHoldsStep
  <2>2. CASE UNCHANGED vars
    BY <1>2, <2>2 DEF vars, RunsStarted, ArchiveHolds, Stamped, Revived, MemoryLost, Loaded,
                      Reader, ReadsSql
  <2> QED
    BY <1>2, <2>1, <2>2
<1>3. ASSUME Base, I PROVE ArchivedTakesNoRuns
  <2> SUFFICES ASSUME ~Revived, NEW i \in Ops, NEW r \in Reader.runs,
                      Answered(i, {"ArchiveWorkflow"}), r.id > i, r.id \notin overlap[i]
               PROVE  FALSE
    BY DEF ArchivedTakesNoRuns, Revived
  <2>1. Stamped(i)
    BY DEF Answered, Stamped, Unstarted
  <2>2. r.id \in Ops
    BY <1>3 DEF Base, TypeOK, Reader, Databases, RunRows, Ids, Ops
  <2> QED
    BY <1>3, <2>1, <2>2 DEF ArchiveHolds
<1> QED
  BY <1>1, <1>2, <1>3, BaseInvariance, PTL DEF Spec

-----------------------------------------------------------------------------
(* Patches.  Field(i) is what a PATCH changes; since it has, the field     *)
(* holds what it or a later request gave, in the row, in the cache entry   *)
(* and in what later handlers have read.                                   *)

Field(i) == IF req[i].kind = "PatchName" THEN "name" ELSE "configs"

Since(p, f, i) == p = None \/ p[f] >= i

Past(s, g) == ~Over(s) /\ \A n \in 1 .. Len(s) : s[n] \notin g

NoDeletion == \A j \in Ops : req[j].kind # "DeleteProject"

(* Where no project has been deleted, the cache does not outlive the row.  *)
CacheHonest ==
    NoDeletion => /\ cache # None => sql.project # None
                  /\ \A j \in Ops : seen[j] # None => sql.project # None

(* The PATCH requests PatchesKept is about. *)
Alone(i) ==
    /\ plan[i] # Unstarted /\ req[i].kind \in Patches /\ overlap[i] = {}
    /\ mode = "dual_sql" => \A j \in Ops : j < i => req[j].kind # "DeleteProject"

PatchLasts(i) ==
    /\ Past(plan[i], {Applies(mode)}) => Since(Reader.project, Field(i), i)
    /\ ReadsSql /\ Past(plan[i], {"update", "invalidate"}) =>
          /\ Since(cache, Field(i), i)
          /\ \A j \in Ops : j > i \/ (j = i /\ At(i, "fill")) => Since(seen[j], Field(i), i)
    /\ ReadsSql /\ At(i, "row") => cache = None

PatchesLast == \A i \in Ops : Alone(i) => PatchLasts(i)

(* What the statements make of the project. *)
LEMMA SqlProject ==
    ASSUME NEW i \in Ops, TypeOK, Handlers, SqlWrite(i)
    PROVE  /\ \/ sql'.project \in {sql.project, None, NewProject(i)}
              \/ /\ At(i, "update") /\ sql.project # None
                 /\ sql'.project = [seen[i] EXCEPT ![Field(i)] = i]
           /\ sql'.project = None /\ sql.project # None /\ ~At(i, "update")
                  => At(i, "delete_project")
           /\ At(i, "update") => UpdateProject(i)
           /\ At(i, "update") /\ sql.project = None => sql'.project = None
<1>0. sql \in Databases /\ plan[i] \in Seq(Statements) /\ i \in Ids
  BY StoreAssumption DEF TypeOK, Ids, Ops
<1>1. NewProject(i) # None
  BY <1>0, RowTypes, NoneIsNoRow
<1> USE <1>0, <1>1 DEF Write, At, Databases
<1>2. CASE InsertProject(i)
  BY <1>2 DEF InsertProject
<1>3. CASE EnsureProject(i)
  BY <1>3 DEF EnsureProject, SqlEnsureProject
<1>4. CASE UpdateProject(i)
  BY <1>4 DEF UpdateProject, SqlUpdateProject, Field
<1>5. CASE DeleteProject(i)
  BY <1>5 DEF DeleteProject, SqlDeleteProject
<1>6. CASE SetSecret(i) \/ InsertTrigger(i)
  BY <1>6 DEF SetSecret, InsertTrigger, MemCreateTrigger
<1>7. CASE UpdateSqlTrigger(i) \/ DeleteSqlTrigger(i)
  BY <1>7 DEF UpdateSqlTrigger, DeleteSqlTrigger, UpdateTrigger
<1>8. CASE InsertWorkflow(i) \/ UpsertWorkflow(i)
  BY <1>8 DEF InsertWorkflow, UpsertWorkflow, MemCreateWorkflow, SqlUpsertWorkflow
<1>9. CASE SetStatus(i) \/ DeleteSqlWorkflow(i)
  BY <1>9 DEF SetStatus, DeleteSqlWorkflow, SetWorkflowStatus, SqlDeleteWorkflow
<1>10. CASE InsertRun(i)
  BY <1>10 DEF InsertRun, PutRun
<1> QED
  BY <1>2, <1>3, <1>4, <1>5, <1>6, <1>7, <1>8, <1>9, <1>10 DEF SqlWrite

LEMMA MemoryTables ==
    ASSUME NEW db \in Databases, NEW i \in Ops
    PROVE  /\ MemCreateProject(db, i).project = NewProject(i)
           /\ MemEnsureProject(db, i).project \in {db.project, NewProject(i)}
           /\ \A f : \/ db.project = None /\ MemUpdateProject(db, i, f).project = None
                     \/ /\ db.project # None
                        /\ MemUpdateProject(db, i, f).project = [db.project EXCEPT ![f] = i]
           /\ MemDeleteProject(db).project = None
           /\ MemSetSecret(db, i).project = db.project
           /\ MemCreateTrigger(db, i).project = db.project
           /\ \A id : /\ UpdateTrigger(db, i, id).project = db.project
                      /\ DeleteTrigger(db, id).project = db.project
           /\ \A g, m : /\ MemCreateWorkflow(db, g, m).project = db.project
                        /\ MemUpsertWorkflow(db, g, m).project = db.project
           /\ \A s : SetWorkflowStatus(db, s).project = db.project
           /\ MemDeleteWorkflow(db).project = db.project
           /\ \A r : PutRun(db, r).project = db.project
  BY DEF MemCreateProject, MemEnsureProject, MemUpdateProject, MemDeleteProject, MemSetSecret,
         MemCreateTrigger, UpdateTrigger, DeleteTrigger, MemCreateWorkflow, MemUpsertWorkflow,
         SetWorkflowStatus, MemDeleteWorkflow, PutRun, Databases

(* A project after a statement of request i: the same, gone, a new one, or *)
(* one that got a field from it.                                           *)
Updated(p, q, i) ==
    \/ q \in {p, None, NewProject(i)}
    \/ p # None /\ \E f \in {"name", "configs"} : q = [p EXCEPT ![f] = i]

LEMMA EffectUpdates ==
    ASSUME NEW i \in Ops, TypeOK, req[i].kind \in Kinds
    PROVE  /\ Updated(mem.project, MemEffect(i).project, i)
           /\ req[i].kind \in Patches =>
                 MemEffect(i) = MemUpdateProject(mem, i, Field(i))
<1> DEFINE k == req[i].kind
<1>1. mem \in Databases
  BY DEF TypeOK
<1>2. k \in Patches => MemEffect(i) = MemUpdateProject(mem, i, Field(i))
  BY DEF MemEffect, Field, Patches, Runs
<1>3. CASE k \in Patches
  <2>1. Field(i) \in {"name", "configs"}
    BY DEF Field
  <2> DEFINE new == MemUpdateProject(mem, i, Field(i)).project
  <2>2. \/ mem.project = None /\ new = None
        \/ mem.project # None /\ new = [mem.project EXCEPT ![Field(i)] = i]
    BY <1>1 DEF MemUpdateProject, Databases
  <2>3. MemEffect(i).project = new
    BY <1>2, <1>3
  <2> HIDE DEF new
  <2>4. Updated(mem.project, new, i)
    BY <2>1, <2>2 DEF Updated
  <2> QED
    BY <1>2, <2>3, <2>4
<1>4. CASE k = "CreateProject"
  <2>1. MemEffect(i) = MemCreateProject(mem, i)
    BY <1>4 DEF MemEffect, Runs
  <2> QED
    BY <1>1, <1>4, <2>1, MemoryTables DEF Updated, Patches
<1>5. CASE k = "DeleteProject"
  <2>1. MemEffect(i) = MemDeleteProject(mem)
    BY <1>5 DEF MemEffect, Runs
  <2> QED
    BY <1>1, <1>5, <2>1, MemoryTables DEF Updated, Patches
<1>6. CASE k \in {"PutSecret", "CreateTrigger", "PatchTrigger", "DeleteTrigger"}
  <2>1. MemEffect(i) \in {MemSetSecret(mem, i), MemCreateTrigger(mem, i),
                          UpdateTrigger(mem, i, Target(i)), DeleteTrigger(mem, Target(i))}
    BY <1>6 DEF MemEffect, Runs
  <2>2. MemEffect(i).project = mem.project
    BY <1>1, <2>1, MemoryTables
  <2> QED
    BY <1>6, <2>2 DEF Updated, Patches
<1>7. CASE k \in {"CreateWorkflow", "PublishWorkflow", "ArchiveWorkflow", "DeleteWorkflow",
                  "GetProject"} \cup Runs
  <2>1. MemEffect(i) \in {MemCreateWorkflow(mem, req[i].graph, req[i].metadata),
                          SetWorkflowStatus(mem, Status(i)), MemDeleteWorkflow(mem),
                          PutRun(mem, Run(i)), mem}
    BY <1>7 DEF MemEffect, Runs
  <2>2. MemEffect(i).project = mem.project
    BY <1>1, <2>1, MemoryTables
  <2> QED
    BY <1>7, <2>2 DEF Updated, Patches, Runs
<1> QED
  BY <1>2, <1>3, <1>4, <1>5, <1>6, <1>7 DEF Kinds, Patches, Runs

LEMMA MemProject ==
    ASSUME NEW i \in Ops, TypeOK, Handlers, HasRead, HasLoaded, MemoryStep(i)
    PROVE  Updated(mem.project, mem'.project, i)
<1>1. /\ mem \in Databases /\ i \in Ids /\ req[i].graph \in Graphs
      /\ req[i].metadata \in Metadata /\ plan[i] \in Seq(Statements)
      /\ MemEnsureProject(mem, i) \in Databases
  BY HeldTypes, ProjectTableTypes DEF TypeOK
<1>2. \A db : db.project \in {mem.project, NewProject(i)} => Updated(mem.project, db.project, i)
  BY DEF Updated
<1>3. MemEnsureProject(mem, i).project \in {mem.project, NewProject(i)}
  BY <1>1, MemoryTables
<1>4. CASE Whole(i)
  <2> DEFINE k  == req[i].kind
             db == IF k # "RunProject" THEN mem
                   ELSE MemUpsertWorkflow(MemEnsureProject(mem, i), req[i].graph, req[i].metadata)
             run == [id |-> i, version |-> db.workflow.version, graph |-> db.workflow.graph,
                     owned |-> TRUE]
  <2>1. db \in Databases
    BY <1>1, WorkflowTableTypes
  <2>2. db.project \in {mem.project, NewProject(i)}
    BY <1>1, <1>3, MemoryTables
  <2>3. k \in Kinds
    BY <1>1, <1>4, AtFacts DEF Whole
  <2> HIDE DEF db, run
  <2>4. mem' \in {db, PutRun(db, run), UpdateTrigger(mem, i, req[i].trigger),
                  DeleteTrigger(mem, req[i].trigger), MemEffect(i)}
    BY <1>4 DEF Whole, db, run
  <2>5. CASE mem' = MemEffect(i)
    BY <2>3, <2>5, EffectUpdates
  <2>6. CASE mem' \in {db, PutRun(db, run)}
    BY <1>2, <2>1, <2>2, <2>6, MemoryTables
  <2>7. CASE mem' \in {UpdateTrigger(mem, i, req[i].trigger), DeleteTrigger(mem, req[i].trigger)}
    BY <1>1, <1>2, <2>7, MemoryTables
  <2> QED
    BY <2>4, <2>5, <2>6, <2>7
<1>5. CASE DualMemory(i)
  <2>1. mem' \in {mem, MemEffect(i)} /\ req[i].kind \in Kinds
    BY <1>1, <1>5, AtFacts DEF DualMemory, InMemory
  <2> QED
    BY <1>2, <2>1, EffectUpdates
<1>6. CASE DualMemoryEnsure(i)
  BY <1>2, <1>3, <1>6 DEF DualMemoryEnsure, InMemory
<1>7. CASE DualMemoryUpsert(i)
  <2>1. mem' \in {MemUpsertWorkflow(mem, req[i].graph, req[i].metadata),
                  MemUpsertWorkflow(MemEnsureProject(mem, i), req[i].graph, req[i].metadata)}
    BY <1>7 DEF DualMemoryUpsert, InMemory
  <2>2. mem'.project \in {mem.project, NewProject(i)}
    BY <1>1, <1>3, <2>1, MemoryTables
  <2> QED
    BY <1>2, <2>2
<1> QED
  BY <1>4, <1>5, <1>6, <1>7 DEF MemoryStep

LEMMA CacheHonestStep ==
    ASSUME Base, CacheHonest, Next
    PROVE  CacheHonest'
<1>0. TypeOK /\ Handlers /\ Arrivals /\ Onward
  BY Progress DEF Base
<1> SUFFICES ASSUME NoDeletion'
             PROVE  /\ cache' # None => sql'.project # None
                    /\ \A j \in Ops : seen'[j] # None => sql'.project # None
  BY DEF CacheHonest
<1>1. NoDeletion
  <2>1. \A j \in Ops : req'[j] # req[j] => plan[j] = Unstarted
    BY <1>0 DEF Onward
  <2>2. \A j \in Ops : plan[j] = Unstarted => req[j].kind # "DeleteProject"
    BY <1>0 DEF Arrivals, NoRequest
  <2> QED
    BY <2>1, <2>2 DEF NoDeletion
<1>2. /\ cache # None => sql.project # None
      /\ \A j \in Ops : seen[j] # None => sql.project # None
  BY <1>1 DEF CacheHonest
<1>3. ASSUME NEW i \in Ops, SqlRead(i)
      PROVE  /\ cache' # None => sql'.project # None
             /\ \A j \in Ops : seen'[j] # None => sql'.project # None
  <2>1. sql' = sql
    BY <1>3, Frames
  <2>2. cache' \in {cache, None, seen[i]}
    BY <1>3 DEF SqlRead, FindCached, FindMissed, FindRow, FillCache, Invalidate,
                CheckVacant, CheckExists, CountRuns, Load, AnswerFromMemory, Decide
  <2>3. \A j \in Ops : seen'[j] \in {seen[j], None, cache, sql.project}
    BY <1>0, <1>3 DEF SqlRead, FindCached, FindMissed, FindRow, FillCache, Invalidate, Keep,
                      CheckVacant, CheckExists, CountRuns, Load, AnswerFromMemory, Decide, TypeOK
  <2> QED
    BY <1>2, <2>1, <2>2, <2>3
<1>4. ASSUME UNCHANGED <<cache, seen>>, sql.project # None => sql'.project # None
      PROVE  /\ cache' # None => sql'.project # None
             /\ \A j \in Ops : seen'[j] # None => sql'.project # None
  BY <1>2, <1>4
<1>5. ASSUME NEW i \in Ops, SqlWrite(i), Stepped(i)
      PROVE  sql.project # None => sql'.project # None
  <2>1. plan[i] \in Seq(Statements)
    BY <1>0 DEF TypeOK
  <2>2. CASE At(i, "update")
    <3>1. seen[i] \in Projects
      BY <2>2, HeldTypes DEF Base
    <3>2. Field(i) \in {"name", "configs"} /\ i \in Ids
      BY StoreAssumption DEF Field, Ids, Ops
    <3>3. [seen[i] EXCEPT ![Field(i)] = i] \in Projects
      BY <3>1, <3>2 DEF Projects
    <3>4. UpdateProject(i)
      BY <1>0, <1>5, <2>2, SqlProject
    <3>5. sql' = SqlUpdateProject(sql, seen[i], i, Field(i))
      BY <3>4 DEF UpdateProject, Write, Field
    <3>6. sql.project # None => sql'.project = [seen[i] EXCEPT ![Field(i)] = i]
      BY <1>0, <3>5 DEF SqlUpdateProject, TypeOK, Databases
    <3> QED
      BY <3>3, <3>6, NoneIsNoRow
  <2>3. ~At(i, "delete_project")
    BY <1>0, <1>1, <2>1, AtFacts DEF Fits, NoDeletion
  <2> QED
    BY <1>0, <1>5, <2>2, <2>3, SqlProject
<1>6. \A i \in Ops : Arrive(i) \/ Raise(i) => UNCHANGED <<sql, cache, seen>>
  BY DEF Arrive, Raise
<1>7. Restart => UNCHANGED <<sql, cache, seen>>
  BY DEF Restart
<1> QED
  BY <1>0, <1>3, <1>4, <1>5, <1>6, <1>7, StepCases, Frames

-----------------------------------------------------------------------------
LEMMA SinceFacts ==
    ASSUME NEW i \in Ops, NEW h \in Ops, h >= i, NEW f \in {"name", "configs"}
    PROVE  /\ Since(NewProject(h), f, i)
           /\ \A p \in Projects : /\ Since([p EXCEPT ![f] = h], f, i)
                                  /\ \A g \in {"name", "configs"} :
                                        Since(p, f, i) => Since([p EXCEPT ![g] = h], f, i)
<1>1. h \in Ids /\ i \in Nat /\ h \in Nat
  BY StoreAssumption DEF Ids, Ops
<1>2. Since(NewProject(h), f, i)
  BY <1>1 DEF Since, NewProject
<1>3. ASSUME NEW p \in Projects
      PROVE  /\ Since([p EXCEPT ![f] = h], f, i)
             /\ \A g \in {"name", "configs"} : Since(p, f, i) => Since([p EXCEPT ![g] = h], f, i)
  <2>1. p # None
    BY <1>3, NoneIsNoRow
  <2> QED
    BY <1>1, <2>1 DEF Since, Projects
<1> QED
  BY <1>2, <1>3

LEMMA SinceUpdated ==
    ASSUME NEW i \in Ops, NEW h \in Ops, h >= i, NEW f \in {"name", "configs"},
           NEW p \in Projects \cup {None}, NEW q, Updated(p, q, h), Since(p, f, i)
    PROVE  Since(q, f, i)
<1>1. CASE q \in {p, None, NewProject(h)}
  BY <1>1, SinceFacts DEF Since
<1>2. CASE p # None /\ \E g \in {"name", "configs"} : q = [p EXCEPT ![g] = h]
  <2>1. p \in Projects
    BY <1>2
  <2>2. PICK g \in {"name", "configs"} : q = [p EXCEPT ![g] = h]
    BY <1>2
  <2>3. Since([p EXCEPT ![g] = h], f, i)
    BY <2>1, SinceFacts
  <2> QED
    BY <2>2, <2>3
<1> QED
  BY <1>1, <1>2 DEF Updated

(* The steps of a PATCH, by the statement the handler is at. *)
LEMMA MakesPatch ==
    ASSUME NEW i \in Ops, SqlRead(i) \/ SqlWrite(i) \/ MemoryStep(i)
    PROVE  /\ At(i, "whole") => Whole(i)
           /\ At(i, "memory") => DualMemory(i)
           /\ At(i, "update") => SqlWrite(i)
           /\ At(i, "find") => FindCached(i) \/ FindMissed(i)
           /\ At(i, "invalidate") => Invalidate(i)
           /\ At(i, "fill") => FillCache(i)
           /\ ~At(i, "find") /\ ~At(i, "fill") /\ ~At(i, "invalidate") => cache' = cache
<1> USE DEF At
<1>1. CASE SqlRead(i)
  BY <1>1 DEF SqlRead, FindCached, FindMissed, FindRow, FillCache, Invalidate,
              CheckVacant, CheckExists, CountRuns, Load, AnswerFromMemory, Decide
<1>2. CASE SqlWrite(i)
  BY <1>2 DEF SqlWrite, InsertProject, EnsureProject, UpdateProject, DeleteProject, SetSecret,
              InsertTrigger, UpdateSqlTrigger, DeleteSqlTrigger, InsertWorkflow,
              UpsertWorkflow, SetStatus, DeleteSqlWorkflow, InsertRun, Write
<1>3. CASE MemoryStep(i)
  BY <1>3 DEF MemoryStep, Whole, DualMemory, DualMemoryEnsure, DualMemoryUpsert, InMemory
<1> QED
  BY <1>1, <1>2, <1>3

(* A step of a PATCH gets past a statement by making it, by dropping the   *)
(* invalidation that follows an update, or by finding no project.          *)
LEMMA GetsPast ==
    ASSUME NEW k \in Patches, NEW p, NEW q, NEW g, PlanOK(mode, k, p), p # <<>>,
           Follows(k, p, q), Past(q, g), ~Past(p, g), ~Over(p)
    PROVE  p[1] \in g \/ LastOnly(p, q) \/ (p[1] = "update" /\ "invalidate" \in g)
<1>1. p \in Seq(Statements) /\ 1 \in 1 .. Len(p)
  BY DEF PlanOK
<1>2. PICK n \in 1 .. Len(p) : p[n] \in g
  BY DEF Past
<1>3. ~Over(q)
  BY DEF Past
<1>4. ASSUME NEW d \in Nat, Rest(p, q, d),
             \A m \in 2 .. d : p[m] \in {"ensure", "invalidate"},
             d > 1 => p[1] \in {"update", "update_trigger"} \/ p[2] = "ensure"
      PROVE  p[1] \in g \/ (p[1] = "update" /\ "invalidate" \in g)
  <2>1. CASE n > d
    <3>1. n - d \in 1 .. Len(p) - d /\ n - d \in 1 .. Len(q) /\ q[n - d] = p[n]
      BY <1>1, <1>4, <2>1 DEF Rest
    <3> QED
      BY <1>2, <3>1 DEF Past
  <2>2. CASE n = 1
    BY <1>2, <2>2
  <2>3. CASE n # 1 /\ n <= d
    <3>1. n \in 2 .. d /\ d > 1 /\ 2 \in 1 .. Len(p)
      BY <1>1, <1>4, <2>3 DEF Rest
    <3>2. p[2] # "ensure" /\ p[n] # "ensure" /\ p[1] # "update_trigger"
      BY <1>1, <3>1 DEF PlanOK, Fits, Patches
    <3> QED
      BY <1>2, <1>4, <3>1, <3>2
  <2> QED
    BY <1>1, <1>4, <2>1, <2>2, <2>3
<1>5. CASE Resumed(p, q)
  BY <1>1, <1>2, <1>5 DEF Resumed, Past
<1> QED
  BY <1>3, <1>4, <1>5 DEF Follows

(* A PATCH that overlaps nothing runs when all before it have ended, and   *)
(* nothing after it has begun.                                             *)
LEMMA RunsAlone ==
    ASSUME NEW i \in Ops, TypeOK, Handlers, Arrivals, Alone(i)
    PROVE  /\ \A h \in Ops : Active(h) => h = i \/ (h > i /\ ~Active(i))
           /\ Active(i) => \A h \in Ops : h > i => /\ plan[h] = Unstarted
                                                   /\ seen[h] = None /\ req[h] = NoRequest
<1>1. \A h \in Ops : h \in Nat /\ h \in Ids
  BY StoreAssumption DEF Ops, Ids
<1>2. \A h \in Ops : Active(h) => plan[h] # Unstarted
  BY DEF Active, Ends
<1>3. plan[i] # Unstarted /\ overlap[i] = {}
  BY DEF Alone
<1>4. ASSUME NEW h \in Ops, Active(h), h # i
      PROVE  h > i /\ ~Active(i)
  <2>1. ~(h < i)
    BY <1>2, <1>3, <1>4 DEF Arrivals
  <2>2. h > i
    BY <1>1, <1>4, <2>1
  <2>3. ~Active(i)
    BY <1>2, <1>3, <1>4, <2>2 DEF Arrivals
  <2> QED
    BY <2>2, <2>3
<1>5. ASSUME Active(i), NEW h \in Ops, h > i
      PROVE  plan[h] = Unstarted /\ seen[h] = None /\ req[h] = NoRequest
  <2>1. plan[h] = Unstarted
    BY <1>1, <1>3, <1>5 DEF Arrivals
  <2> QED
    BY <2>1 DEF Arrivals
<1> QED
  BY <1>4, <1>5

LEMMA PatchArrives ==
    ASSUME NEW i \in Ops, Base, Arrive(i), Alone(i)'
    PROVE  PatchLasts(i)'
<1> DEFINE q == plan'[i]
<1>1. /\ req'[i].kind = script[i] /\ PlanOK(mode, script[i], q) /\ InTurn(mode, script[i], q)
  BY ArriveFacts DEF Base
<1>2. script[i] \in Patches /\ mode' = mode
  BY <1>1 DEF Alone, Arrive
<1>3. q \in Seq(Statements) /\ \E n \in 1 .. Len(q) : q[n] = Applies(mode)
  BY <1>1, <1>2 DEF InTurn, PlanOK
<1>4. ~Past(q, {Applies(mode)})
  BY <1>3 DEF Past
<1>5. ReadsSql => ~Past(q, {"update", "invalidate"})
  BY <1>3 DEF Past, Applies, ReadsSql
<1>6. ~At(i, "row")'
  BY <1>1, <1>3 DEF At, InTurn
<1>7. ReadsSql' = ReadsSql /\ Applies(mode') = Applies(mode)
  BY <1>2 DEF ReadsSql
<1> QED
  BY <1>4, <1>5, <1>6, <1>7 DEF PatchLasts

(* Where a step leaves alone what a finished or failing request has read   *)
(* and written.                                                            *)
LEMMA PatchUntouched ==
    ASSUME NEW i \in Ops, PatchLasts(i), mode' = mode, req'[i] = req[i],
           plan'[i] = plan[i] \/ plan'[i] = Failed,
           UNCHANGED <<sql, cache, seen>>, mem' = mem \/ mem' = NoRows
    PROVE  PatchLasts(i)'
<1>1. /\ ReadsSql' = ReadsSql /\ Applies(mode') = Applies(mode) /\ Field(i)' = Field(i)
  BY DEF ReadsSql, Field
<1>2. Since(Reader'.project, Field(i), i) \/ (Reader' = Reader)
  BY <1>1 DEF Reader, NoRows, Since
<1>3. CASE plan'[i] = plan[i]
  <2>1. At(i, "row")' = At(i, "row") /\ At(i, "fill")' = At(i, "fill")
    BY <1>3 DEF At
  <2> QED
    BY <1>1, <1>2, <1>3, <2>1 DEF PatchLasts
<1>4. CASE plan'[i] = Failed
  <2>1. \A g : ~Past(plan'[i], g)
    BY <1>4, AllOver DEF Past
  <2>2. ~At(i, "row")'
    BY <1>4 DEF At, Failed
  <2> QED
    BY <1>1, <2>1, <2>2 DEF PatchLasts
<1> QED
  BY <1>3, <1>4

(* The step of a later request leaves the field to what it or the PATCH    *)
(* gave: it writes the record it has read, and it read it afterwards.      *)
LEMMA LaterStep ==
    ASSUME NEW i \in Ops, NEW h \in Ops, h > i, Base, PatchLasts(i), ~Active(i), Stepped(h),
           SqlRead(h) \/ SqlWrite(h) \/ MemoryStep(h)
    PROVE  PatchLasts(i)'
<1> DEFINE f == Field(i)
<1>0. /\ TypeOK /\ Handlers /\ HasRead /\ HasLoaded
      /\ h # i /\ h >= i /\ f \in {"name", "configs"}
      /\ sql.project \in Projects \cup {None} /\ mem.project \in Projects \cup {None}
      /\ seen[h] \in Projects \cup {None}
  BY StoreAssumption DEF Base, Ops, Field, TypeOK, Databases
<1>1. /\ ReadsSql' = ReadsSql /\ Applies(mode') = Applies(mode) /\ Field(i)' = f
      /\ plan'[i] = plan[i]
  BY <1>0 DEF ReadsSql, Field, Stepped, TypeOK
<1>2. ~At(i, "row") /\ ~At(i, "row")' /\ ~At(i, "fill")'
  BY <1>1 DEF At, Active, Ends, Unstarted, Refused, Failed
<1>3. SUFFICES ASSUME \E g : Past(plan[i], g)
               PROVE  /\ Since(Reader'.project, f, i)
                      /\ ReadsSql => /\ Since(cache', f, i)
                                     /\ \A j \in Ops : j > i => Since(seen'[j], f, i)
  BY <1>0, <1>1, <1>2 DEF PatchLasts
<1>4. plan[i] \in {<<>>, Unstarted}
  BY <1>3, AllOver DEF Past, Active, Ends
<1>5. Past(plan[i], {Applies(mode)}) /\ Past(plan[i], {"update", "invalidate"})
  BY <1>4 DEF Past, Over, Applies, Unstarted
<1>6. /\ Since(Reader.project, f, i)
      /\ ReadsSql => Since(cache, f, i) /\ \A j \in Ops : j > i => Since(seen[j], f, i)
  BY <1>5 DEF PatchLasts
<1>7. CASE SqlRead(h)
  <2>1. Reader' = Reader
    BY <1>1, <1>7, Frames DEF Reader
  <2>2. cache' \in {cache, None, seen[h]}
    BY <1>7 DEF SqlRead, FindCached, FindMissed, FindRow, FillCache, Invalidate,
                CheckVacant, CheckExists, CountRuns, Load, AnswerFromMemory, Decide
  <2>3. \A j \in Ops : seen'[j] \in {seen[j], None, cache, sql.project}
    BY <1>0, <1>7 DEF SqlRead, FindCached, FindMissed, FindRow, FillCache, Invalidate, Keep,
                      CheckVacant, CheckExists, CountRuns, Load, AnswerFromMemory, Decide, TypeOK
  <2>4. Since(None, f, i)
    BY DEF Since
  <2>5. ReadsSql => Reader = sql
    BY DEF Reader
  <2> QED
    BY <1>6, <2>1, <2>2, <2>3, <2>4, <2>5
<1>8. CASE SqlWrite(h)
  <2>1. UNCHANGED <<mem, cache, seen>>
    BY <1>8, Frames
  <2>2. CASE ReadsSql
    <3>1. Since(sql.project, f, i) /\ Since(seen[h], f, i)
      BY <1>6, <2>2 DEF Reader
    <3>2. ASSUME sql'.project \in {sql.project, None, NewProject(h)}
          PROVE  Since(sql'.project, f, i)
      <4>1. Updated(sql.project, sql'.project, h)
        BY <3>2 DEF Updated
      <4> QED
        BY <1>0, <3>1, <4>1, SinceUpdated
    <3>3. ASSUME At(h, "update"), sql'.project = [seen[h] EXCEPT ![Field(h)] = h]
          PROVE  Since(sql'.project, f, i)
      <4>1. seen[h] \in Projects /\ Field(h) \in {"name", "configs"}
        BY <1>0, <3>3, HeldTypes DEF Field
      <4>2. Since([seen[h] EXCEPT ![Field(h)] = h], f, i)
        BY <1>0, <3>1, <4>1, SinceFacts
      <4> QED
        BY <3>3, <4>2
    <3>4. Since(sql'.project, f, i)
      BY <1>0, <1>8, <3>2, <3>3, SqlProject
    <3> QED
      BY <1>1, <1>6, <2>1, <2>2, <3>4 DEF Reader
  <2> QED
    BY <1>1, <1>6, <2>1, <2>2 DEF Reader
<1>9. CASE MemoryStep(h)
  <2>1. UNCHANGED <<sql, cache, seen>>
    BY <1>9, Frames
  <2>2. CASE ~ReadsSql
    <3>1. Since(mem.project, f, i)
      BY <1>6, <2>2 DEF Reader
    <3>2. Updated(mem.project, mem'.project, h)
      BY <1>0, <1>9, MemProject
    <3>3. Since(mem'.project, f, i)
      BY <1>0, <3>1, <3>2, SinceUpdated
    <3> QED
      BY <1>1, <2>1, <2>2, <3>3 DEF Reader
  <2> QED
    BY <1>1, <1>6, <2>1, <2>2 DEF Reader
<1> QED
  BY <1>7, <1>8, <1>9

(* The statement that gives the reader the field.                          *)
LEMMA PatchApplies ==
    ASSUME NEW i \in Ops, Base, Alone(i), PatchLasts(i), Stepped(i),
           SqlRead(i) \/ SqlWrite(i) \/ MemoryStep(i),
           Past(plan'[i], {Applies(mode)})
    PROVE  Since(Reader'.project, Field(i), i)
<1> DEFINE f == Field(i)
           p == plan[i]
           q == plan'[i]
           k == req[i].kind
<1>0. /\ TypeOK /\ Handlers /\ HasRead /\ HasLoaded /\ k \in Patches
      /\ i >= i /\ f \in {"name", "configs"} /\ mode \in Modes
      /\ sql.project \in Projects \cup {None} /\ mem.project \in Projects \cup {None}
  BY StoreAssumption DEF Base, Ops, Field, TypeOK, Databases, Alone
<1>1. /\ p \in Seq(Statements) /\ p # <<>> /\ PlanOK(mode, k, p) /\ Follows(k, p, q)
      /\ 1 \in 1 .. Len(p) /\ mode' = mode /\ k \in Kinds
  BY DEF Stepped, PlanOK
<1>2. ReadsSql' = ReadsSql /\ (ReadsSql => Applies(mode) = "update")
  BY <1>1 DEF ReadsSql, Applies
<1>3. ~Over(p)
  BY <1>1 DEF Stepped, Active, Ends, Over, Refused, Failed
<1>4. CASE Past(p, {Applies(mode)})
  <2>1. Since(Reader.project, f, i)
    BY <1>4 DEF PatchLasts
  <2>2. CASE SqlRead(i)
    BY <1>2, <2>1, <2>2, Frames DEF Reader
  <2>3. CASE SqlWrite(i)
    <3>1. CASE ReadsSql
      <4>1. ~At(i, "update")
        BY <1>1, <1>2, <1>4, <3>1 DEF At, Past
      <4>2. sql'.project \in {sql.project, None, NewProject(i)}
        BY <1>0, <2>3, <4>1, SqlProject
      <4>3. Since(sql.project, f, i)
        BY <2>1, <3>1 DEF Reader
      <4>4. Since(sql'.project, f, i)
        BY <1>0, <4>2, <4>3, SinceUpdated DEF Updated
      <4> QED
        BY <1>2, <3>1, <4>4 DEF Reader
    <3> QED
      BY <1>2, <2>1, <2>3, <3>1, Frames DEF Reader
  <2>4. CASE MemoryStep(i)
    <3>1. CASE ~ReadsSql
      <4>1. Updated(mem.project, mem'.project, i) /\ Since(mem.project, f, i)
        BY <1>0, <2>1, <2>4, <3>1, MemProject DEF Reader
      <4>2. Since(mem'.project, f, i)
        BY <1>0, <4>1, SinceUpdated
      <4> QED
        BY <1>2, <3>1, <4>2 DEF Reader
    <3> QED
      BY <1>2, <2>1, <2>4, <3>1, Frames DEF Reader
  <2> QED
    BY <2>2, <2>3, <2>4
<1>5. CASE p[1] = "update" /\ ReadsSql
  <2>1. At(i, "update") /\ SqlWrite(i)
    BY <1>1, <1>5, MakesPatch DEF At
  <2>2. UpdateProject(i) /\ seen[i] \in Projects
    BY <1>0, <2>1, SqlProject, HeldTypes
  <2>3. sql.project = None => sql'.project = None
    BY <1>0, <2>1, SqlProject
  <2>4. sql.project # None => sql'.project = [seen[i] EXCEPT ![f] = i]
    BY <1>0, <2>2 DEF UpdateProject, Write, SqlUpdateProject, Field, TypeOK, Databases
  <2>5. Since([seen[i] EXCEPT ![f] = i], f, i) /\ Since(None, f, i)
    BY <1>0, <2>2, SinceFacts DEF Since
  <2> QED
    BY <1>2, <1>5, <2>3, <2>4, <2>5 DEF Reader
<1>6. CASE p[1] \in {"memory", "whole"} /\ ~ReadsSql
  <2>1. CASE mem' = MemEffect(i)
    <3>1. mem'.project = MemUpdateProject(mem, i, f).project
      BY <1>0, <1>1, <2>1, EffectUpdates
    <3>2. mem \in Databases
      BY <1>0 DEF TypeOK
    <3>3. \/ mem.project = None /\ MemUpdateProject(mem, i, f).project = None
          \/ /\ mem.project # None
             /\ MemUpdateProject(mem, i, f).project = [mem.project EXCEPT ![f] = i]
      BY <3>2 DEF MemUpdateProject, Databases
    <3>4. Since(mem'.project, f, i)
      <4>1. CASE mem.project = None
        BY <3>1, <3>3, <4>1 DEF Since
      <4>2. CASE mem.project # None
        <5>1. mem.project \in Projects
          BY <1>0, <4>2
        <5>2. Since([mem.project EXCEPT ![f] = i], f, i)
          BY <1>0, <5>1, SinceFacts
        <5> QED
          BY <3>1, <3>3, <4>2, <5>2
      <4> QED
        BY <4>1, <4>2
    <3> QED
      BY <1>2, <1>6, <3>4 DEF Reader
  <2>2. CASE q = Refused
    BY <2>2, AllOver DEF Past
  <2>3. mem' = MemEffect(i) \/ q = Refused
    <3>1. CASE p[1] = "memory"
      <4>1. DualMemory(i)
        BY <1>1, <3>1, MakesPatch DEF At
      <4> QED
        BY <1>0, <4>1 DEF DualMemory, InMemory, GoOn, TypeOK
    <3>2. CASE p[1] = "whole"
      <4>1. Whole(i)
        BY <1>1, <3>2, MakesPatch DEF At
      <4> QED
        BY <1>0, <4>1 DEF Whole, GoOn, TypeOK, Patches, Runs
    <3> QED
      BY <1>6, <3>1, <3>2
  <2> QED
    BY <2>1, <2>2, <2>3
<1>7. CASE LastOnly(p, q) /\ ~Past(p, {Applies(mode)})
  <2>1. p[1] = "row" /\ At(i, "row")
    BY <1>1, <1>7 DEF LastOnly, At
  <2>2. PICK n \in 1 .. Len(p) : p[n] = Applies(mode)
    BY <1>3, <1>7 DEF Past
  <2>3. ReadsSql
    <3>1. p[1] # "whole" => mode # "memory"
      BY <1>1, <2>1 DEF PlanOK, Fits
    <3>2. p[n] = "memory" => n = 1
      BY <1>0, <1>1 DEF PlanOK
    <3> QED
      BY <1>0, <2>1, <2>2, <3>1, <3>2, ModeFacts DEF ReadsSql, Applies
  <2>4. FindRow(i)
    BY <2>1, Makes
  <2>5. sql.project = None /\ sql' = sql
    <3>1. ASSUME sql.project # None PROVE FALSE
      <4>1. q = <<"fill">> \o Tail(p) /\ Head(p) = "row"
        BY <1>0, <2>1, <2>4, <3>1 DEF FindRow, GoOn, TypeOK, At
      <4>2. Len(q) = Len(p)
        BY <1>1, <4>1, ResumeFollows DEF Resumed
      <4> QED
        BY <1>7, <4>2 DEF LastOnly
    <3> QED
      BY <2>4, <3>1 DEF FindRow
  <2> QED
    BY <1>2, <2>3, <2>5 DEF Reader, Since
<1>8. p[1] = Applies(mode) \/ LastOnly(p, q) \/ Past(p, {Applies(mode)})
  <2>1. "invalidate" \notin {Applies(mode)}
    BY DEF Applies
  <2> QED
    BY <1>0, <1>1, <1>3, <2>1, GetsPast
<1>9. p[1] = Applies(mode) => (p[1] = "update" /\ ReadsSql) \/ (p[1] \in {"memory", "whole"} /\ ~ReadsSql)
  BY <1>0, ModeFacts DEF Applies, ReadsSql
<1> QED
  BY <1>4, <1>5, <1>6, <1>7, <1>8, <1>9

(* The step of the PATCH itself: past its update and the invalidation that *)
(* follows, the cache entry has the field too.                             *)
LEMMA OwnStep ==
    ASSUME NEW i \in Ops, Base, CacheHonest, Alone(i), PatchLasts(i), Stepped(i),
           SqlRead(i) \/ SqlWrite(i) \/ MemoryStep(i)
    PROVE  PatchLasts(i)'
<1> DEFINE f == Field(i)
           p == plan[i]
           q == plan'[i]
           k == req[i].kind
<1>0. /\ TypeOK /\ Handlers /\ Arrivals /\ HasRead /\ HasLoaded /\ k \in Patches
      /\ \A j \in Ops : j > i => j # i
  BY StoreAssumption DEF Base, Ops, Alone
<1>1. /\ p \in Seq(Statements) /\ p # <<>> /\ PlanOK(mode, k, p) /\ Follows(k, p, q)
      /\ 1 \in 1 .. Len(p) /\ mode' = mode /\ k \in Kinds /\ Active(i)
  BY DEF Stepped, PlanOK
<1>2. ReadsSql' = ReadsSql /\ Applies(mode') = Applies(mode) /\ Field(i)' = f
  BY <1>1 DEF ReadsSql, Field, Stepped
<1>3. ~Over(p)
  BY <1>1 DEF Stepped, Active, Ends, Over, Refused, Failed
<1>4. Past(q, {Applies(mode)}) => Since(Reader'.project, f, i)
  BY PatchApplies
<1>5. \A j \in Ops : j > i => seen'[j] = None /\ seen[j] = None
  BY <1>0, <1>1, OthersKeep, RunsAlone
<1>6. Since(None, f, i)
  BY DEF Since
<1>7. ASSUME At(i, "row")' PROVE cache' = None
  <2>1. At(i, "find") /\ Resumed(p, q)
    BY <1>0, <1>7, ReadOn
  <2>2. CASE FindCached(i)
    <3>1. Tail(p) # <<>> => Head(Tail(p)) # "ensure"
      <4>1. Tail(p) # <<>> => Len(p) > 1 /\ Head(Tail(p)) = p[2]
        BY <1>1
      <4> QED
        BY <1>0, <1>1, <4>1 DEF PlanOK, Fits, Patches
    <3>2. q = Tail(p)
      BY <1>0, <2>2, <3>1 DEF FindCached, Found, GoOn, TypeOK
    <3>3. Len(q) = Len(p) - 1 /\ Len(q) = Len(p)
      BY <1>1, <2>1, <3>2 DEF Resumed
    <3> QED
      BY <1>1, <3>3
  <2>3. CASE FindMissed(i)
    BY <2>3 DEF FindMissed
  <2> QED
    BY <2>1, <2>2, <2>3, MakesPatch
<1>8. ASSUME At(i, "fill")' PROVE At(i, "row") /\ Resumed(p, q) /\ seen'[i] = sql.project
  <2>1. At(i, "row") /\ Resumed(p, q)
    BY <1>0, <1>8, ReadOn
  <2> QED
    BY <1>0, <2>1, Makes DEF FindRow, TypeOK
<1>9. ASSUME ReadsSql, Past(q, {"update", "invalidate"})
      PROVE  /\ Since(cache', f, i)
             /\ At(i, "fill")' => Since(seen'[i], f, i)
  <2>1. CASE Past(p, {"update", "invalidate"})
    <3>1. Past(p, {"update"}) /\ Applies(mode) = "update"
      BY <1>9, <2>1 DEF Past, Applies, ReadsSql
    <3>2. Since(sql.project, f, i)
      BY <1>9, <3>1 DEF PatchLasts, Reader
    <3>3. Since(cache, f, i) /\ (At(i, "fill") => Since(seen[i], f, i))
      BY <1>9, <2>1 DEF PatchLasts
    <3>4. cache' \in {cache, None} \/ (At(i, "fill") /\ cache' = seen[i])
      BY MakesPatch DEF FindCached, FindMissed, FillCache, Invalidate
    <3> QED
      BY <1>6, <1>8, <3>2, <3>3, <3>4
  <2>2. CASE p[1] = "invalidate"
    <3>1. At(i, "invalidate") /\ ~At(i, "row")
      BY <1>1, <2>2 DEF At
    <3>2. cache' = None
      BY <3>1, MakesPatch DEF Invalidate
    <3> QED
      BY <1>6, <1>8, <3>1, <3>2
  <2>3. CASE p[1] = "update"
    <3>1. At(i, "update") /\ UpdateProject(i) /\ seen[i] \in Projects
      <4>1. At(i, "update")
        BY <1>1, <2>3 DEF At
      <4>2. SqlWrite(i)
        BY <4>1, MakesPatch
      <4>3. UpdateProject(i)
        BY <1>0, <4>1, <4>2, SqlProject
      <4> QED
        BY <1>0, <4>1, <4>3, HeldTypes
    <3>2. CASE sql.project # None
      <4>1. q = Tail(p)
        BY <1>0, <3>1, <3>2 DEF UpdateProject, Write, GoOn, TypeOK
      <4>2. Len(p) > 1 /\ p[2] = "invalidate"
        BY <1>1, <2>3 DEF PlanOK
      <4>3. 1 \in 1 .. Len(q) /\ q[1] = "invalidate"
        BY <1>1, <4>1, <4>2
      <4> QED
        BY <1>9, <4>3 DEF Past
    <3>3. CASE sql.project = None /\ ~Dual
      <4>1. q = Refused
        BY <1>0, <3>1, <3>3 DEF UpdateProject, Write, GoOn, TypeOK
      <4> QED
        BY <1>9, <4>1, AllOver DEF Past
    <3>4. CASE sql.project = None /\ Dual
      <4>1. mode = "dual_sql"
        BY <1>9, <3>4 DEF Dual, ReadsSql
      <4>2. \A j \in Ops : j > i => req[j] = NoRequest
        BY <1>0, <1>1, RunsAlone
      <4>3. \A j \in Ops : j < i \/ j = i \/ j > i
        BY StoreAssumption DEF Ops
      <4>4. NoDeletion
        BY <1>0, <4>1, <4>2, <4>3 DEF NoDeletion, Alone, NoRequest, Patches
      <4>5. sql.project # None
        BY <3>1, <4>4, NoneIsNoRow DEF CacheHonest
      <4> QED
        BY <3>4, <4>5
    <3> QED
      BY <3>2, <3>3, <3>4
  <2>4. CASE LastOnly(p, q)
    <3>1. At(i, "row")
      BY <1>1, <2>4 DEF LastOnly, At
    <3>2. cache = None /\ cache' = cache
      BY <1>9, <3>1, Makes DEF PatchLasts, FindRow
    <3>3. ~At(i, "fill")'
      BY <1>8, <2>4 DEF LastOnly, Resumed
    <3> QED
      BY <1>6, <3>2, <3>3
  <2>5. Past(p, {"update", "invalidate"}) \/ p[1] \in {"update", "invalidate"} \/ LastOnly(p, q)
    BY <1>0, <1>1, <1>3, <1>9, GetsPast
  <2> QED
    BY <2>1, <2>2, <2>3, <2>4, <2>5
<1>10. Past(plan[i], {Applies(mode)})' => Since(Reader.project, f, i)'
  BY <1>1, <1>2, <1>4
<1> QED
  BY <1>0, <1>1, <1>2, <1>4, <1>5, <1>6, <1>7, <1>9 DEF PatchLasts

LEMMA AloneBefore ==
    ASSUME NEW i \in Ops, Base, Next, Alone(i)'
    PROVE  Alone(i) \/ Arrive(i)
<1>0. TypeOK /\ Handlers /\ Arrivals /\ Onward
  BY Progress DEF Base
<1>1. CASE plan[i] # Unstarted
  <2>1. req'[i] = req[i] /\ overlap[i] = {} /\ mode' = mode
    BY <1>0, <1>1, StoreAssumption DEF Onward, Alone, Ids, Ops
  <2>2. \A j \in Ops : j < i => req'[j] = req[j]
    BY <1>0, <1>1 DEF Arrivals, Onward
  <2> QED
    BY <1>1, <2>1, <2>2 DEF Alone
<1>2. CASE plan[i] = Unstarted /\ ~Arrive(i)
  <2>1. plan'[i] = Unstarted
    <3>1. ASSUME NEW h \in Ops, Arrive(h) PROVE plan'[i] = plan[i]
      BY <1>0, <1>2, <3>1, ArriveFacts DEF TypeOK
    <3>2. ASSUME NEW h \in Ops, Stepped(h) PROVE plan'[i] = plan[i]
      BY <1>0, <1>2, <3>2 DEF Stepped, TypeOK
    <3>3. ASSUME NEW h \in Ops, Raise(h) PROVE plan'[i] = plan[i]
      BY <1>0, <1>2, <3>3 DEF Raise, Active, Ends, GoOn, TypeOK
    <3>4. Restart => plan'[i] = plan[i]
      BY <1>2 DEF Restart, Active, Ends
    <3> QED
      BY <1>0, <1>2, <3>1, <3>2, <3>3, <3>4, StepCases
  <2> QED
    BY <2>1 DEF Alone
<1> QED
  BY <1>1, <1>2

LEMMA PatchesLastStep ==
    ASSUME Base, CacheHonest, PatchesLast, Next
    PROVE  PatchesLast'
<1>0. TypeOK /\ Handlers /\ Arrivals /\ Onward
  BY Progress DEF Base
<1> SUFFICES ASSUME NEW i \in Ops, Alone(i)'
             PROVE  PatchLasts(i)'
  BY <1>0 DEF PatchesLast
<1>1. CASE Arrive(i)
  BY <1>1, PatchArrives
<1>2. CASE Alone(i) /\ ~Arrive(i)
  <2>1. PatchLasts(i) /\ plan[i] # Unstarted
    BY <1>2 DEF PatchesLast, Alone
  <2>2. mode' = mode /\ req'[i] = req[i]
    BY <1>0, <2>1 DEF Onward
  <2>3. ASSUME NEW h \in Ops, Arrive(h) PROVE PatchLasts(i)'
    <3>1. plan'[i] = plan[i]
      BY <1>0, <1>2, <2>3, ArriveFacts DEF TypeOK
    <3> QED
      BY <2>1, <2>2, <2>3, <3>1, PatchUntouched DEF Arrive
  <2>4. ASSUME NEW h \in Ops, Raise(h) PROVE PatchLasts(i)'
    <3>1. plan'[i] \in {plan[i], Failed}
      BY <1>0, <2>4 DEF Raise, GoOn, TypeOK
    <3> QED
      BY <2>1, <2>2, <2>4, <3>1, PatchUntouched DEF Raise
  <2>5. CASE Restart
    BY <2>1, <2>2, <2>5, PatchUntouched DEF Restart
  <2>6. ASSUME NEW h \in Ops, Stepped(h), SqlRead(h) \/ SqlWrite(h) \/ MemoryStep(h)
        PROVE  PatchLasts(i)'
    <3>1. h = i \/ (h > i /\ ~Active(i))
      BY <1>0, <1>2, <2>6, RunsAlone DEF Stepped
    <3>2. CASE h = i
      BY <1>2, <2>1, <2>6, <3>2, OwnStep
    <3>3. CASE h > i /\ ~Active(i)
      BY <2>1, <2>6, <3>3, LaterStep
    <3> QED
      BY <3>1, <3>2, <3>3
  <2> QED
    BY <1>0, <2>3, <2>4, <2>5, <2>6, StepCases
<1> QED
  BY <1>1, <1>2, AloneBefore

(* A PATCH that was answered and overlapped nothing is not undone, although *)
(* update_project writes every column of the record the handler has read:   *)
(* from its invalidation on, the row, the cache entry and whatever a later  *)
(* handler has read hold what it gave, or what a later request gave.        *)
THEOREM PatchesStand == Spec => []PatchesKept
<1>1. Init => PatchesLast /\ CacheHonest
  <2>1. Init => PatchesLast
    BY DEF Init, PatchesLast, Alone
  <2>2. Init => CacheHonest
    BY DEF Init, CacheHonest
  <2> QED
    BY <2>1, <2>2
<1>2. Base /\ PatchesLast /\ CacheHonest /\ [Next]_vars => (PatchesLast /\ CacheHonest)'
  <2>1. CASE Next
    BY <2>1, PatchesLastStep, CacheHonestStep
  <2>2. CASE UNCHANGED vars
    <3>1. UNCHANGED <<mode, mem, sql, cache, req, plan, seen, overlap>>
      BY <2>2 DEF vars
    <3>2. CacheHonest' = CacheHonest
      BY <3>1 DEF CacheHonest, NoDeletion
    <3>3. PatchesLast' = PatchesLast
      BY <3>1 DEF PatchesLast, Alone, PatchLasts, At, Field, Reader, ReadsSql
    <3> QED
      BY <3>2, <3>3
  <2> QED
    BY <2>1, <2>2
<1>3. Base /\ PatchesLast => PatchesKept
  <2> SUFFICES ASSUME Base, PatchesLast, NEW i \in Ops, Answered(i, Patches), overlap[i] = {},
                      Reader.project # None,
                      mode = "dual_sql" => \A j \in Ops : j < i => req[j].kind # "DeleteProject"
               PROVE  Reader.project[Field(i)] >= i
    BY DEF PatchesKept, Field
  <2>1. Alone(i)
    BY DEF Alone, Answered, Unstarted
  <2>2. Past(plan[i], {Applies(mode)})
    BY DEF Past, Over, Answered
  <2> QED
    BY <2>1, <2>2 DEF PatchesLast, PatchLasts, Since
<1>4. Spec => [](PatchesLast /\ CacheHonest)
  BY <1>1, <1>2, BaseInvariance, PTL DEF Spec
<1> QED
  BY <1>3, <1>4, BaseInvariance, PTL

-----------------------------------------------------------------------------
(* The dual stores.  Agree is what they agree on; the rest is how far apart *)
(* they are while one request is at work, statement by statement.          *)

(* What the stores of the dual mode agree on. *)
Agree(a, b) == a.project = b.project /\ a.workflow = b.workflow /\ a.runs = b.runs

(* Every a of the plan s has a b after it; every b has no a after it. *)
Later(s, a, b)  == \A n \in 1 .. Len(s) : s[n] = a => \E m \in n + 1 .. Len(s) : s[m] = b
NoMore(s, b, a) == \A n \in 1 .. Len(s) : s[n] = b => \A m \in n + 1 .. Len(s) : s[m] # a

Stamps == {"PublishWorkflow", "ArchiveWorkflow"}

(* The order in which a request of the dual mode writes to the two stores. *)
Sequenced(k, s) ==
    /\ \A n \in 1 .. Len(s) :
          /\ s[n] \notin {"insert_project", "insert_workflow"}
          /\ s[n] \in Reads => k \notin {"CreateWorkflow", "DeleteProject", "DeleteWorkflow"} \cup Stamps
          /\ s[n] = "vacant" => k = "CreateWorkflow"
          /\ s[n] = "exists" => k = "DeleteWorkflow"
          /\ s[n] = "answer" => k \in Patches
          /\ k = "CreateProject" /\ s[n] = "memory" => n = 1
          /\ k = "CreateProject" /\ s[n] \in Reads /\ (\E m \in n + 1 .. Len(s) : s[m] = "ensure")
                 => s[n + 1] = "ensure"
    /\ k = "CreateProject" =>
          /\ Later(s, "memory", "ensure")
          /\ NoMore(s, "memory", "memory") /\ NoMore(s, "ensure", "memory")
    /\ k \in Patches =>
          /\ Later(s, "memory", "update")
          /\ NoMore(s, "memory", "memory")
          /\ \A x \in {"memory", "update"} : NoMore(s, "update", x) /\ NoMore(s, "answer", x)
    /\ k = "CreateWorkflow" =>
          /\ Later(s, "vacant", "memory") /\ Later(s, "memory", "upsert")
          /\ NoMore(s, "memory", "vacant") /\ NoMore(s, "memory", "memory")
          /\ \A x \in {"memory", "upsert"} : NoMore(s, "upsert", x)
    /\ k \in Stamps =>
          /\ Later(s, "memory", "status")
          /\ NoMore(s, "memory", "memory")
          /\ \A x \in {"memory", "status"} : NoMore(s, "status", x)
    /\ k = "DeleteProject" =>
          /\ Later(s, "delete_project", "memory")
          /\ NoMore(s, "delete_project", "delete_project")
          /\ \A x \in {"delete_project", "memory"} : NoMore(s, "memory", x)
    /\ k = "DeleteWorkflow" =>
          /\ Later(s, "exists", "delete_workflow") /\ Later(s, "count", "delete_workflow")
          /\ Later(s, "delete_workflow", "memory")
          /\ \A x \in {"count", "delete_workflow"} : NoMore(s, "delete_workflow", x)
          /\ \A x \in {"delete_workflow", "memory"} : NoMore(s, "memory", x)
    /\ k \in Runs =>
          /\ Later(s, "load", "insert_run") /\ Later(s, "insert_run", "memory")
          /\ NoMore(s, "insert_run", "insert_run")
          /\ \A x \in {"insert_run", "memory"} : NoMore(s, "memory", x)
    /\ k = "RunProject" =>
          /\ \A x \in {"ensure", "memory_upsert"} : Later(s, "memory_ensure", x)
          /\ Later(s, "ensure", "memory_upsert") /\ Later(s, "memory_upsert", "upsert")
          /\ Later(s, "upsert", "insert_run")
          /\ \A x \in {"memory_ensure", "ensure"} : NoMore(s, x, "memory_ensure")
          /\ \A x \in {"memory_ensure", "ensure", "memory_upsert"} : NoMore(s, "memory_upsert", x)
          /\ \A x \in {"memory_ensure", "memory_upsert", "upsert"} :
                 \A y \in {"upsert", "load", "insert_run", "memory"} : NoMore(s, y, x)

(* What a new plan starts with. *)
Starts(k, s) ==
    LET has(w) == \E n \in 1 .. Len(s) : s[n] = w
    IN  /\ k \in {"CreateProject"} \cup Patches \cup Stamps => has("memory")
        /\ k = "CreateWorkflow" => has("memory") /\ (mode = "dual_sql" => has("vacant"))
        /\ k = "DeleteProject" => has("delete_project")
        /\ k = "DeleteWorkflow" => has("delete_workflow") /\ has("count")
        /\ k = "RunWorkflow" => has("insert_run")
        /\ k = "RunProject" => has("memory_ensure")

LEMMA PlansSequenced ==
    ASSUME Dual, NEW k \in Kinds
    PROVE  Sequenced(k, PlanOf(k)) /\ Starts(k, PlanOf(k))
<1> DEFINE s == PlanOf(k)
<1> HIDE DEF s
<1> USE DEF Sequenced, Later, NoMore, Patches, Runs, Stamps, Reads, Starts
<1>1. ASSUME k = "CreateProject" PROVE Sequenced(k, s) /\ Starts(k, s)
  <2>1. CASE mode = "dual_sql"
    <3>1. Spells(s, <<"memory", "find", "ensure", "invalidate", "find">>)
      BY <1>1, <2>1, SpelledDualSql DEF s
    <3> QED
      BY <1>1, <2>1, <3>1 DEF Spells
  <2>2. CASE mode = "dual_memory"
    <3>1. Spells(s, <<"memory", "find", "ensure", "invalidate">>)
      BY <1>1, <2>2, SpelledDualMemory DEF s
    <3> QED
      BY <1>1, <2>2, <3>1 DEF Spells
  <2> QED
    BY <2>1, <2>2 DEF Dual
<1>2. ASSUME k = "GetProject" PROVE Sequenced(k, s) /\ Starts(k, s)
  <2>1. CASE mode = "dual_sql"
    <3>1. Spells(s, <<"find">>)
      BY <1>2, <2>1, SpelledDualSql DEF s
    <3> QED
      BY <1>2, <2>1, <3>1 DEF Spells
  <2>2. CASE mode = "dual_memory"
    <3>1. Spells(s, <<>>)
      BY <1>2, <2>2, SpelledDualMemory DEF s
    <3> QED
      BY <1>2, <2>2, <3>1 DEF Spells
  <2> QED
    BY <2>1, <2>2 DEF Dual
<1>3. ASSUME k = "PatchName" PROVE Sequenced(k, s) /\ Starts(k, s)
  <2>1. CASE mode = "dual_sql"
    <3>1. Spells(s, <<"memory", "find", "update", "invalidate", "find">>)
      BY <1>3, <2>1, SpelledDualSql DEF s
    <3> QED
      BY <1>3, <2>1, <3>1 DEF Spells
  <2>2. CASE mode = "dual_memory"
    <3>1. Spells(s, <<"memory", "find", "update", "invalidate", "answer">>)
      BY <1>3, <2>2, SpelledDualMemory DEF s
    <3> QED
      BY <1>3, <2>2, <3>1 DEF Spells
  <2> QED
    BY <2>1, <2>2 DEF Dual
<1>4. ASSUME k = "PatchConfigs" PROVE Sequenced(k, s) /\ Starts(k, s)
  <2>1. CASE mode = "dual_sql"
    <3>1. Spells(s, <<"memory", "find", "secret", "update", "invalidate", "find">>)
      BY <1>4, <2>1, SpelledDualSql DEF s
    <3> QED
      BY <1>4, <2>1, <3>1 DEF Spells
  <2>2. CASE mode = "dual_memory"
    <3>1. Spells(s, <<"memory", "find", "secret", "update", "invalidate", "answer">>)
      BY <1>4, <2>2, SpelledDualMemory DEF s
    <3> QED
      BY <1>4, <2>2, <3>1 DEF Spells
  <2> QED
    BY <2>1, <2>2 DEF Dual
<1>5. ASSUME k = "DeleteProject" PROVE Sequenced(k, s) /\ Starts(k, s)
  <2>1. Spells(s, <<"delete_project", "memory">>)
    BY <1>5, SpelledDualSql, SpelledDualMemory DEF s, Dual
  <2> QED
    BY <1>5, <2>1 DEF Spells
<1>6. ASSUME k = "PutSecret" PROVE Sequenced(k, s) /\ Starts(k, s)
  <2>1. CASE mode = "dual_sql"
    <3>1. Spells(s, <<"find", "memory", "secret">>)
      BY <1>6, <2>1, SpelledDualSql DEF s
    <3> QED
      BY <1>6, <2>1, <3>1 DEF Spells
  <2>2. CASE mode = "dual_memory"
    <3>1. Spells(s, <<"memory", "secret">>)
      BY <1>6, <2>2, SpelledDualMemory DEF s
    <3> QED
      BY <1>6, <2>2, <3>1 DEF Spells
  <2> QED
    BY <2>1, <2>2 DEF Dual
<1>7. ASSUME k = "CreateTrigger" PROVE Sequenced(k, s) /\ Starts(k, s)
  <2>1. CASE mode = "dual_sql"
    <3>1. Spells(s, <<"find", "memory", "insert_trigger", "invalidate">>)
      BY <1>7, <2>1, SpelledDualSql DEF s
    <3> QED
      BY <1>7, <2>1, <3>1 DEF Spells
  <2>2. CASE mode = "dual_memory"
    <3>1. Spells(s, <<"memory", "insert_trigger", "invalidate">>)
      BY <1>7, <2>2, SpelledDualMemory DEF s
    <3> QED
      BY <1>7, <2>2, <3>1 DEF Spells
  <2> QED
    BY <2>1, <2>2 DEF Dual
<1>8. ASSUME k = "PatchTrigger" PROVE Sequenced(k, s) /\ Starts(k, s)
  <2>1. CASE mode = "dual_sql"
    <3>1. Spells(s, <<"find", "memory", "update_trigger", "invalidate">>)
      BY <1>8, <2>1, SpelledDualSql DEF s
    <3> QED
      BY <1>8, <2>1, <3>1 DEF Spells
  <2>2. CASE mode = "dual_memory"
    <3>1. Spells(s, <<"memory", "update_trigger", "invalidate">>)
      BY <1>8, <2>2, SpelledDualMemory DEF s
    <3> QED
      BY <1>8, <2>2, <3>1 DEF Spells
  <2> QED
    BY <2>1, <2>2 DEF Dual
<1>9. ASSUME k = "DeleteTrigger" PROVE Sequenced(k, s) /\ Starts(k, s)
  <2>1. Spells(s, <<"delete_trigger", "memory">>)
    BY <1>9, SpelledDualSql, SpelledDualMemory DEF s, Dual
  <2> QED
    BY <1>9, <2>1 DEF Spells
<1>10. ASSUME k = "CreateWorkflow" PROVE Sequenced(k, s) /\ Starts(k, s)
  <2>1. CASE mode = "dual_sql"
    <3>1. Spells(s, <<"vacant", "memory", "upsert">>)
      BY <1>10, <2>1, SpelledDualSql DEF s
    <3> QED
      BY <1>10, <2>1, <3>1 DEF Spells
  <2>2. CASE mode = "dual_memory"
    <3>1. Spells(s, <<"memory", "upsert">>)
      BY <1>10, <2>2, SpelledDualMemory DEF s
    <3> QED
      BY <1>10, <2>2, <3>1 DEF Spells
  <2> QED
    BY <2>1, <2>2 DEF Dual
<1>11. ASSUME k = "PublishWorkflow" PROVE Sequenced(k, s) /\ Starts(k, s)
  <2>1. Spells(s, <<"memory", "status">>)
    BY <1>11, SpelledDualSql, SpelledDualMemory DEF s, Dual
  <2> QED
    BY <1>11, <2>1 DEF Spells
<1>12. ASSUME k = "ArchiveWorkflow" PROVE Sequenced(k, s) /\ Starts(k, s)
  <2>1. Spells(s, <<"memory", "status">>)
    BY <1>12, SpelledDualSql, SpelledDualMemory DEF s, Dual
  <2> QED
    BY <1>12, <2>1 DEF Spells
<1>13. ASSUME k = "DeleteWorkflow" PROVE Sequenced(k, s) /\ Starts(k, s)
  <2>1. CASE mode = "dual_sql"
    <3>1. Spells(s, <<"exists", "count", "delete_workflow", "memory">>)
      BY <1>13, <2>1, SpelledDualSql DEF s
    <3> QED
      BY <1>13, <2>1, <3>1 DEF Spells
  <2>2. CASE mode = "dual_memory"
    <3>1. Spells(s, <<"count", "delete_workflow", "memory">>)
      BY <1>13, <2>2, SpelledDualMemory DEF s
    <3> QED
      BY <1>13, <2>2, <3>1 DEF Spells
  <2> QED
    BY <2>1, <2>2 DEF Dual
<1>14. ASSUME k = "RunWorkflow" PROVE Sequenced(k, s) /\ Starts(k, s)
  <2>1. CASE mode = "dual_sql"
    <3>1. Spells(s, <<"load", "find", "insert_run", "memory">>)
      BY <1>14, <2>1, SpelledDualSql DEF s
    <3> QED
      BY <1>14, <2>1, <3>1 DEF Spells
  <2>2. CASE mode = "dual_memory"
    <3>1. Spells(s, <<"load", "insert_run", "memory">>)
      BY <1>14, <2>2, SpelledDualMemory DEF s
    <3> QED
      BY <1>14, <2>2, <3>1 DEF Spells
  <2> QED
    BY <2>1, <2>2 DEF Dual
<1>15. ASSUME k = "RunProject" PROVE Sequenced(k, s) /\ Starts(k, s)
  <2>1. CASE mode = "dual_sql"
    <3>1. Spells(s, <<"memory_ensure", "find", "ensure", "invalidate", "find", "ensure",
                      "invalidate", "memory_upsert", "upsert", "load", "find",
                      "insert_run", "memory">>)
      BY <1>15, <2>1, SpelledDualSql DEF s
    <3> QED
      BY <1>15, <2>1, <3>1 DEF Spells
  <2>2. CASE mode = "dual_memory"
    <3>1. Spells(s, <<"memory_ensure", "find", "ensure", "invalidate", "memory_upsert",
                      "upsert", "load", "insert_run", "memory">>)
      BY <1>15, <2>2, SpelledDualMemory DEF s
    <3> QED
      BY <1>15, <2>2, <3>1 DEF Spells
  <2> QED
    BY <2>1, <2>2 DEF Dual
<1> HIDE DEF Sequenced, Starts
<1> QED
  BY <1>1, <1>2, <1>3, <1>4, <1>5, <1>6, <1>7, <1>8, <1>9, <1>10,
     <1>11, <1>12, <1>13, <1>14, <1>15 DEF s, Kinds

(* A step keeps the order of the statements that are left. *)
LEMMA OrderKept ==
    ASSUME NEW k \in Kinds, NEW p, NEW q, PlanOK(mode, k, p), p # <<>>, Follows(k, p, q),
           NEW a, a \notin {"row", "fill", "refused", "failed"},
           NEW b, b \notin {"row", "fill", "refused", "failed"}
    PROVE  /\ Later(p, a, b) => Later(q, a, b)
           /\ NoMore(p, b, a) => NoMore(q, b, a)
<1>1. p \in Seq(Statements) /\ Len(p) \in Nat \ {0}
  BY DEF PlanOK
<1>2. CASE Over(q)
  BY <1>2 DEF Over, Later, NoMore
<1>3. ASSUME NEW d \in Nat, Rest(p, q, d)
      PROVE  /\ Later(p, a, b) => Later(q, a, b)
             /\ NoMore(p, b, a) => NoMore(q, b, a)
  <2>1. /\ d \in 1 .. Len(p) /\ Len(q) \in {Len(p) - d, Len(p) - d + 1}
        /\ \A n \in 1 .. Len(p) - d : q[n] = p[n + d]
        /\ Len(q) = Len(p) - d + 1 => q[Len(q)] = "refused"
    BY <1>3 DEF Rest
  <2>2. ASSUME Later(p, a, b), NEW n \in 1 .. Len(q), q[n] = a
        PROVE  \E m \in n + 1 .. Len(q) : q[m] = b
    <3>1. n \in 1 .. Len(p) - d /\ n + d \in 1 .. Len(p) /\ p[n + d] = a
      BY <1>1, <2>1, <2>2
    <3>2. PICK m \in n + d + 1 .. Len(p) : p[m] = b
      BY <2>2, <3>1 DEF Later
    <3>3. m - d \in n + 1 .. Len(q) /\ m - d \in 1 .. Len(p) - d /\ q[m - d] = p[m]
      BY <1>1, <2>1, <3>1, <3>2
    <3> QED
      BY <3>2, <3>3
  <2>3. ASSUME NoMore(p, b, a), NEW n \in 1 .. Len(q), q[n] = b, NEW m \in n + 1 .. Len(q)
        PROVE  q[m] # a
    <3>1. n \in 1 .. Len(p) - d /\ n + d \in 1 .. Len(p) /\ p[n + d] = b
      BY <1>1, <2>1, <2>3
    <3>2. CASE m \in 1 .. Len(p) - d
      <4>1. m + d \in n + d + 1 .. Len(p) /\ q[m] = p[m + d]
        BY <1>1, <2>1, <2>3, <3>1, <3>2
      <4> QED
        BY <2>3, <3>1, <4>1 DEF NoMore
    <3>3. CASE m \notin 1 .. Len(p) - d
      BY <1>1, <2>1, <2>3, <3>1, <3>3
    <3> QED
      BY <3>2, <3>3
  <2> QED
    BY <2>2, <2>3 DEF Later, NoMore
<1>4. CASE Resumed(p, q)
  <2>1. /\ Len(q) = Len(p) /\ \A n \in 2 .. Len(p) : q[n] = p[n]
        /\ q[1] \in {"row", "fill"}
    BY <1>4 DEF Resumed
  <2>2. ASSUME NEW n \in 1 .. Len(q), q[n] \in {a, b}
        PROVE  /\ n \in 1 .. Len(p) /\ p[n] = q[n]
               /\ \A m \in n + 1 .. Len(q) : q[m] = p[m]
    BY <1>1, <2>1, <2>2
  <2> QED
    BY <2>1, <2>2 DEF Later, NoMore
<1>5. CASE LastOnly(p, q)
  <2>1. Len(q) = 1 /\ q[1] = p[Len(p)] /\ Len(p) \in 1 .. Len(p)
    BY <1>1, <1>5 DEF LastOnly
  <2>2. Later(p, a, b) => q[1] # a
    BY <1>1, <2>1 DEF Later
  <2> QED
    BY <2>1, <2>2 DEF Later, NoMore
<1> QED
  BY <1>2, <1>3, <1>4, <1>5 DEF Follows

LEMMA SequencedKept ==
    ASSUME NEW k \in Kinds, NEW p, NEW q, PlanOK(mode, k, p), p # <<>>, Follows(k, p, q),
           Sequenced(k, p)
    PROVE  Sequenced(k, q)
<1> DEFINE sole(s, n) ==
        /\ s[n] \notin {"insert_project", "insert_workflow"}
        /\ s[n] \in Reads => k \notin {"CreateWorkflow", "DeleteProject", "DeleteWorkflow"} \cup Stamps
        /\ s[n] = "vacant" => k = "CreateWorkflow"
        /\ s[n] = "exists" => k = "DeleteWorkflow"
        /\ s[n] = "answer" => k \in Patches
        /\ k = "CreateProject" /\ s[n] = "memory" => n = 1
        /\ k = "CreateProject" /\ s[n] \in Reads /\ (\E m \in n + 1 .. Len(s) : s[m] = "ensure")
               => s[n + 1] = "ensure"
<1>1. p \in Seq(Statements) /\ Len(p) \in Nat \ {0}
  BY DEF PlanOK
<1>2. \A n \in 1 .. Len(p) : sole(p, n)
  BY DEF Sequenced
<1>3. \A n \in 1 .. Len(q) : sole(q, n)
  <2>1. CASE Over(q)
    BY <2>1 DEF Over, Reads
  <2>2. ASSUME NEW d \in Nat, Rest(p, q, d), NEW n \in 1 .. Len(q)
        PROVE  sole(q, n)
    <3>1. /\ d \in 1 .. Len(p) /\ Len(q) \in {Len(p) - d, Len(p) - d + 1}
          /\ \A m \in 1 .. Len(p) - d : q[m] = p[m + d]
          /\ Len(q) = Len(p) - d + 1 => q[Len(q)] = "refused"
      BY <2>2 DEF Rest
    <3>2. CASE n \in 1 .. Len(p) - d
      <4>1. n + d \in 1 .. Len(p) /\ n + d # 1 /\ q[n] = p[n + d] /\ sole(p, n + d)
        BY <1>1, <1>2, <3>1, <3>2
      <4>2. ASSUME NEW m \in n + 1 .. Len(q), q[m] = "ensure"
            PROVE  /\ m + d \in n + d + 1 .. Len(p) /\ p[m + d] = "ensure"
                   /\ q[n + 1] = p[n + d + 1]
        BY <1>1, <3>1, <3>2, <4>2
      <4> QED
        BY <4>1, <4>2
    <3>3. CASE n \notin 1 .. Len(p) - d
      <4>1. q[n] = "refused"
        BY <1>1, <2>2, <3>1, <3>3
      <4> QED
        BY <4>1 DEF Reads
    <3> QED
      BY <3>2, <3>3
  <2>3. CASE Resumed(p, q)
    <3>1. /\ Len(q) = Len(p) /\ \A n \in 2 .. Len(p) : q[n] = p[n]
          /\ p[1] \in Reads /\ q[1] \in {"row", "fill"}
      BY <2>3 DEF Resumed, Reads
    <3>2. sole(p, 1)
      BY <1>1, <1>2
    <3>3. sole(q, 1)
      BY <1>1, <3>1, <3>2 DEF Reads
    <3>4. ASSUME NEW n \in 2 .. Len(q) PROVE sole(q, n)
      <4>1. n \in 1 .. Len(p) /\ q[n] = p[n] /\ \A m \in n + 1 .. Len(q) : q[m] = p[m]
        BY <1>1, <3>1, <3>4
      <4>2. (\E m \in n + 1 .. Len(q) : q[m] = "ensure") => q[n + 1] = p[n + 1]
        BY <1>1, <3>1, <3>4
      <4> QED
        BY <1>2, <3>1, <4>1, <4>2
    <3> QED
      BY <1>1, <3>1, <3>3, <3>4
  <2>4. CASE LastOnly(p, q) /\ k \in Patches
    <3>1. Len(q) = 1 /\ q[1] = p[Len(p)] /\ Len(p) \in 1 .. Len(p)
      BY <1>1, <2>4 DEF LastOnly
    <3> QED
      BY <1>2, <2>4, <3>1 DEF Patches
  <2> QED
    BY <2>1, <2>2, <2>3, <2>4 DEF Follows
<1>4. \A a, b : a \notin {"row", "fill", "refused", "failed"} /\ b \notin {"row", "fill", "refused", "failed"}
          => /\ Later(p, a, b) => Later(q, a, b)
             /\ NoMore(p, b, a) => NoMore(q, b, a)
  BY OrderKept
<1> HIDE DEF sole
<1>5. Sequenced(k, p) /\ (\A n \in 1 .. Len(q) : sole(q, n)) => Sequenced(k, q)
  BY <1>4 DEF Sequenced, sole
<1> QED
  BY <1>3, <1>5

(* The statements that write to one store what the other has or will have, *)
(* and two reads that a write relies on.                                   *)
Marks == {"memory", "memory_ensure", "memory_upsert", "ensure", "update", "upsert", "status",
          "delete_project", "delete_workflow", "count", "vacant", "insert_run"}

Has(p, w)  == \E n \in 1 .. Len(p) : p[n] = w
Left(p, w) == \E n \in 2 .. Len(p) : p[n] = w
Due(i, w)  == Has(plan[i], w)

LEMMA HasFirst ==
    ASSUME NEW p \in Seq(Statements), p # <<>>, NEW w
    PROVE  Has(p, w) <=> p[1] = w \/ Left(p, w)
  BY DEF Has, Left

LEMMA FirstOrder ==
    ASSUME NEW p \in Seq(Statements), p # <<>>, NEW w
    PROVE  /\ Later(p, p[1], w) => Left(p, w)
           /\ NoMore(p, p[1], w) => ~Left(p, w)
  BY DEF Later, NoMore, Left

LEMMA RestMarks ==
    ASSUME NEW p \in Seq(Statements), NEW q, NEW d \in Nat, Rest(p, q, d), NEW w, w # "refused"
    PROVE  /\ Has(q, w) => Left(p, w)
           /\ Left(p, w) /\ (\A n \in 2 .. d : p[n] # w) => Has(q, w)
<1>1. /\ d \in 1 .. Len(p) /\ Len(q) \in {Len(p) - d, Len(p) - d + 1} /\ Len(p) \in Nat
      /\ \A n \in 1 .. Len(p) - d : q[n] = p[n + d]
      /\ Len(q) = Len(p) - d + 1 => q[Len(q)] = "refused"
  BY DEF Rest
<1>2. ASSUME Has(q, w) PROVE Left(p, w)
  <2>1. PICK n \in 1 .. Len(q) : q[n] = w
    BY <1>2 DEF Has
  <2>2. n \in 1 .. Len(p) - d
    BY <1>1, <2>1
  <2>3. n + d \in 2 .. Len(p) /\ p[n + d] = w
    BY <1>1, <2>1, <2>2
  <2> QED
    BY <2>3 DEF Left
<1>3. ASSUME Left(p, w), \A n \in 2 .. d : p[n] # w PROVE Has(q, w)
  <2>1. PICK n \in 2 .. Len(p) : p[n] = w
    BY <1>3 DEF Left
  <2>2. n > d
    BY <1>1, <1>3, <2>1
  <2>3. n - d \in 1 .. Len(p) - d /\ n - d \in 1 .. Len(q)
    BY <1>1, <2>1, <2>2
  <2>4. q[n - d] = p[(n - d) + d] /\ (n - d) + d = n
    BY <1>1, <2>1, <2>3
  <2> QED
    BY <2>1, <2>3, <2>4 DEF Has
<1> QED
  BY <1>2, <1>3

LEMMA TailMarks ==
    ASSUME NEW p \in Seq(Statements), p # <<>>, NEW q, q \in {Tail(p), Tail(p) \o Refused},
           NEW w \in Marks
    PROVE  Has(q, w) <=> Left(p, w)
<1>1. Tail(p) = SubSeq(p, 2, Len(p)) /\ 1 \in 1 .. Len(p)
  BY TailIsSubSeq
<1>2. Rest(p, q, 1)
  BY <1>1, CutIsRest, 2 = 1 + 1
<1>3. w # "refused"
  BY DEF Marks
<1> QED
  BY <1>2, <1>3, RestMarks

(* A handler that skips the invalidation after an update of nothing. *)
LEMMA SkipMarks ==
    ASSUME NEW k, NEW p, PlanOK(mode, k, p), p # <<>>, p[1] \in {"update", "update_trigger"},
           NEW q, q \in {SubSeq(p, 3, Len(p)), SubSeq(p, 3, Len(p)) \o Refused},
           NEW w \in Marks
    PROVE  Has(q, w) <=> Left(p, w)
<1>1. p \in Seq(Statements) /\ 1 \in 1 .. Len(p)
  BY DEF PlanOK
<1>2. Len(p) > 1 /\ p[2] = "invalidate"
  BY <1>1 DEF PlanOK
<1>3. 2 \in 1 .. Len(p)
  BY <1>1, <1>2
<1>4. Rest(p, q, 2)
  BY <1>1, <1>3, CutIsRest, 3 = 2 + 1
<1>5. w # "refused" /\ \A n \in 2 .. 2 : p[n] # w
  BY <1>2 DEF Marks
<1> QED
  BY <1>1, <1>4, <1>5, RestMarks

LEMMA TailRest ==
    ASSUME NEW p \in Seq(Statements), NEW t \in Seq(Statements), Len(t) = Len(p) - 1,
           \A n \in 1 .. Len(t) : t[n] = p[n + 1],
           NEW q, NEW d \in Nat, Rest(t, q, d), NEW e, e = d + 1
    PROVE  Rest(p, q, e)
<1>1. /\ d \in 1 .. Len(t) /\ q \in Seq(Statements)
      /\ Len(q) \in {Len(t) - d, Len(t) - d + 1}
      /\ \A n \in 1 .. Len(t) - d : q[n] = t[n + d]
      /\ Len(q) = Len(t) - d + 1 => q[Len(q)] = "refused"
  BY DEF Rest
<1>2. Len(p) \in Nat /\ Len(t) \in Nat /\ Len(q) \in Nat
  BY <1>1
<1>3. e \in 1 .. Len(p) /\ Len(p) - e = Len(t) - d
  BY <1>1, <1>2
<1>4. ASSUME NEW n \in 1 .. Len(p) - e
      PROVE  q[n] = p[n + e]
  <2>1. n \in 1 .. Len(t) - d /\ n + d \in 1 .. Len(t) /\ (n + d) + 1 = n + e
    BY <1>1, <1>2, <1>3
  <2> QED
    BY <1>1, <2>1
<1> QED
  BY <1>1, <1>2, <1>3, <1>4 DEF Rest

(* A handler that finds the project leaves out to ensure it. *)
LEMMA FoundMarks ==
    ASSUME NEW k, NEW p, PlanOK(mode, k, p), p # <<>>,
           NEW q, q = IF Tail(p) # <<>> /\ Head(Tail(p)) = "ensure"
                      THEN SubSeq(Tail(p), 3, Len(Tail(p))) ELSE Tail(p),
           NEW w \in Marks
    PROVE  /\ Has(q, w) => Left(p, w)
           /\ w # "ensure" /\ Left(p, w) => Has(q, w)
<1>1. p \in Seq(Statements)
  BY DEF PlanOK
<1>2. CASE q = Tail(p)
  BY <1>1, <1>2, TailMarks
<1>3. CASE Tail(p) # <<>> /\ Head(Tail(p)) = "ensure" /\ q = SubSeq(Tail(p), 3, Len(Tail(p)))
  <2> DEFINE t == Tail(p)
  <2>1. /\ t \in Seq(Statements) /\ Len(t) = Len(p) - 1
        /\ \A n \in 1 .. Len(t) : t[n] = p[n + 1]
    BY <1>1, <1>3, HeadTailProperties
  <2>2. Len(p) > 1 /\ p[2] = "ensure"
    <3>1. 1 \in 1 .. Len(t) /\ Head(t) = t[1]
      BY <1>3, <2>1
    <3> QED
      BY <1>1, <1>3, <2>1, <3>1
  <2>3. Len(p) > 2 /\ p[3] = "invalidate"
    BY <1>1, <2>2 DEF PlanOK
  <2>4. Rest(t, q, 2)
    <3>1. 2 \in 1 .. Len(t) /\ q = SubSeq(t, 3, Len(t))
      BY <1>1, <1>3, <2>1, <2>3
    <3>2. t \in Seq(Statements)
      BY <2>1
    <3> HIDE DEF t
    <3> QED
      BY <3>1, <3>2, CutIsRest, 3 = 2 + 1
  <2> HIDE DEF t
  <2>5. Rest(p, q, 3)
    BY <1>1, <2>1, <2>4, TailRest, 2 + 1 = 3
  <2>6. w # "refused" /\ (w # "ensure" => \A n \in 2 .. 3 : p[n] # w)
    BY <2>2, <2>3 DEF Marks
  <2> QED
    BY <1>1, <2>5, <2>6, RestMarks
<1> QED
  BY <1>2, <1>3

LEMMA OtherMarks ==
    ASSUME NEW p \in Seq(Statements), NEW q, NEW w \in Marks
    PROVE  /\ Resumed(p, q) => (Has(q, w) <=> Left(p, w))
           /\ LastOnly(p, q) /\ Has(q, w) => Left(p, w)
           /\ q \in Ends => ~Has(q, w)
<1>1. ASSUME Resumed(p, q)
      PROVE  Has(q, w) <=> Left(p, w)
  <2>1. /\ Len(q) = Len(p) /\ Len(p) \in Nat \ {0} /\ q[1] \in {"row", "fill"}
        /\ \A n \in 2 .. Len(p) : q[n] = p[n]
    BY <1>1 DEF Resumed
  <2> QED
    BY <2>1 DEF Has, Left, Marks
<1>2. ASSUME LastOnly(p, q), Has(q, w)
      PROVE  Left(p, w)
  <2>1. Len(q) = 1 /\ q[1] = p[Len(p)] /\ Len(p) \in 2 .. Len(p)
    BY <1>2 DEF LastOnly
  <2> QED
    BY <1>2, <2>1 DEF Has, Left
<1>3. ASSUME q \in Ends
      PROVE  ~Has(q, w)
  BY <1>3 DEF Ends, Has, Marks, Unstarted, Refused, Failed
<1> QED
  BY <1>1, <1>2, <1>3

LEMMA StatementTables ==
    ASSUME NEW db \in Databases, NEW i \in Ids
    PROVE  /\ Agree(MemCreateProject(db, i), [db EXCEPT !.project = NewProject(i)])
           /\ SqlEnsureProject(db, i) = MemEnsureProject(db, i)
           /\ db.project = None => MemEnsureProject(db, i) = MemCreateProject(db, i)
           /\ db.project # None => MemEnsureProject(db, i) = db
           /\ MemEnsureProject(db, i).project # None
           /\ \A f : /\ db.project = None => MemUpdateProject(db, i, f) = db
                     /\ Agree(SqlUpdateProject(db, db.project, i, f), MemUpdateProject(db, i, f))
           /\ Agree(SqlDeleteProject(db), MemDeleteProject(db))
           /\ Agree([db EXCEPT !.secret = i], db)
           /\ Agree(MemSetSecret(db, i), db)
           /\ Agree(MemCreateTrigger(db, i), db)
           /\ \A id : Agree(UpdateTrigger(db, i, id), db) /\ Agree(DeleteTrigger(db, id), db)
           /\ \A t : Agree([db EXCEPT !.triggers = t], db)
<1>1. NewProject(i) # None
  BY RowTypes, NoneIsNoRow
<1>2. ASSUME NEW f
      PROVE  /\ db.project = None => MemUpdateProject(db, i, f) = db
             /\ Agree(SqlUpdateProject(db, db.project, i, f), MemUpdateProject(db, i, f))
  <2>1. CASE db.project = None
    BY <2>1 DEF MemUpdateProject, SqlUpdateProject, Agree
  <2>2. CASE db.project # None
    <3>1. db.project \in Projects
      BY <2>2 DEF Databases
    <3> QED
      BY <2>2, <3>1 DEF MemUpdateProject, SqlUpdateProject, Agree, Databases, Projects
  <2> QED
    BY <2>1, <2>2
<1>3. Agree(SqlDeleteProject(db), MemDeleteProject(db))
  BY DEF SqlDeleteProject, MemDeleteProject, Agree, Databases
<1>4. /\ Agree(MemCreateProject(db, i), [db EXCEPT !.project = NewProject(i)])
      /\ SqlEnsureProject(db, i) = MemEnsureProject(db, i)
      /\ db.project = None => MemEnsureProject(db, i) = MemCreateProject(db, i)
      /\ db.project # None => MemEnsureProject(db, i) = db
      /\ MemEnsureProject(db, i).project # None
  BY <1>1 DEF MemCreateProject, SqlEnsureProject, MemEnsureProject, Agree, Databases
<1>5. /\ Agree([db EXCEPT !.secret = i], db)
      /\ Agree(MemSetSecret(db, i), db)
      /\ Agree(MemCreateTrigger(db, i), db)
      /\ \A id : Agree(UpdateTrigger(db, i, id), db) /\ Agree(DeleteTrigger(db, id), db)
      /\ \A t : Agree([db EXCEPT !.triggers = t], db)
  BY DEF MemSetSecret, MemCreateTrigger, UpdateTrigger, DeleteTrigger, Agree, Databases
<1> QED
  BY <1>2, <1>3, <1>4, <1>5

LEMMA WorkflowTables ==
    ASSUME NEW db \in Databases
    PROVE  /\ \A g, m : /\ db.workflow = None => MemUpsertWorkflow(db, g, m) = MemCreateWorkflow(db, g, m)
                        /\ ~Relabels(db, g, m)
                              => Agree(SqlUpsertWorkflow(db, g, m), MemUpsertWorkflow(db, g, m))
           /\ \A s : db.workflow = None => SetWorkflowStatus(db, s) = db
           /\ db.runs = {} => Agree(SqlDeleteWorkflow(db), MemDeleteWorkflow(db))
<1>1. ASSUME NEW g, NEW m
      PROVE  /\ db.workflow = None => MemUpsertWorkflow(db, g, m) = MemCreateWorkflow(db, g, m)
             /\ ~Relabels(db, g, m)
                   => Agree(SqlUpsertWorkflow(db, g, m), MemUpsertWorkflow(db, g, m))
  BY DEF MemUpsertWorkflow, SqlUpsertWorkflow, MemCreateWorkflow, Relabels, Agree, Databases
<1>2. \A s : db.workflow = None => SetWorkflowStatus(db, s) = db
  BY DEF SetWorkflowStatus
<1>3. db.runs = {} => Agree(SqlDeleteWorkflow(db), MemDeleteWorkflow(db))
  BY DEF SqlDeleteWorkflow, MemDeleteWorkflow, Agree, Databases
<1> QED
  BY <1>1, <1>2, <1>3

(* A statement does to two databases that agree what leaves them agreeing. *)
LEMMA SameTables ==
    ASSUME NEW a \in Databases, NEW b \in Databases, Agree(a, b), NEW i
    PROVE  /\ Agree(b, a) /\ Agree(a, a)
           /\ Agree(MemCreateProject(a, i), MemCreateProject(b, i))
           /\ Agree(MemEnsureProject(a, i), MemEnsureProject(b, i))
           /\ \A f : Agree(MemUpdateProject(a, i, f), MemUpdateProject(b, i, f))
           /\ Agree(MemDeleteProject(a), MemDeleteProject(b))
           /\ \A g, m : /\ Agree(MemCreateWorkflow(a, g, m), MemCreateWorkflow(b, g, m))
                        /\ Agree(MemUpsertWorkflow(a, g, m), MemUpsertWorkflow(b, g, m))
           /\ \A s : Agree(SetWorkflowStatus(a, s), SetWorkflowStatus(b, s))
           /\ Agree(MemDeleteWorkflow(a), MemDeleteWorkflow(b))
           /\ \A r : Agree(PutRun(a, r), PutRun(b, r))
<1>1. a.project = b.project /\ a.workflow = b.workflow /\ a.runs = b.runs
  BY DEF Agree
<1> USE <1>1 DEF Agree, Databases
<1>2. /\ Agree(MemCreateProject(a, i), MemCreateProject(b, i))
      /\ Agree(MemEnsureProject(a, i), MemEnsureProject(b, i))
      /\ Agree(MemDeleteProject(a), MemDeleteProject(b))
  BY DEF MemCreateProject, MemEnsureProject, MemDeleteProject
<1>3. \A f : Agree(MemUpdateProject(a, i, f), MemUpdateProject(b, i, f))
  BY DEF MemUpdateProject
<1>4. \A g, m : /\ Agree(MemCreateWorkflow(a, g, m), MemCreateWorkflow(b, g, m))
                /\ Agree(MemUpsertWorkflow(a, g, m), MemUpsertWorkflow(b, g, m))
  BY DEF MemCreateWorkflow, MemUpsertWorkflow
<1>5. \A s : Agree(SetWorkflowStatus(a, s), SetWorkflowStatus(b, s))
  BY DEF SetWorkflowStatus
<1>6. Agree(MemDeleteWorkflow(a), MemDeleteWorkflow(b)) /\ \A r : Agree(PutRun(a, r), PutRun(b, r))
  BY DEF MemDeleteWorkflow, PutRun
<1> QED
  BY <1>2, <1>3, <1>4, <1>5, <1>6

LEMMA SameLinks ==
    ASSUME NEW a, NEW b, NEW c, Agree(a, b)
    PROVE  /\ Agree(b, a)
           /\ Agree(b, c) => Agree(a, c)
           /\ Agree(a, c) => Agree(b, c)
  BY DEF Agree

(* How far request i, alone at work, has taken one store ahead of the other. *)
Half(i) ==
    LET k == req[i].kind
    IN  /\ k = "CreateProject" =>
              /\ Due(i, "memory") => Agree(mem, sql)
              /\ ~Due(i, "memory") => /\ Agree(mem, MemEnsureProject(sql, i))
                                      /\ Due(i, "ensure") \/ sql.project # None
        /\ k \in Patches =>
              Agree(mem, IF ~Due(i, "memory") /\ Due(i, "update")
                        THEN MemUpdateProject(sql, i, Field(i)) ELSE sql)
        /\ k = "CreateWorkflow" =>
              /\ Agree(mem, IF ~Due(i, "memory") /\ Due(i, "upsert")
                           THEN MemUpsertWorkflow(sql, req[i].graph, req[i].metadata) ELSE sql)
              /\ mode = "dual_sql" /\ Due(i, "memory") /\ ~Due(i, "vacant") => sql.workflow = None
        /\ k \in Stamps =>
              Agree(mem, IF ~Due(i, "memory") /\ Due(i, "status")
                        THEN SetWorkflowStatus(sql, Status(i)) ELSE sql)
        /\ k = "DeleteProject" =>
              Agree(IF ~Due(i, "delete_project") /\ Due(i, "memory")
                   THEN MemDeleteProject(mem) ELSE mem, sql)
        /\ k = "DeleteWorkflow" =>
              /\ Agree(IF ~Due(i, "delete_workflow") /\ Due(i, "memory")
                      THEN MemDeleteWorkflow(mem) ELSE mem, sql)
              /\ Due(i, "delete_workflow") /\ ~Due(i, "count") => sql.runs = {}
        /\ k = "RunWorkflow" =>
              Agree(IF ~Due(i, "insert_run") /\ Due(i, "memory") THEN PutRun(mem, Run(i)) ELSE mem, sql)
        /\ k = "RunProject" =>
              /\ Due(i, "memory_ensure") => Agree(mem, sql)
              /\ ~Due(i, "memory_ensure") /\ Due(i, "memory_upsert") =>
                    /\ Agree(mem, MemEnsureProject(sql, i))
                    /\ Due(i, "ensure") \/ sql.project # None
              /\ ~Due(i, "memory_ensure") /\ ~Due(i, "memory_upsert") /\ Due(i, "upsert") =>
                    Agree(mem, MemUpsertWorkflow(sql, req[i].graph, req[i].metadata))
              /\ ~Due(i, "memory_ensure") /\ ~Due(i, "memory_upsert") /\ ~Due(i, "upsert") =>
                    Agree(IF ~Due(i, "insert_run") /\ Due(i, "memory") THEN PutRun(mem, Run(i)) ELSE mem,
                         sql)
        /\ k \in {"GetProject", "PutSecret", "CreateTrigger", "PatchTrigger", "DeleteTrigger"} =>
              Agree(mem, sql)

(* A request that is over has taken both as far. *)
LEMMA NothingDue ==
    ASSUME NEW i \in Ops, mem' \in Databases, sql' \in Databases, req'[i].kind \in Kinds,
           Half(i)', \A w \in Marks : ~Due(i, w)'
    PROVE  Agree(mem', sql')
<1>1. i \in Ids
  BY StoreAssumption DEF Ids, Ops
<1>2. sql'.project # None => MemEnsureProject(sql', i) = sql'
  BY <1>1, StatementTables
<1>3. /\ ~Due(i, "memory")' /\ ~Due(i, "ensure")' /\ ~Due(i, "update")' /\ ~Due(i, "upsert")'
      /\ ~Due(i, "status")' /\ ~Due(i, "memory_ensure")' /\ ~Due(i, "memory_upsert")'
  BY DEF Marks
<1> QED
  BY <1>2, <1>3 DEF Half, Kinds, Patches, Stamps

(* A statement that does not matter to the agreement: the same writes are  *)
(* due after it, but for an ensure that finds the project there.           *)
LEMMA Neutral ==
    ASSUME NEW i \in Ops, TypeOK, mem' \in Databases, sql' \in Databases,
           Half(i), UNCHANGED <<mode, req>>,
           Agree(mem', mem), Agree(sql', sql),
           \A w \in Marks : w # "ensure" => (Due(i, w)' <=> Due(i, w)),
           Due(i, "ensure")' => Due(i, "ensure"),
           Due(i, "ensure") => Due(i, "ensure")' \/ sql.project # None,
           loaded' = loaded \/ Due(i, "insert_run")
    PROVE  Half(i)'
<1>1. mem \in Databases /\ sql \in Databases
  BY DEF TypeOK
<1>2. /\ Field(i)' = Field(i) /\ Status(i)' = Status(i) /\ req[i]' = req[i]
      /\ loaded' = loaded => Run(i)' = Run(i)
  BY DEF Field, Status, Run
<1>3. /\ Due(i, "memory")' <=> Due(i, "memory")
      /\ Due(i, "update")' <=> Due(i, "update")
      /\ Due(i, "upsert")' <=> Due(i, "upsert")
      /\ Due(i, "vacant")' <=> Due(i, "vacant")
      /\ Due(i, "count")' <=> Due(i, "count")
      /\ Due(i, "status")' <=> Due(i, "status")
      /\ Due(i, "delete_project")' <=> Due(i, "delete_project")
      /\ Due(i, "delete_workflow")' <=> Due(i, "delete_workflow")
      /\ Due(i, "insert_run")' <=> Due(i, "insert_run")
      /\ Due(i, "memory_ensure")' <=> Due(i, "memory_ensure")
      /\ Due(i, "memory_upsert")' <=> Due(i, "memory_upsert")
  BY DEF Marks
<1>4. sql'.project = sql.project /\ sql'.workflow = sql.workflow /\ sql'.runs = sql.runs
  BY DEF Agree
<1>5. /\ Agree(MemEnsureProject(sql', i), MemEnsureProject(sql, i))
      /\ \A f : Agree(MemUpdateProject(sql', i, f), MemUpdateProject(sql, i, f))
      /\ \A g, m : Agree(MemUpsertWorkflow(sql', g, m), MemUpsertWorkflow(sql, g, m))
      /\ \A s : Agree(SetWorkflowStatus(sql', s), SetWorkflowStatus(sql, s))
  BY <1>1, SameTables
<1>6. /\ Agree(MemDeleteProject(mem'), MemDeleteProject(mem))
      /\ Agree(MemDeleteWorkflow(mem'), MemDeleteWorkflow(mem))
      /\ \A r : Agree(PutRun(mem', r), PutRun(mem, r))
  BY <1>1, SameTables
<1>7. ASSUME NEW a, NEW b, NEW c, NEW d, Agree(c, a), Agree(d, b), Agree(a, b)
      PROVE  Agree(c, d)
  BY <1>7 DEF Agree
<1> DEFINE k == req[i].kind
<1>8. k = "CreateProject" => Half(i)'
  BY <1>2, <1>3, <1>4, <1>5, <1>7 DEF Half, Patches, Stamps
<1>9. k \in Patches => Half(i)'
  BY <1>2, <1>3, <1>4, <1>5, <1>7 DEF Half, Patches, Stamps
<1>10. k = "CreateWorkflow" => Half(i)'
  BY <1>2, <1>3, <1>4, <1>5, <1>7 DEF Half, Patches, Stamps
<1>11. k \in Stamps => Half(i)'
  BY <1>2, <1>3, <1>4, <1>5, <1>7 DEF Half, Patches, Stamps
<1>12. k = "DeleteProject" => Half(i)'
  BY <1>2, <1>3, <1>6, <1>7 DEF Half, Patches, Stamps
<1>13. k = "DeleteWorkflow" => Half(i)'
  BY <1>2, <1>3, <1>4, <1>6, <1>7 DEF Half, Patches, Stamps
<1>14. k = "RunWorkflow" => Half(i)'
  BY <1>2, <1>3, <1>6, <1>7 DEF Half, Patches, Stamps
<1>15. k = "RunProject" => Half(i)'
  BY <1>2, <1>3, <1>4, <1>5, <1>6, <1>7 DEF Half, Patches, Stamps
<1>16. k \notin {"CreateProject", "CreateWorkflow", "DeleteProject", "DeleteWorkflow",
                 "RunWorkflow", "RunProject"} \cup Patches \cup Stamps => Half(i)'
  BY <1>2, <1>7 DEF Half, Patches, Stamps
<1> QED
  BY <1>8, <1>9, <1>10, <1>11, <1>12, <1>13, <1>14, <1>15, <1>16

(* Request i makes a statement, while it alone is at work. *)
Works(i) ==
    /\ TypeOK /\ Handlers /\ HasRead /\ HasLoaded
    /\ mem' \in Databases /\ sql' \in Databases
    /\ Dual /\ ~disturbed'
    /\ Stepped(i)
    /\ SqlRead(i) \/ SqlWrite(i) \/ MemoryStep(i)
    /\ Sequenced(req[i].kind, plan[i])
    /\ Half(i)

(* The writes due after the step are those that were due behind it. *)
Advances(i) == \A w \in Marks : Due(i, w)' <=> Left(plan[i], w)

(* What the step may come to. *)
HalfOrDone(i) == Half(i)' \/ (plan'[i] = Refused /\ Agree(mem', sql'))

LEMMA Ahead ==
    ASSUME NEW i \in Ops, Works(i), NEW w, At(i, w)
    PROVE  /\ plan[i] \in Seq(Statements) /\ plan[i] # <<>> /\ plan[i][1] = w
           /\ i \in Ids /\ req[i].kind \in Kinds /\ PlanOK(mode, req[i].kind, plan[i])
           /\ Fits(mode, req[i].kind, w)
           /\ mem \in Databases /\ sql \in Databases /\ mem' \in Databases /\ sql' \in Databases
           /\ mode' = mode /\ req' = req /\ Field(i)' = Field(i) /\ Status(i)' = Status(i)
           /\ \A x : Due(i, x) <=> x = w \/ Left(plan[i], x)
           /\ \A x : Later(plan[i], w, x) => Left(plan[i], x)
           /\ \A x : NoMore(plan[i], w, x) => ~Left(plan[i], x)
<1>1. /\ plan[i] \in Seq(Statements) /\ plan[i] # <<>> /\ Head(plan[i]) = w
      /\ req[i].kind \in Kinds /\ PlanOK(mode, req[i].kind, plan[i])
      /\ mem \in Databases /\ sql \in Databases /\ mem' \in Databases /\ sql' \in Databases
      /\ mode' = mode /\ req' = req
  BY DEF Works, Stepped, TypeOK, At
<1>2. plan[i][1] = w /\ 1 \in 1 .. Len(plan[i])
  BY <1>1
<1>3. \A x : Due(i, x) <=> x = w \/ Left(plan[i], x)
  BY <1>1, <1>2, HasFirst DEF Due
<1>4. /\ \A x : Later(plan[i], w, x) => Left(plan[i], x)
      /\ \A x : NoMore(plan[i], w, x) => ~Left(plan[i], x)
  BY <1>1, <1>2, FirstOrder
<1>5. Fits(mode, req[i].kind, w)
  BY <1>1, <1>2 DEF PlanOK
<1>6. i \in Ids
  BY StoreAssumption DEF Ids, Ops
<1>7. Field(i)' = Field(i) /\ Status(i)' = Status(i)
  BY <1>1 DEF Field, Status
<1> QED
  BY <1>1, <1>2, <1>3, <1>4, <1>5, <1>6, <1>7

LEMMA TailAdvances ==
    ASSUME NEW i \in Ops, Works(i), plan'[i] \in {Tail(plan[i]), Tail(plan[i]) \o Refused}
    PROVE  Advances(i)
<1>1. plan[i] \in Seq(Statements) /\ plan[i] # <<>>
  BY DEF Works, Stepped, TypeOK
<1> QED
  BY <1>1, TailMarks DEF Advances, Due

(* A statement that is no mark, and changes nothing of the agreement. *)
LEMMA UnmarkedStep ==
    ASSUME NEW i \in Ops, Works(i), NEW w, At(i, w), w \notin Marks,
           Advances(i), Agree(mem', mem), Agree(sql', sql),
           loaded' = loaded \/ Due(i, "insert_run")
    PROVE  Half(i)'
<1>1. \A x \in Marks : Due(i, x)' <=> Due(i, x)
  BY Ahead DEF Advances
<1>2. Due(i, "ensure")' <=> Due(i, "ensure")
  BY <1>1 DEF Marks
<1>3. /\ TypeOK /\ mem' \in Databases /\ sql' \in Databases /\ Half(i)
      /\ UNCHANGED <<mode, req>>
  BY Ahead DEF Works
<1> QED
  BY <1>1, <1>2, <1>3, Neutral

-----------------------------------------------------------------------------
(* The statements of InMemoryStore. *)

LEMMA EnsureInMemory ==
    ASSUME NEW i \in Ops, Works(i), DualMemoryEnsure(i)
    PROVE  Half(i)'
<1>1. At(i, "memory_ensure") /\ mem' = MemEnsureProject(mem, i) /\ sql' = sql
      /\ plan'[i] = Tail(plan[i])
  BY DEF DualMemoryEnsure, InMemory, GoOn, Works, TypeOK
<1>2. req[i].kind = "RunProject" /\ Advances(i)
  BY <1>1, Ahead, TailAdvances DEF Fits
<1>3. Left(plan[i], "ensure") /\ Left(plan[i], "memory_upsert") /\ ~Left(plan[i], "memory_ensure")
  BY <1>1, <1>2, Ahead DEF Works, Sequenced, Runs
<1>4. Agree(mem, sql)
  BY <1>1, <1>2, Ahead DEF Works, Half
<1>5. Agree(mem', MemEnsureProject(sql', i))
  BY <1>1, <1>4, Ahead, SameTables
<1>6. ~Due(i, "memory_ensure")' /\ Due(i, "memory_upsert")' /\ Due(i, "ensure")'
  BY <1>2, <1>3 DEF Advances, Marks
<1>7. req'[i].kind = "RunProject"
  BY <1>1, <1>2, Ahead
<1> QED
  BY <1>5, <1>6, <1>7 DEF Half, Patches, Stamps

LEMMA UpsertInMemory ==
    ASSUME NEW i \in Ops, Works(i), DualMemoryUpsert(i)
    PROVE  Half(i)'
<1> DEFINE g == req[i].graph
<1>1. /\ At(i, "memory_upsert") /\ sql' = sql /\ plan'[i] = Tail(plan[i])
      /\ mem' = MemUpsertWorkflow(IF ReadsSql THEN mem ELSE MemEnsureProject(mem, i), g, req[i].metadata)
  BY DEF DualMemoryUpsert, InMemory, GoOn, Works, TypeOK
<1>2. req[i].kind = "RunProject" /\ Advances(i)
  BY <1>1, Ahead, TailAdvances DEF Fits
<1>3. /\ Left(plan[i], "upsert") /\ ~Left(plan[i], "ensure")
      /\ ~Left(plan[i], "memory_ensure") /\ ~Left(plan[i], "memory_upsert")
  BY <1>1, <1>2, Ahead DEF Works, Sequenced, Runs
<1>4. Agree(mem, MemEnsureProject(sql, i)) /\ sql.project # None
  BY <1>1, <1>2, <1>3, Ahead DEF Works, Half
<1>5. Agree(mem, sql) /\ mem.project # None
  BY <1>1, <1>4, Ahead, StatementTables DEF Agree
<1>6. mem' = MemUpsertWorkflow(mem, g, req[i].metadata)
  BY <1>1, <1>2, <1>5, Ahead, StatementTables
<1>7. Agree(mem', MemUpsertWorkflow(sql', g, req[i].metadata))
  BY <1>1, <1>5, <1>6, Ahead, SameTables
<1>8. ~Due(i, "memory_ensure")' /\ ~Due(i, "memory_upsert")' /\ Due(i, "upsert")'
  BY <1>2, <1>3 DEF Advances, Marks
<1>9. req'[i].kind = "RunProject" /\ req'[i].graph = g /\ req'[i].metadata = req[i].metadata
  BY <1>1, <1>2, Ahead
<1> QED
  BY <1>7, <1>8, <1>9 DEF Half, Patches, Stamps

LEMMA ChangeMemory ==
    ASSUME NEW i \in Ops, Works(i), DualMemory(i)
    PROVE  HalfOrDone(i)
<1> DEFINE k == req[i].kind
           p == plan[i]
<1>1. /\ At(i, "memory") /\ sql' = sql /\ loaded' = loaded
      /\ k = "CreateProject" => mem.project = None
  BY DEF DualMemory, InMemory, Works, Disturb
<1>2. CASE ~GuardHolds(k)
  <2>1. plan'[i] = Refused /\ mem' = mem
    BY <1>2 DEF DualMemory, InMemory, GoOn, Works, TypeOK
  <2>2. k \in {"PutSecret", "CreateTrigger", "PatchTrigger", "CreateWorkflow"}
    BY <1>2 DEF GuardHolds
  <2>3. Due(i, "memory")
    BY <1>1, Ahead
  <2>4. Agree(mem, sql)
    BY <2>2, <2>3 DEF Works, Half
  <2> QED
    BY <1>1, <2>1, <2>4 DEF HalfOrDone
<1>3. CASE GuardHolds(k)
  <2>1. mem' = MemEffect(i) /\ plan'[i] = Tail(p) \o MemAnswer(i)
    BY <1>3 DEF DualMemory, InMemory, GoOn, Works, TypeOK
  <2>2. Advances(i)
    <3>1. Tail(p) \o <<>> = Tail(p)
      BY <1>1, Ahead
    <3>2. plan'[i] \in {Tail(p), Tail(p) \o Refused}
      BY <2>1, <3>1 DEF MemAnswer, InDualMem
    <3> QED
      BY <3>2, TailAdvances
  <2>3. Due(i, "memory") /\ req'[i].kind = k /\ k \in Kinds
    BY <1>1, Ahead
  <2>4. \A x \in Marks : Due(i, x)' <=> Left(p, x)
    BY <2>2 DEF Advances
  <2>5. CASE k = "CreateProject"
    <3>1. Left(p, "ensure") /\ ~Left(p, "memory")
      BY <1>1, <2>5, Ahead DEF Works, Sequenced
    <3>2. Agree(mem, sql) /\ mem.project = None
      BY <1>1, <2>3, <2>5 DEF Works, Half
    <3>3. mem' = MemEnsureProject(mem, i)
      BY <1>1, <2>1, <2>5, <3>2, Ahead, StatementTables DEF MemEffect, Runs
    <3>4. Agree(mem', MemEnsureProject(sql', i))
      BY <1>1, <3>2, <3>3, Ahead, SameTables
    <3>5. ~Due(i, "memory")' /\ Due(i, "ensure")'
      BY <2>4, <3>1 DEF Marks
    <3>6. Half(i)'
      BY <2>3, <2>5, <3>4, <3>5 DEF Half, Patches, Stamps
    <3> QED
      BY <3>6 DEF HalfOrDone
  <2>6. CASE k \in Patches
    <3>1. Left(p, "update") /\ ~Left(p, "memory")
      BY <1>1, <2>6, Ahead DEF Works, Sequenced
    <3>2. Agree(mem, sql)
      BY <2>3, <2>6 DEF Works, Half
    <3>3. mem' = MemUpdateProject(mem, i, Field(i))
      BY <1>1, <2>1, <2>6, Ahead DEF MemEffect, Field, Patches, Runs
    <3>4. Agree(mem', MemUpdateProject(sql', i, Field(i)))
      BY <1>1, <3>2, <3>3, Ahead, SameTables
    <3>5. ~Due(i, "memory")' /\ Due(i, "update")' /\ Field(i)' = Field(i)
      BY <1>1, <2>4, <3>1, Ahead DEF Marks
    <3>6. Half(i)'
      BY <2>3, <2>6, <3>4, <3>5 DEF Half, Patches, Stamps
    <3> QED
      BY <3>6 DEF HalfOrDone
  <2>7. CASE k = "CreateWorkflow"
    <3>1. Left(p, "upsert") /\ ~Left(p, "memory") /\ ~Left(p, "vacant")
      BY <1>1, <2>7, Ahead DEF Works, Sequenced
    <3>2. Agree(mem, sql) /\ sql.workflow = None
      <4>1. Agree(mem, sql)
        BY <2>3, <2>7 DEF Works, Half
      <4>2. mode = "dual_sql" => sql.workflow = None
        BY <1>1, <2>3, <2>7, <3>1, Ahead DEF Works, Half
      <4>3. mode = "dual_memory" => sql.workflow = None
        BY <1>3, <2>7, <4>1 DEF GuardHolds, Agree
      <4> QED
        BY <4>1, <4>2, <4>3 DEF Works, Dual
    <3>3. mem' = MemCreateWorkflow(mem, req[i].graph, req[i].metadata)
      BY <2>1, <2>7 DEF MemEffect, Runs
    <3>4. MemCreateWorkflow(sql, req[i].graph, req[i].metadata) =
             MemUpsertWorkflow(sql, req[i].graph, req[i].metadata)
      BY <1>1, <3>2, Ahead, WorkflowTables
    <3>5. Agree(mem', MemUpsertWorkflow(sql', req[i].graph, req[i].metadata))
      BY <1>1, <3>2, <3>3, <3>4, Ahead, SameTables
    <3>6. /\ ~Due(i, "memory")' /\ Due(i, "upsert")'
          /\ req'[i].graph = req[i].graph /\ req'[i].metadata = req[i].metadata
      BY <1>1, <2>4, <3>1, Ahead DEF Marks
    <3>7. Half(i)'
      BY <2>3, <2>7, <3>5, <3>6 DEF Half, Patches, Stamps
    <3> QED
      BY <3>7 DEF HalfOrDone
  <2>8. CASE k \in Stamps
    <3>1. Left(p, "status") /\ ~Left(p, "memory")
      BY <1>1, <2>8, Ahead DEF Works, Sequenced
    <3>2. Agree(mem, sql)
      BY <2>3, <2>8 DEF Works, Half
    <3>3. mem' = SetWorkflowStatus(mem, Status(i))
      BY <2>1, <2>8 DEF MemEffect, Stamps, Runs
    <3>4. Agree(mem', SetWorkflowStatus(sql', Status(i)))
      BY <1>1, <3>2, <3>3, Ahead, SameTables
    <3>5. ~Due(i, "memory")' /\ Due(i, "status")' /\ Status(i)' = Status(i)
      BY <1>1, <2>4, <3>1, Ahead DEF Marks
    <3>6. Half(i)'
      BY <2>3, <2>8, <3>4, <3>5 DEF Half, Patches, Stamps
    <3> QED
      BY <3>6 DEF HalfOrDone
  <2>9. CASE k = "DeleteProject"
    <3>1. ~Left(p, "delete_project") /\ ~Left(p, "memory")
      BY <1>1, <2>9, Ahead DEF Works, Sequenced
    <3>2. Agree(MemDeleteProject(mem), sql)
      BY <1>1, <2>3, <2>9, <3>1, Ahead DEF Works, Half
    <3>3. mem' = MemDeleteProject(mem)
      BY <2>1, <2>9 DEF MemEffect, Runs
    <3>4. ~Due(i, "memory")'
      BY <2>4, <3>1 DEF Marks
    <3>5. Half(i)'
      BY <1>1, <2>3, <2>9, <3>2, <3>3, <3>4 DEF Half, Patches, Stamps
    <3> QED
      BY <3>5 DEF HalfOrDone
  <2>10. CASE k = "DeleteWorkflow"
    <3>1. ~Left(p, "delete_workflow") /\ ~Left(p, "memory")
      BY <1>1, <2>10, Ahead DEF Works, Sequenced
    <3>2. Agree(MemDeleteWorkflow(mem), sql)
      BY <1>1, <2>3, <2>10, <3>1, Ahead DEF Works, Half
    <3>3. mem' = MemDeleteWorkflow(mem)
      BY <2>1, <2>10 DEF MemEffect, Runs
    <3>4. ~Due(i, "memory")' /\ ~Due(i, "delete_workflow")'
      BY <2>4, <3>1 DEF Marks
    <3>5. Half(i)'
      BY <1>1, <2>3, <2>10, <3>2, <3>3, <3>4 DEF Half, Patches, Stamps
    <3> QED
      BY <3>5 DEF HalfOrDone
  <2>11. CASE k \in Runs
    <3>1. ~Left(p, "insert_run") /\ ~Left(p, "memory")
      BY <1>1, <2>11, Ahead DEF Works, Sequenced
    <3>2. k = "RunProject" => /\ ~Left(p, "memory_ensure") /\ ~Left(p, "memory_upsert")
                              /\ ~Left(p, "upsert")
      BY <1>1, <2>11, Ahead DEF Works, Sequenced
    <3>3. Agree(PutRun(mem, Run(i)), sql)
      BY <1>1, <2>3, <2>11, <3>1, <3>2, Ahead DEF Works, Half, Runs
    <3>4. mem' = PutRun(mem, Run(i))
      BY <2>1, <2>11 DEF MemEffect, Runs
    <3>5. /\ ~Due(i, "memory")'
          /\ k = "RunProject" => /\ ~Due(i, "memory_ensure")' /\ ~Due(i, "memory_upsert")'
                                 /\ ~Due(i, "upsert")'
      BY <2>4, <3>1, <3>2 DEF Marks
    <3>6. Half(i)'
      BY <1>1, <2>3, <2>11, <3>3, <3>4, <3>5 DEF Half, Patches, Stamps, Runs
    <3> QED
      BY <3>6 DEF HalfOrDone
  <2>12. CASE k \in {"GetProject", "PutSecret", "CreateTrigger", "PatchTrigger", "DeleteTrigger"}
    <3>1. Agree(mem, sql)
      BY <2>12 DEF Works, Half
    <3>2. mem' \in {mem, MemSetSecret(mem, i), MemCreateTrigger(mem, i),
                    UpdateTrigger(mem, i, Target(i)), DeleteTrigger(mem, Target(i))}
      BY <2>1, <2>12 DEF MemEffect, Runs
    <3>3. Agree(mem', mem)
      <4>1. mem \in Databases /\ i \in Ids
        BY <1>1, Ahead
      <4>2. /\ Agree(mem, mem) /\ Agree(MemSetSecret(mem, i), mem) /\ Agree(MemCreateTrigger(mem, i), mem)
            /\ Agree(UpdateTrigger(mem, i, Target(i)), mem) /\ Agree(DeleteTrigger(mem, Target(i)), mem)
        BY <4>1, StatementTables DEF Agree
      <4> QED
        BY <3>2, <4>2
    <3>4. Agree(mem', sql')
      BY <1>1, <3>1, <3>3, SameLinks
    <3>5. Half(i)'
      BY <2>3, <2>12, <3>4 DEF Half, Patches, Stamps
    <3> QED
      BY <3>5 DEF HalfOrDone
  <2> QED
    BY <2>3, <2>5, <2>6, <2>7, <2>8, <2>9, <2>10, <2>11, <2>12 DEF Kinds, Patches, Stamps, Runs
<1> QED
  BY <1>2, <1>3

(* The statements that write to SQL. *)

LEMMA EnsureInSql ==
    ASSUME NEW i \in Ops, Works(i), EnsureProject(i)
    PROVE  Half(i)'
<1> DEFINE k == req[i].kind
           p == plan[i]
<1>1. /\ At(i, "ensure") /\ mem' = mem /\ sql' = SqlEnsureProject(sql, i) /\ plan'[i] = Tail(p)
  BY DEF EnsureProject, Write, GoOn, Works, TypeOK
<1>2. k \in {"CreateProject", "RunProject"} /\ Advances(i) /\ req'[i].kind = k
  BY <1>1, Ahead, TailAdvances DEF Fits
<1>3. /\ k = "CreateProject" => ~Left(p, "memory")
      /\ k = "RunProject" => ~Left(p, "memory_ensure") /\ Left(p, "memory_upsert")
  BY <1>1, <1>2, Ahead DEF Works, Sequenced, Runs
<1>4. Agree(mem, MemEnsureProject(sql, i))
  BY <1>1, <1>2, <1>3, Ahead DEF Works, Half
<1>5. sql' = MemEnsureProject(sql, i) /\ sql'.project # None /\ MemEnsureProject(sql', i) = sql'
  <2>1. sql \in Databases /\ sql' \in Databases /\ i \in Ids
    BY <1>1, Ahead
  <2>2. sql' = MemEnsureProject(sql, i) /\ MemEnsureProject(sql, i).project # None
    BY <1>1, <2>1, StatementTables
  <2>3. sql'.project # None => MemEnsureProject(sql', i) = sql'
    BY <2>1, StatementTables
  <2> QED
    BY <2>2, <2>3
<1>6. /\ k = "CreateProject" => ~Due(i, "memory")'
      /\ k = "RunProject" => ~Due(i, "memory_ensure")' /\ Due(i, "memory_upsert")'
  BY <1>2, <1>3 DEF Advances, Marks
<1>7. Agree(mem', MemEnsureProject(sql', i))
  BY <1>1, <1>4, <1>5
<1>8. CASE k = "CreateProject"
  BY <1>2, <1>5, <1>6, <1>7, <1>8 DEF Half, Patches, Stamps
<1>9. CASE k = "RunProject"
  BY <1>2, <1>5, <1>6, <1>7, <1>9 DEF Half, Patches, Stamps
<1> QED
  BY <1>2, <1>8, <1>9

(* The handler has read the project as it is. *)
LEMMA UpdateInSql ==
    ASSUME NEW i \in Ops, Works(i), UpdateProject(i), seen[i] = sql.project
    PROVE  Half(i)'
<1> DEFINE k == req[i].kind
           p == plan[i]
<1>1. /\ At(i, "update") /\ mem' = mem /\ sql' = SqlUpdateProject(sql, sql.project, i, Field(i))
      /\ plan'[i] \in {Tail(p), SubSeq(p, 3, Len(p))}
  BY DEF UpdateProject, Write, GoOn, Works, TypeOK, Field
<1>2. k \in Patches /\ req'[i].kind = k
  BY <1>1, Ahead DEF Fits
<1>3. Advances(i)
  <2>1. CASE plan'[i] = Tail(p)
    BY <2>1, TailAdvances
  <2>2. CASE plan'[i] = SubSeq(p, 3, Len(p))
    <3>1. PlanOK(mode, k, p) /\ p # <<>> /\ p[1] = "update"
      BY <1>1, Ahead
    <3>2. \A w \in Marks : Has(plan'[i], w) <=> Left(p, w)
      BY <2>2, <3>1, SkipMarks
    <3> QED
      BY <3>2 DEF Advances, Due
  <2> QED
    BY <1>1, <2>1, <2>2
<1>4. ~Left(p, "memory") /\ ~Left(p, "update")
  BY <1>1, <1>2, Ahead DEF Works, Sequenced
<1>5. Agree(mem, MemUpdateProject(sql, i, Field(i)))
  BY <1>1, <1>2, <1>4, Ahead DEF Works, Half
<1>6. Agree(sql', MemUpdateProject(sql, i, Field(i)))
  BY <1>1, Ahead, StatementTables
<1>7. Agree(mem', sql')
  BY <1>1, <1>5, <1>6 DEF Agree
<1>8. ~Due(i, "memory")' /\ ~Due(i, "update")'
  BY <1>3, <1>4 DEF Advances, Marks
<1> QED
  BY <1>2, <1>7, <1>8 DEF Half, Patches, Stamps

LEMMA DeleteProjectInSql ==
    ASSUME NEW i \in Ops, Works(i), DeleteProject(i)
    PROVE  Half(i)'
<1> DEFINE p == plan[i]
<1>1. /\ At(i, "delete_project") /\ mem' = mem /\ sql' = SqlDeleteProject(sql)
      /\ plan'[i] = Tail(p)
  BY DEF DeleteProject, Write, GoOn, Works, TypeOK
<1>2. req[i].kind = "DeleteProject" /\ Advances(i) /\ req'[i].kind = "DeleteProject"
  BY <1>1, Ahead, TailAdvances DEF Fits
<1>3. ~Left(p, "delete_project") /\ Left(p, "memory")
  BY <1>1, <1>2, Ahead DEF Works, Sequenced
<1>4. Agree(mem, sql)
  BY <1>1, <1>2, Ahead DEF Works, Half
<1>5. Agree(MemDeleteProject(mem), MemDeleteProject(sql)) /\ Agree(sql', MemDeleteProject(sql))
  BY <1>1, <1>4, Ahead, SameTables, StatementTables
<1>6. Agree(MemDeleteProject(mem'), sql')
  BY <1>1, <1>5 DEF Agree
<1>7. ~Due(i, "delete_project")' /\ Due(i, "memory")'
  BY <1>2, <1>3 DEF Advances, Marks
<1> QED
  BY <1>2, <1>6, <1>7 DEF Half, Patches, Stamps

LEMMA UpsertInSql ==
    ASSUME NEW i \in Ops, Works(i), UpsertWorkflow(i)
    PROVE  Half(i)'
<1> DEFINE k == req[i].kind
           p == plan[i]
           g == req[i].graph
<1>1. /\ At(i, "upsert") /\ mem' = mem /\ sql' = SqlUpsertWorkflow(sql, g, req[i].metadata)
      /\ plan'[i] = Tail(p)
      /\ ~Relabels(sql, g, req[i].metadata)
  BY DEF UpsertWorkflow, Write, GoOn, Works, TypeOK, Disturb
<1>2. k \in {"CreateWorkflow", "RunProject"} /\ Advances(i) /\ req'[i].kind = k
  BY <1>1, Ahead, TailAdvances DEF Fits, Writers
<1>3. /\ k = "CreateWorkflow" => ~Left(p, "memory") /\ ~Left(p, "upsert")
      /\ k = "RunProject" => /\ ~Left(p, "memory_ensure") /\ ~Left(p, "memory_upsert")
                             /\ ~Left(p, "upsert") /\ Left(p, "insert_run")
  BY <1>1, <1>2, Ahead DEF Works, Sequenced, Runs
<1>4. Agree(mem, MemUpsertWorkflow(sql, g, req[i].metadata))
  BY <1>1, <1>2, <1>3, Ahead DEF Works, Half
<1>5. Agree(sql', MemUpsertWorkflow(sql, g, req[i].metadata))
  BY <1>1, Ahead, WorkflowTables
<1>6. Agree(mem', sql')
  BY <1>1, <1>4, <1>5 DEF Agree
<1>7. /\ k = "CreateWorkflow" => ~Due(i, "memory")' /\ ~Due(i, "upsert")'
      /\ k = "RunProject" => /\ ~Due(i, "memory_ensure")' /\ ~Due(i, "memory_upsert")'
                             /\ ~Due(i, "upsert")' /\ Due(i, "insert_run")'
  BY <1>2, <1>3 DEF Advances, Marks
<1> QED
  BY <1>2, <1>6, <1>7 DEF Half, Patches, Stamps

LEMMA StatusInSql ==
    ASSUME NEW i \in Ops, Works(i), SetStatus(i)
    PROVE  HalfOrDone(i)
<1> DEFINE p == plan[i]
<1>1. /\ At(i, "status") /\ mem' = mem /\ sql' = SetWorkflowStatus(sql, Status(i))
      /\ plan'[i] = IF ReadsSql /\ sql.workflow = None THEN Refused ELSE Tail(p)
  BY DEF SetStatus, Write, GoOn, Works, TypeOK
<1>2. req[i].kind \in Stamps /\ req'[i].kind = req[i].kind
  BY <1>1, Ahead DEF Fits, Stamps
<1>3. ~Left(p, "memory") /\ ~Left(p, "status")
  BY <1>1, <1>2, Ahead DEF Works, Sequenced
<1>4. Agree(mem', sql')
  BY <1>1, <1>2, <1>3, Ahead DEF Works, Half
<1>5. CASE plan'[i] = Tail(p)
  <2>1. ~Due(i, "memory")' /\ ~Due(i, "status")'
    BY <1>3, <1>5, TailAdvances DEF Advances, Marks
  <2>2. Half(i)'
    BY <1>2, <1>4, <2>1 DEF Half, Patches, Stamps
  <2> QED
    BY <2>2 DEF HalfOrDone
<1> QED
  BY <1>1, <1>4, <1>5 DEF HalfOrDone

(* The runs that SQL would delete with the workflow are none. *)
LEMMA DeleteWorkflowInSql ==
    ASSUME NEW i \in Ops, Works(i), DeleteSqlWorkflow(i)
    PROVE  Half(i)'
<1> DEFINE p == plan[i]
<1>1. /\ At(i, "delete_workflow") /\ mem' = mem /\ sql' = SqlDeleteWorkflow(sql)
      /\ plan'[i] = Tail(p)
  BY DEF DeleteSqlWorkflow, Write, GoOn, Works, TypeOK
<1>2. req[i].kind = "DeleteWorkflow" /\ Advances(i) /\ req'[i].kind = "DeleteWorkflow"
  BY <1>1, Ahead, TailAdvances DEF Fits
<1>3. ~Left(p, "delete_workflow") /\ ~Left(p, "count") /\ Left(p, "memory")
  BY <1>1, <1>2, Ahead DEF Works, Sequenced
<1>4. Agree(mem, sql) /\ sql.runs = {}
  BY <1>1, <1>2, <1>3, Ahead DEF Works, Half
<1>5. Agree(MemDeleteWorkflow(mem), MemDeleteWorkflow(sql)) /\ Agree(sql', MemDeleteWorkflow(sql))
  BY <1>1, <1>4, Ahead, SameTables, WorkflowTables
<1>6. Agree(MemDeleteWorkflow(mem'), sql')
  BY <1>1, <1>5 DEF Agree
<1>7. ~Due(i, "delete_workflow")' /\ Due(i, "memory")'
  BY <1>2, <1>3 DEF Advances, Marks
<1> QED
  BY <1>2, <1>6, <1>7 DEF Half, Patches, Stamps

LEMMA RunInSql ==
    ASSUME NEW i \in Ops, Works(i), InsertRun(i)
    PROVE  Half(i)'
<1> DEFINE k == req[i].kind
           p == plan[i]
<1>1. /\ At(i, "insert_run") /\ mem' = mem /\ sql' = PutRun(sql, Run(i)) /\ plan'[i] = Tail(p)
      /\ loaded' = loaded
  BY DEF InsertRun, Write, GoOn, Works, TypeOK, Disturb
<1>2. k \in Runs /\ Advances(i) /\ req'[i].kind = k /\ Run(i)' = Run(i)
  BY <1>1, Ahead, TailAdvances DEF Fits, Run
<1>3. /\ ~Left(p, "insert_run") /\ Left(p, "memory")
      /\ k = "RunProject" => /\ ~Left(p, "memory_ensure") /\ ~Left(p, "memory_upsert")
                             /\ ~Left(p, "upsert")
  BY <1>1, <1>2, Ahead DEF Works, Sequenced
<1>4. Agree(mem, sql)
  BY <1>1, <1>2, <1>3, Ahead DEF Works, Half, Runs
<1>5. Agree(PutRun(mem', Run(i)), sql')
  BY <1>1, <1>4, Ahead, SameTables
<1>6. /\ ~Due(i, "insert_run")' /\ Due(i, "memory")'
      /\ k = "RunProject" => /\ ~Due(i, "memory_ensure")' /\ ~Due(i, "memory_upsert")'
                             /\ ~Due(i, "upsert")'
  BY <1>2, <1>3 DEF Advances, Marks
<1> QED
  BY <1>2, <1>5, <1>6 DEF Half, Patches, Stamps, Runs

(* Secrets and triggers are no part of the agreement. *)
LEMMA OtherInSql ==
    ASSUME NEW i \in Ops, Works(i),
           SetSecret(i) \/ InsertTrigger(i) \/ UpdateSqlTrigger(i) \/ DeleteSqlTrigger(i)
    PROVE  Half(i)'
<1> DEFINE p == plan[i]
<1>1. PICK w \in {"secret", "insert_trigger", "update_trigger", "delete_trigger"} : At(i, w)
  BY DEF SetSecret, InsertTrigger, UpdateSqlTrigger, DeleteSqlTrigger, Write
<1>2. mem' = mem /\ loaded' = loaded /\ Agree(mem', mem)
  BY DEF SetSecret, InsertTrigger, UpdateSqlTrigger, DeleteSqlTrigger, Write, Agree
<1>3. Agree(sql', sql)
  <2>1. /\ Agree(sql, sql) /\ Agree([sql EXCEPT !.secret = i], sql) /\ Agree(MemCreateTrigger(sql, i), sql)
        /\ \A id : Agree(UpdateTrigger(sql, i, id), sql)
        /\ \A t : Agree([sql EXCEPT !.triggers = t], sql)
    BY <1>1, Ahead, StatementTables DEF Agree
  <2>2. \/ sql' \in {sql, [sql EXCEPT !.secret = i], MemCreateTrigger(sql, i),
                     UpdateTrigger(sql, i, req[i].trigger)}
        \/ sql' = [sql EXCEPT !.triggers = sql.triggers \ Named(i)]
    BY DEF SetSecret, InsertTrigger, UpdateSqlTrigger, DeleteSqlTrigger, Write
  <2> QED
    BY <2>1, <2>2
<1>4. Advances(i)
  <2>1. CASE plan'[i] \in {Tail(p), Tail(p) \o Refused}
    BY <2>1, TailAdvances
  <2>2. CASE UpdateSqlTrigger(i)
    <3>1. At(i, "update_trigger")
      BY <2>2 DEF UpdateSqlTrigger, Write
    <3>2. SubSeq(p, 3, Len(p)) \o <<>> = SubSeq(p, 3, Len(p))
      BY <3>1, Ahead
    <3>3. plan'[i] \in {Tail(p), SubSeq(p, 3, Len(p)), SubSeq(p, 3, Len(p)) \o Refused}
      BY <2>2, <3>2 DEF UpdateSqlTrigger, Write, GoOn, Works, TypeOK
    <3>4. PlanOK(mode, req[i].kind, p) /\ p # <<>> /\ p[1] = "update_trigger"
      BY <3>1, Ahead
    <3>5. plan'[i] # Tail(p) => \A x \in Marks : Has(plan'[i], x) <=> Left(p, x)
      BY <3>3, <3>4, SkipMarks
    <3>6. plan'[i] # Tail(p) => Advances(i)
      BY <3>5 DEF Advances, Due
    <3> QED
      BY <2>1, <3>6
  <2>3. SetSecret(i) \/ InsertTrigger(i) \/ DeleteSqlTrigger(i) => plan'[i] = Tail(p)
    BY DEF SetSecret, InsertTrigger, DeleteSqlTrigger, Write, GoOn, Works, TypeOK, Disturb
  <2> QED
    BY <2>1, <2>2, <2>3
<1>5. w \notin Marks
  BY <1>1 DEF Marks
<1> QED
  BY <1>1, <1>2, <1>3, <1>4, <1>5, UnmarkedStep

(* Requests of the dual mode do not insert what may be there already. *)
LEMMA NoInsert ==
    ASSUME NEW i \in Ops, Works(i)
    PROVE  ~InsertProject(i) /\ ~InsertWorkflow(i)
<1> SUFFICES ASSUME NEW w \in {"insert_project", "insert_workflow"}, At(i, w)
             PROVE  FALSE
  BY DEF InsertProject, InsertWorkflow, Write
<1>1. plan[i] \in Seq(Statements) /\ plan[i] # <<>> /\ plan[i][1] = w
  BY Ahead
<1>2. 1 \in 1 .. Len(plan[i])
  BY <1>1
<1> QED
  BY <1>1, <1>2 DEF Works, Sequenced

LEMMA WriteHalf ==
    ASSUME NEW i \in Ops, Works(i), SqlWrite(i), At(i, "update") => seen[i] = sql.project
    PROVE  HalfOrDone(i)
<1>1. UpdateProject(i) => seen[i] = sql.project
  BY DEF UpdateProject, Write
<1>2. SetStatus(i) => HalfOrDone(i)
  BY StatusInSql
<1>3. ~SetStatus(i) => Half(i)'
  BY <1>1, NoInsert, EnsureInSql, UpdateInSql, DeleteProjectInSql, UpsertInSql,
     DeleteWorkflowInSql, RunInSql, OtherInSql DEF SqlWrite
<1> QED
  BY <1>2, <1>3 DEF HalfOrDone

LEMMA MemoryHalf ==
    ASSUME NEW i \in Ops, Works(i), MemoryStep(i)
    PROVE  HalfOrDone(i)
<1>1. ~Whole(i)
  <2> SUFFICES ASSUME At(i, "whole") PROVE FALSE
    BY DEF Whole
  <2>1. Fits(mode, req[i].kind, "whole")
    BY Ahead
  <2> QED
    BY <2>1 DEF Fits, Works, Dual
<1> QED
  BY <1>1, EnsureInMemory, UpsertInMemory, ChangeMemory DEF MemoryStep, HalfOrDone

(* The statements that read. *)

LEMMA ResumedHalf ==
    ASSUME NEW i \in Ops, Works(i), NEW w \in {"find", "row"}, At(i, w),
           Resumed(plan[i], plan'[i]), UNCHANGED <<mem, sql, loaded>>
    PROVE  Half(i)'
<1>1. Advances(i)
  BY Ahead, OtherMarks DEF Advances, Due
<1>2. w \notin Marks /\ Agree(mem', mem) /\ Agree(sql', sql)
  BY DEF Marks, Agree
<1> QED
  BY <1>1, <1>2, UnmarkedStep

LEMMA FoundHalf ==
    ASSUME NEW i \in Ops, Works(i), NEW w \in {"find", "fill"}, At(i, w),
           Found(i, Tail(plan[i])), sql.project # None, UNCHANGED <<mem, sql, loaded>>
    PROVE  Half(i)'
<1> DEFINE p == plan[i]
           t == Tail(p)
<1>1. /\ PlanOK(mode, req[i].kind, p) /\ p # <<>> /\ p \in Seq(Statements)
      /\ \A x : Due(i, x) <=> x = w \/ Left(p, x)
  BY Ahead
<1>2. plan'[i] = IF t # <<>> /\ Head(t) = "ensure" THEN SubSeq(t, 3, Len(t)) ELSE t
  BY DEF Found, GoOn, Works, TypeOK
<1>3. \A x \in Marks : /\ Has(plan'[i], x) => Left(p, x)
                       /\ x # "ensure" /\ Left(p, x) => Has(plan'[i], x)
  BY <1>1, <1>2, FoundMarks
<1>4. \A x \in Marks : x # w
  BY DEF Marks
<1>5. /\ \A x \in Marks : x # "ensure" => (Due(i, x)' <=> Due(i, x))
      /\ Due(i, "ensure")' => Due(i, "ensure")
  BY <1>1, <1>3, <1>4 DEF Due, Marks
<1>6. Agree(mem', mem) /\ Agree(sql', sql) /\ loaded' = loaded
  BY DEF Agree
<1>7. /\ TypeOK /\ mem' \in Databases /\ sql' \in Databases /\ Half(i)
      /\ UNCHANGED <<mode, req>>
  BY Ahead DEF Works
<1> QED
  BY <1>5, <1>6, <1>7, Neutral

(* A project that is not there is ensured next, or nothing is due. *)
LEMMA AbsentHalf ==
    ASSUME NEW i \in Ops, Works(i), At(i, "row"), Absent(i, Tail(plan[i])),
           sql.project = None, UNCHANGED <<mem, sql, loaded>>
    PROVE  HalfOrDone(i)
<1> DEFINE k == req[i].kind
           p == plan[i]
           t == Tail(p)
<1>1. /\ PlanOK(mode, k, p) /\ p # <<>> /\ p \in Seq(Statements) /\ p[1] = "row"
      /\ k \in Kinds /\ mem \in Databases /\ sql \in Databases /\ i \in Ids
      /\ \A x : Due(i, x) <=> x = "row" \/ Left(p, x)
      /\ req'[i].kind = k /\ Field(i)' = Field(i)
  BY Ahead
<1>2. plan'[i] \in {t, Refused} \/ (k \in Patches /\ t # <<>> /\ plan'[i] = <<t[Len(t)]>>)
  BY DEF Absent, GoOn, Works, TypeOK
<1>3. CASE plan'[i] = t
  <2>1. "row" \notin Marks /\ Agree(mem', mem) /\ Agree(sql', sql)
    BY DEF Marks, Agree
  <2>2. Half(i)'
    BY <1>3, <2>1, TailAdvances, UnmarkedStep
  <2> QED
    BY <2>2 DEF HalfOrDone
<1>4. CASE k \in Patches
  <2>1. MemUpdateProject(sql, i, Field(i)) = sql
    BY <1>1, StatementTables
  <2>2. Agree(mem', sql')
    BY <1>4, <2>1 DEF Works, Half
  <2>3. MemUpdateProject(sql', i, Field(i)') = sql'
    BY <1>1, <2>1
  <2>4. Half(i)'
    BY <1>1, <1>4, <2>2, <2>3 DEF Half, Patches, Stamps
  <2> QED
    BY <2>4 DEF HalfOrDone
<1>5. CASE plan'[i] = Refused /\ plan'[i] # t /\ k \notin Patches
  <2>1. k \notin Runs /\ ~(t # <<>> /\ Head(t) = "ensure")
    BY <1>5 DEF Absent, GoOn, Works, TypeOK
  <2>2. 1 \in 1 .. Len(p) /\ p[1] \in Reads
    BY <1>1 DEF Reads
  <2>3. k \notin {"CreateWorkflow", "DeleteProject", "DeleteWorkflow"} \cup Stamps
    BY <2>2 DEF Works, Sequenced
  <2>4. CASE k = "CreateProject"
    <3>1. ~Due(i, "memory")
      <4>1. \A n \in 1 .. Len(p) : p[n] = "memory" => n = 1
        BY <2>4 DEF Works, Sequenced
      <4> QED
        BY <1>1, <4>1 DEF Due, Has
    <3>2. Due(i, "ensure")
      BY <2>4, <3>1 DEF Works, Half
    <3>3. PICK m \in 2 .. Len(p) : p[m] = "ensure"
      BY <1>1, <3>2 DEF Left
    <3>4. p[2] = "ensure"
      <4>1. 1 + 1 = 2 /\ m \in 1 + 1 .. Len(p)
        BY <3>3
      <4>2. p[1 + 1] = "ensure"
        <5>1. Sequenced(k, p) /\ \E n \in 1 + 1 .. Len(p) : p[n] = "ensure"
          BY <3>3, <4>1 DEF Works
        <5> QED
          BY <2>2, <2>4, <5>1 DEF Sequenced
      <4> QED
        BY <4>1, <4>2
    <3>5. t # <<>> /\ Head(t) = p[2]
      <4>1. /\ t \in Seq(Statements) /\ Len(t) = Len(p) - 1 /\ Len(p) \in Nat
            /\ \A n \in 1 .. Len(t) : t[n] = p[n + 1]
        BY <1>1, HeadTailProperties
      <4>2. 1 \in 1 .. Len(t)
        BY <3>3, <4>1
      <4>3. t # <<>> /\ Head(t) = t[1]
        <5> HIDE DEF t
        <5> QED
          BY <4>1, <4>2
      <4> QED
        BY <4>1, <4>2, <4>3
    <3> QED
      BY <2>1, <3>4, <3>5
  <2>5. CASE k \in {"GetProject", "PutSecret", "CreateTrigger", "PatchTrigger", "DeleteTrigger"}
    BY <1>5, <2>5 DEF Works, Half, HalfOrDone
  <2> QED
    BY <1>1, <1>5, <2>1, <2>3, <2>4, <2>5 DEF Kinds, Patches, Stamps, Runs
<1> QED
  BY <1>2, <1>3, <1>4, <1>5

(* 404 and 409 are answered where nothing has been written yet. *)
LEMMA DecideHalf ==
    ASSUME NEW i \in Ops, Works(i),
           CheckVacant(i) \/ CheckExists(i) \/ AnswerFromMemory(i) \/ CountRuns(i) \/ Load(i)
    PROVE  HalfOrDone(i)
<1> DEFINE k == req[i].kind
           p == plan[i]
<1>1. /\ mem' = mem /\ sql' = sql /\ Agree(mem', mem) /\ Agree(sql', sql)
      /\ plan'[i] \in {Tail(p), Refused}
  BY DEF CheckVacant, CheckExists, AnswerFromMemory, CountRuns, Load, Decide, GoOn,
         Works, TypeOK, Agree
<1>2. CASE CheckVacant(i)
  <2>1. At(i, "vacant") /\ (plan'[i] = Refused \/ sql.workflow = None)
    BY <1>2 DEF CheckVacant, Decide, GoOn, Works, TypeOK
  <2>2. k = "CreateWorkflow"
    <3>1. p # <<>> /\ p \in Seq(Statements) /\ p[1] = "vacant"
      BY <2>1, Ahead
    <3>2. 1 \in 1 .. Len(p)
      BY <3>1
    <3> QED
      BY <3>1, <3>2 DEF Works, Sequenced
  <2>3. Left(p, "memory")
    BY <2>1, <2>2, Ahead DEF Works, Sequenced
  <2>4. Agree(mem, sql)
    BY <2>1, <2>2, <2>3, Ahead DEF Works, Half
  <2>5. CASE plan'[i] = Tail(p) /\ sql.workflow = None
    <3>1. Due(i, "memory")' /\ req'[i].kind = k
      BY <2>1, <2>3, <2>5, TailAdvances, Ahead DEF Advances, Marks
    <3>2. Half(i)'
      BY <1>1, <2>2, <2>4, <2>5, <3>1 DEF Half, Patches, Stamps
    <3> QED
      BY <3>2 DEF HalfOrDone
  <2> QED
    BY <1>1, <2>1, <2>4, <2>5 DEF HalfOrDone
<1>3. CASE CheckExists(i)
  <2>1. At(i, "exists") /\ loaded' = loaded
    BY <1>3 DEF CheckExists, Decide
  <2>2. k = "DeleteWorkflow"
    <3>1. p # <<>> /\ p \in Seq(Statements) /\ p[1] = "exists"
      BY <2>1, Ahead
    <3>2. 1 \in 1 .. Len(p)
      BY <3>1
    <3> QED
      BY <3>1, <3>2 DEF Works, Sequenced
  <2>3. Left(p, "delete_workflow")
    BY <2>1, <2>2, Ahead DEF Works, Sequenced
  <2>4. Agree(mem, sql)
    BY <2>1, <2>2, <2>3, Ahead DEF Works, Half
  <2>5. plan'[i] = Tail(p) => Half(i)'
    BY <1>1, <2>1, TailAdvances, UnmarkedStep DEF Marks
  <2> QED
    BY <1>1, <2>4, <2>5 DEF HalfOrDone
<1>4. CASE AnswerFromMemory(i)
  <2>1. At(i, "answer") /\ loaded' = loaded
    BY <1>4 DEF AnswerFromMemory, Decide
  <2>2. k \in Patches
    <3>1. p # <<>> /\ p \in Seq(Statements) /\ p[1] = "answer"
      BY <2>1, Ahead
    <3>2. 1 \in 1 .. Len(p)
      BY <3>1
    <3> QED
      BY <3>1, <3>2 DEF Works, Sequenced
  <2>3. ~Left(p, "update")
    BY <2>1, <2>2, Ahead DEF Works, Sequenced
  <2>4. Agree(mem, sql)
    BY <2>1, <2>2, <2>3, Ahead DEF Works, Half
  <2>5. plan'[i] = Tail(p) => Half(i)'
    BY <1>1, <2>1, TailAdvances, UnmarkedStep DEF Marks
  <2> QED
    BY <1>1, <2>4, <2>5 DEF HalfOrDone
<1>5. CASE CountRuns(i)
  <2>1. At(i, "count") /\ (plan'[i] = Refused \/ Reader.runs = {})
    BY <1>5 DEF CountRuns, Decide, GoOn, Works, TypeOK
  <2>2. k = "DeleteWorkflow"
    BY <2>1, Ahead DEF Fits
  <2>3. Left(p, "delete_workflow")
    BY <2>1, <2>2, Ahead DEF Works, Sequenced
  <2>4. Agree(mem, sql)
    BY <2>1, <2>2, <2>3, Ahead DEF Works, Half
  <2>5. CASE plan'[i] = Tail(p) /\ Reader.runs = {}
    <3>1. sql.runs = {}
      BY <2>4, <2>5 DEF Reader, Agree
    <3>2. Due(i, "delete_workflow")' /\ req'[i].kind = k
      BY <2>1, <2>3, <2>5, TailAdvances, Ahead DEF Advances, Marks
    <3>3. Half(i)'
      BY <1>1, <2>2, <2>4, <3>1, <3>2 DEF Half, Patches, Stamps
    <3> QED
      BY <3>3 DEF HalfOrDone
  <2> QED
    BY <1>1, <2>1, <2>4, <2>5 DEF HalfOrDone
<1>6. CASE Load(i)
  <2>1. At(i, "load")
    BY <1>6 DEF Load, Decide
  <2>2. k \in Runs
    BY <2>1, Ahead DEF Fits
  <2>3. /\ Left(p, "insert_run")
        /\ k = "RunProject" => /\ ~Left(p, "memory_ensure") /\ ~Left(p, "memory_upsert")
                               /\ ~Left(p, "upsert")
    BY <2>1, <2>2, Ahead DEF Works, Sequenced
  <2>4. Agree(mem, sql) /\ Due(i, "insert_run")
    BY <2>1, <2>2, <2>3, Ahead DEF Works, Half, Runs
  <2>5. plan'[i] = Tail(p) => Half(i)'
    BY <1>1, <2>1, <2>4, TailAdvances, UnmarkedStep DEF Marks
  <2> QED
    BY <1>1, <2>4, <2>5 DEF HalfOrDone
<1> QED
  BY <1>2, <1>3, <1>4, <1>5, <1>6

LEMMA ReadHalf ==
    ASSUME NEW i \in Ops, Works(i), SqlRead(i),
           At(i, "find") => cache \in {None, sql.project},
           At(i, "fill") => seen[i] = sql.project
    PROVE  HalfOrDone(i)
<1> DEFINE p == plan[i]
<1>1. mem' = mem /\ sql' = sql /\ Agree(mem', mem) /\ Agree(sql', sql)
  BY Frames DEF Agree
<1>2. CASE FindCached(i)
  BY <1>1, <1>2, FoundHalf DEF FindCached, HalfOrDone
<1>3. CASE FindMissed(i)
  <2>1. At(i, "find") /\ plan'[i] = <<"row">> \o Tail(p) /\ Head(p) = "find" /\ loaded' = loaded
    BY <1>3 DEF FindMissed, GoOn, Works, TypeOK, At
  <2>2. Resumed(p, plan'[i])
    BY <2>1, Ahead, ResumeFollows
  <2> QED
    BY <1>1, <2>1, <2>2, ResumedHalf DEF HalfOrDone
<1>4. CASE FindRow(i)
  <2>1. At(i, "row") /\ loaded' = loaded
    BY <1>4 DEF FindRow
  <2>2. CASE sql.project # None
    <3>1. plan'[i] = <<"fill">> \o Tail(p) /\ Head(p) = "row"
      BY <1>4, <2>2 DEF FindRow, GoOn, Works, TypeOK, At
    <3>2. Resumed(p, plan'[i])
      BY <2>1, <3>1, Ahead, ResumeFollows
    <3> QED
      BY <1>1, <2>1, <3>2, ResumedHalf DEF HalfOrDone
  <2>3. CASE sql.project = None
    BY <1>1, <1>4, <2>1, <2>3, AbsentHalf DEF FindRow
  <2> QED
    BY <2>2, <2>3
<1>5. CASE FillCache(i)
  <2>1. seen[i] # None /\ seen[i] = sql.project
    BY <1>5 DEF FillCache, Works, HasRead
  <2> QED
    BY <1>1, <1>5, <2>1, FoundHalf DEF FillCache, HalfOrDone
<1>6. CASE Invalidate(i)
  <2>1. At(i, "invalidate") /\ plan'[i] = Tail(p) /\ loaded' = loaded
    BY <1>6 DEF Invalidate, GoOn, Works, TypeOK
  <2> QED
    BY <1>1, <2>1, TailAdvances, UnmarkedStep DEF Marks, HalfOrDone
<1> QED
  BY <1>2, <1>3, <1>4, <1>5, <1>6, DecideHalf DEF SqlRead

(* The row, the cache entry and what the handler has read. *)

LEMMA ProjectStays ==
    ASSUME NEW i \in Ops, Works(i), SqlWrite(i),
           \A w \in {"ensure", "update", "delete_project"} : ~At(i, w)
    PROVE  sql'.project = sql.project
<1>1. sql \in Databases
  BY DEF Works, TypeOK
<1>2. ~EnsureProject(i) /\ ~UpdateProject(i) /\ ~DeleteProject(i)
  BY DEF EnsureProject, UpdateProject, DeleteProject, Write
<1> USE <1>1 DEF Write, Databases
<1>3. CASE SetSecret(i) \/ InsertTrigger(i)
  BY <1>3 DEF SetSecret, InsertTrigger, MemCreateTrigger
<1>4. CASE UpdateSqlTrigger(i) \/ DeleteSqlTrigger(i)
  BY <1>4 DEF UpdateSqlTrigger, DeleteSqlTrigger, UpdateTrigger
<1>5. CASE UpsertWorkflow(i)
  BY <1>5 DEF UpsertWorkflow, SqlUpsertWorkflow
<1>6. CASE SetStatus(i) \/ DeleteSqlWorkflow(i)
  BY <1>6 DEF SetStatus, DeleteSqlWorkflow, SetWorkflowStatus, SqlDeleteWorkflow
<1>7. CASE InsertRun(i)
  BY <1>7 DEF InsertRun, PutRun
<1> QED
  BY <1>2, <1>3, <1>4, <1>5, <1>6, <1>7, NoInsert DEF SqlWrite

(* What the cache, and the handler before its update, have of the project. *)
CacheCurrent == cache \in {None, sql.project} \/ \E i \in Ops : At(i, "invalidate")

SeenCurrent(i) ==
    /\ At(i, "fill") => seen[i] = sql.project
    /\ plan[i] # Unstarted /\ ~Preceded(plan[i], Reads, "update") => seen[i] = sql.project

LEMMA CacheKept ==
    ASSUME NEW i \in Ops, Works(i), cache \in {None, sql.project} \/ At(i, "invalidate"),
           SeenCurrent(i)
    PROVE  CacheCurrent'
<1> DEFINE p == plan[i]
<1>1. ASSUME cache' \in {None, sql'.project} \/ At(i, "invalidate")'
      PROVE  CacheCurrent'
  BY <1>1 DEF CacheCurrent
<1>2. CASE At(i, "invalidate")
  <2>1. Invalidate(i)
    BY <1>2, MakesPatch DEF Works
  <2> QED
    BY <1>1, <2>1 DEF Invalidate
<1>3. CASE cache \in {None, sql.project} /\ SqlRead(i)
  <2>1. sql' = sql
    BY <1>3, Frames
  <2>2. cache' \in {cache, None} \/ (At(i, "fill") /\ cache' = seen[i])
    BY <1>3 DEF SqlRead, FindCached, FindMissed, FindRow, FillCache, Invalidate,
                CheckVacant, CheckExists, CountRuns, Load, AnswerFromMemory, Decide
  <2> QED
    BY <1>1, <1>3, <2>1, <2>2 DEF SeenCurrent
<1>4. CASE cache \in {None, sql.project} /\ MemoryStep(i)
  BY <1>1, <1>4, Frames
<1>5. CASE cache \in {None, sql.project} /\ SqlWrite(i)
  <2>1. cache' = cache
    BY <1>5, Frames
  <2>2. ASSUME NEW w \in {"ensure", "update"}, At(i, w), plan'[i] = Tail(p)
        PROVE  At(i, "invalidate")'
    <3>1. p \in Seq(Statements) /\ p # <<>> /\ p[1] = w /\ PlanOK(mode, req[i].kind, p)
      BY <2>2, Ahead
    <3>2. Len(p) > 1 /\ p[2] = "invalidate"
      BY <3>1 DEF PlanOK
    <3>3. Tail(p) # <<>> /\ Head(Tail(p)) = p[2]
      <4> DEFINE t == Tail(p)
      <4>1. /\ t \in Seq(Statements) /\ Len(t) = Len(p) - 1 /\ Len(p) \in Nat
            /\ \A n \in 1 .. Len(t) : t[n] = p[n + 1]
        BY <3>1, HeadTailProperties
      <4>2. 1 \in 1 .. Len(t) /\ t[1] = p[2]
        BY <3>2, <4>1
      <4> HIDE DEF t
      <4>3. t # <<>> /\ Head(t) = t[1]
        BY <4>1, <4>2
      <4> QED
        BY <4>2, <4>3 DEF t
    <3> QED
      BY <2>2, <3>2, <3>3 DEF At
  <2>3. CASE At(i, "ensure")
    <3>1. EnsureProject(i)
      BY <1>5, <2>3 DEF SqlWrite, At, InsertProject, EnsureProject, UpdateProject, DeleteProject,
              SetSecret, InsertTrigger, UpdateSqlTrigger, DeleteSqlTrigger, InsertWorkflow,
              UpsertWorkflow, SetStatus, DeleteSqlWorkflow, InsertRun, Write
    <3>2. plan'[i] = Tail(p)
      BY <3>1 DEF EnsureProject, Write, GoOn, Works, TypeOK
    <3> QED
      BY <1>1, <2>2, <2>3, <3>2
  <2>4. CASE At(i, "update")
    <3>1. UpdateProject(i)
      BY <1>5, <2>4, SqlProject DEF Works
    <3>2. CASE sql.project = None
      <4>1. sql' = sql
        BY <3>1, <3>2 DEF UpdateProject, Write, SqlUpdateProject
      <4> QED
        BY <1>1, <1>5, <2>1, <4>1
    <3>3. CASE sql.project # None
      <4>1. plan'[i] = Tail(p)
        BY <3>1, <3>3 DEF UpdateProject, Write, GoOn, Works, TypeOK
      <4> QED
        BY <1>1, <2>2, <2>4, <4>1
    <3> QED
      BY <3>2, <3>3
  <2>5. CASE At(i, "delete_project")
    <3>1. DeleteProject(i)
      BY <1>5, <2>5 DEF SqlWrite, At, InsertProject, EnsureProject, UpdateProject, DeleteProject,
              SetSecret, InsertTrigger, UpdateSqlTrigger, DeleteSqlTrigger, InsertWorkflow,
              UpsertWorkflow, SetStatus, DeleteSqlWorkflow, InsertRun, Write
    <3>2. cache = None
      BY <3>1 DEF DeleteProject, Disturb, Works
    <3> QED
      BY <1>1, <2>1, <3>2
  <2>6. CASE \A w \in {"ensure", "update", "delete_project"} : ~At(i, w)
    BY <1>1, <1>5, <2>1, <2>6, ProjectStays
  <2> QED
    BY <2>3, <2>4, <2>5, <2>6
<1> QED
  BY <1>2, <1>3, <1>4, <1>5 DEF Works

LEMMA SeenKept ==
    ASSUME NEW i \in Ops, Works(i), cache \in {None, sql.project} \/ At(i, "invalidate"),
           SeenCurrent(i)
    PROVE  SeenCurrent(i)'
<1> DEFINE p == plan[i]
           q == plan'[i]
           k == req[i].kind
<1>1. /\ p \in Seq(Statements) /\ p # <<>> /\ PlanOK(mode, k, p) /\ PlanOK(mode, k, q)
      /\ k \in Kinds /\ plan[i] # Unstarted /\ Stepped(i) /\ TypeOK /\ Handlers
      /\ SqlRead(i) \/ SqlWrite(i) \/ MemoryStep(i)
  BY FollowsOK DEF Works, Stepped, TypeOK
<1>2. ASSUME At(i, "fill")' PROVE seen'[i] = sql'.project
  <2>1. At(i, "row")
    BY <1>1, <1>2, ReadOn
  <2>2. FindRow(i)
    BY <1>1, <2>1, Makes
  <2> QED
    BY <1>1, <2>2 DEF FindRow, TypeOK
<1>3. ASSUME ~Preceded(q, Reads, "update") PROVE seen'[i] = sql'.project
  <2>1. PICK n \in 1 .. Len(q) : q[n] = "update"
    BY <1>3 DEF Preceded
  <2>2. k \in Patches
    BY <1>1, <2>1 DEF PlanOK, Fits
  <2>3. CASE \E x \in Reads : At(i, x)
    <3>1. SqlRead(i) /\ ~At(i, "invalidate") /\ sql' = sql
      BY <1>1, <2>3, Makes, Frames DEF At, Reads
    <3>2. CASE At(i, "find")
      <4>1. CASE FindCached(i)
        BY <1>1, <2>2, <3>1, <4>1 DEF FindCached, Keep, TypeOK
      <4>2. CASE FindMissed(i)
        <5>1. Resumed(p, q) /\ seen'[i] = seen[i]
          BY <1>1, <4>2, ResumeFollows DEF FindMissed, At, GoOn, TypeOK
        <5>2. ~Preceded(p, Reads, "update")
          BY <1>1, <1>3, <5>1, StillPrecededByRead DEF Reads
        <5> QED
          BY <1>1, <3>1, <5>1, <5>2 DEF SeenCurrent
      <4> QED
        BY <1>1, <3>2, <4>1, <4>2, MakesPatch
    <3>3. CASE At(i, "row")
      <4>1. FindRow(i)
        BY <1>1, <3>3, Makes
      <4> QED
        BY <1>1, <4>1 DEF FindRow, TypeOK
    <3>4. CASE At(i, "fill")
      <4>1. FillCache(i)
        BY <1>1, <3>4, MakesPatch
      <4> QED
        BY <1>1, <2>2, <3>1, <3>4, <4>1 DEF FillCache, Keep, TypeOK, SeenCurrent
    <3> QED
      BY <2>3, <3>2, <3>3, <3>4 DEF Reads
  <2>4. CASE \A x \in Reads : ~At(i, x)
    <3>1. ~Preceded(p, Reads, "update")
      BY <1>1, <1>3, <2>4, MadeFirst DEF Reads
    <3>2. seen[i] = sql.project /\ seen' = seen
      BY <1>1, <2>4, <3>1, Makes DEF SeenCurrent
    <3>3. CASE SqlRead(i) \/ MemoryStep(i)
      BY <3>2, <3>3, Frames
    <3>4. CASE SqlWrite(i)
      <4>1. ~At(i, "update")
        <5> SUFFICES ASSUME At(i, "update") PROVE FALSE
          OBVIOUS
        <5>1. UpdateProject(i)
          BY <1>1, <3>4, SqlProject
        <5>2. ~Left(p, "update") /\ p[1] = "update"
          BY <2>2, Ahead DEF Works, Sequenced
        <5>3. q \in {Tail(p), SubSeq(p, 3, Len(p))}
          BY <5>1 DEF UpdateProject, Write, GoOn, Works, TypeOK
        <5>4. Has(q, "update") <=> Left(p, "update")
          BY <1>1, <5>2, <5>3, TailMarks, SkipMarks DEF Marks
        <5> QED
          BY <2>1, <5>2, <5>4 DEF Has
      <4>2. ~At(i, "ensure") /\ ~At(i, "delete_project")
        BY <2>2, Ahead DEF Fits, Patches
      <4> QED
        BY <3>2, <3>4, <4>1, <4>2, ProjectStays
    <3> QED
      BY <1>1, <3>3, <3>4
  <2> QED
    BY <2>3, <2>4
<1> QED
  BY <1>2, <1>3 DEF SeenCurrent

(* The statements left of every request of the dual mode are in order. *)
Ordered == Dual => \A i \in Ops : plan[i] # Unstarted => Sequenced(req[i].kind, plan[i])

(* Undisturbed, the requests come one at a time, and the stores are the    *)
(* statements of the one at work apart.                                    *)
InStep ==
    Dual /\ ~disturbed =>
        /\ \A i, j \in Ops : Active(i) /\ Active(j) => i = j
        /\ Quiet => Agree(mem, sql)
        /\ \A i \in Ops : Active(i) => Half(i)
        /\ CacheCurrent
        /\ \A i \in Ops : SeenCurrent(i)

LEMMA OrderedStep ==
    ASSUME Base, Ordered, Next
    PROVE  Ordered'
<1>0. TypeOK /\ Handlers /\ Arrivals /\ Onward
  BY Progress DEF Base
<1> SUFFICES ASSUME Dual', NEW j \in Ops, plan'[j] # Unstarted
             PROVE  Sequenced(req'[j].kind, plan'[j])
  BY DEF Ordered
<1>1. Dual /\ mode' = mode
  BY <1>0 DEF Dual, Onward
<1>2. \A k : Sequenced(k, Failed)
  BY DEF Sequenced, Failed, Later, NoMore, Reads
<1>3. plan[j] # Unstarted => Sequenced(req[j].kind, plan[j]) /\ req'[j] = req[j]
  BY <1>0, <1>1 DEF Ordered, Onward
<1>4. ASSUME NEW i \in Ops, Arrive(i) PROVE Sequenced(req'[j].kind, plan'[j])
  <2>1. CASE j = i
    BY <1>0, <1>1, <1>4, <2>1, ArriveFacts, PlansSequenced
  <2>2. CASE j # i
    BY <1>0, <1>3, <1>4, <2>2, ArriveFacts DEF TypeOK
  <2> QED
    BY <2>1, <2>2
<1>5. ASSUME NEW i \in Ops, Stepped(i) PROVE Sequenced(req'[j].kind, plan'[j])
  <2>1. CASE j = i
    BY <1>0, <1>3, <1>5, <2>1, SequencedKept DEF Stepped
  <2>2. CASE j # i
    BY <1>0, <1>3, <1>5, <2>2 DEF Stepped, TypeOK
  <2> QED
    BY <2>1, <2>2
<1>6. ASSUME NEW i \in Ops, Raise(i) PROVE Sequenced(req'[j].kind, plan'[j])
  <2>1. plan'[j] \in {plan[j], Failed}
    BY <1>0, <1>6 DEF Raise, GoOn, TypeOK
  <2> QED
    BY <1>2, <1>3, <2>1
<1>7. CASE Restart
  <2>1. plan'[j] \in {plan[j], Failed}
    BY <1>7 DEF Restart
  <2> QED
    BY <1>2, <1>3, <2>1
<1> QED
  BY <1>0, <1>4, <1>5, <1>6, <1>7, StepCases

(* What disturbs the stores is never undone. *)
LEMMA StaysDisturbed ==
    ASSUME Next, ~disturbed'
    PROVE  ~disturbed
<1>1. ASSUME NEW i \in Ops, SqlWrite(i) PROVE ~disturbed
  BY <1>1 DEF SqlWrite, InsertProject, EnsureProject, UpdateProject, DeleteProject, SetSecret,
              InsertTrigger, UpdateSqlTrigger, DeleteSqlTrigger, InsertWorkflow,
              UpsertWorkflow, SetStatus, DeleteSqlWorkflow, InsertRun, Disturb
<1>2. ASSUME NEW i \in Ops, MemoryStep(i) PROVE ~disturbed
  BY <1>2 DEF MemoryStep, Whole, DualMemory, DualMemoryEnsure, DualMemoryUpsert, Disturb
<1>3. ASSUME NEW i \in Ops, SqlRead(i) PROVE ~disturbed
  BY <1>3, Frames
<1>4. (\E i \in Ops : Arrive(i) \/ Raise(i)) \/ Restart => ~disturbed
  BY DEF Arrive, Raise, Restart, Disturb
<1> QED
  BY <1>1, <1>2, <1>3, <1>4 DEF Next

(* A request that is over, or has not arrived, is about to do nothing. *)
LEMMA IdleFacts ==
    ASSUME NEW q \in Ends
    PROVE  /\ q # <<>> => Head(q) \notin {"fill", "invalidate"}
           /\ q # Unstarted => Preceded(q, Reads, "update")
  BY DEF Ends, Unstarted, Refused, Failed, Preceded

LEMMA IdleIsCurrent ==
    ASSUME NEW j \in Ops, plan'[j] \in Ends
    PROVE  SeenCurrent(j)'
  BY IdleFacts DEF SeenCurrent, At

(* A request that arrives when all is quiet finds the stores in step. *)
LEMMA ArriveInStep ==
    ASSUME Base, Ordered, InStep, Dual, ~disturbed, ~disturbed', mem' \in Databases,
           NEW i \in Ops, Arrive(i)
    PROVE  InStep'
<1> DEFINE k == script[i]
<1>0. TypeOK /\ Handlers /\ Arrivals
  BY DEF Base
<1>1. \A j \in Ops : ~Active(j)
  BY DEF Arrive, Disturb
<1>2. UNCHANGED <<mode, mem, sql, cache, seen, loaded>>
  BY DEF Arrive
<1>3. Agree(mem, sql)
  BY <1>1 DEF InStep, Quiet
<1>4. /\ plan' = [plan EXCEPT ![i] = PlanOf(k)] /\ plan'[i] = PlanOf(k) /\ req'[i].kind = k
      /\ k \in Kinds /\ PlanOK(mode, k, plan'[i]) /\ InTurn(mode, k, plan'[i])
  BY <1>0, ArriveFacts
<1>5. \A j \in Ops : j # i => plan'[j] = plan[j] /\ plan'[j] \in Ends
  BY <1>0, <1>1, <1>4 DEF TypeOK, Active
<1>6. Half(i)'
  <2>1. Starts(k, plan'[i])
    BY <1>4, PlansSequenced
  <2>2. /\ k \in {"CreateProject"} \cup Patches \cup Stamps => Due(i, "memory")'
        /\ k = "CreateWorkflow" => Due(i, "memory")' /\ (mode = "dual_sql" => Due(i, "vacant")')
        /\ k = "DeleteProject" => Due(i, "delete_project")'
        /\ k = "DeleteWorkflow" => Due(i, "delete_workflow")' /\ Due(i, "count")'
        /\ k = "RunWorkflow" => Due(i, "insert_run")'
        /\ k = "RunProject" => Due(i, "memory_ensure")'
    BY <2>1 DEF Starts, Due, Has
  <2>3. Agree(mem', sql')
    BY <1>2, <1>3
  <2> QED
    BY <1>2, <1>4, <2>2, <2>3 DEF Half, Patches, Stamps
<1>7. CacheCurrent'
  <2>1. ASSUME NEW j \in Ops, At(j, "invalidate") PROVE FALSE
    BY <1>1, <2>1, IdleFacts DEF At, Active
  <2>2. cache \in {None, sql.project}
    BY <2>1 DEF InStep, CacheCurrent
  <2> QED
    BY <1>2, <2>2 DEF CacheCurrent
<1>8. SeenCurrent(i)'
  <2>1. ~At(i, "fill")'
    <3> SUFFICES ASSUME At(i, "fill")' PROVE FALSE
      OBVIOUS
    <3>1. plan'[i] \in Seq(Statements) /\ plan'[i] # <<>> /\ Head(plan'[i]) = "fill"
      BY <1>4 DEF PlanOK, At
    <3>2. 1 \in 1 .. Len(plan'[i]) /\ plan'[i][1] = "fill"
      BY <3>1
    <3> QED
      BY <1>4, <3>2 DEF InTurn
  <2>2. Preceded(plan'[i], Reads, "update")
    <3>1. k \in Patches => Preceded(plan'[i], {"find", "row", "fill"}, "update")
      BY <1>4 DEF InTurn
    <3>2. k \notin Patches => \A n \in 1 .. Len(plan'[i]) : plan'[i][n] # "update"
      BY <1>4 DEF PlanOK, Fits
    <3> QED
      BY <3>1, <3>2 DEF Preceded, Reads
  <2> QED
    BY <2>1, <2>2 DEF SeenCurrent
<1>9. \A j \in Ops : SeenCurrent(j)'
  BY <1>5, <1>8, IdleIsCurrent
<1>10. \A j \in Ops : Active(j)' => j = i
  BY <1>5 DEF Active
<1> QED
  BY <1>2, <1>3, <1>6, <1>7, <1>9, <1>10 DEF InStep

LEMMA StatementInStep ==
    ASSUME Base, Ordered, InStep, Dual, ~disturbed, ~disturbed',
           mem' \in Databases, sql' \in Databases,
           NEW i \in Ops, Stepped(i), SqlRead(i) \/ SqlWrite(i) \/ MemoryStep(i)
    PROVE  InStep'
<1>0. TypeOK /\ Handlers /\ Arrivals /\ HasRead /\ HasLoaded
  BY DEF Base
<1>1. Active(i) /\ plan[i] # Unstarted /\ req' = req /\ mode' = mode /\ req[i].kind \in Kinds
  BY DEF Stepped
<1>2. \A j \in Ops : j # i => ~Active(j) /\ plan'[j] = plan[j] /\ plan'[j] \in Ends
  BY <1>0, <1>1 DEF InStep, Stepped, TypeOK, Active
<1>3. Works(i)
  BY <1>0, <1>1 DEF Works, InStep, Ordered
<1>4. cache \in {None, sql.project} \/ At(i, "invalidate")
  <2>1. ASSUME NEW j \in Ops, At(j, "invalidate") PROVE j = i
    BY <1>2, <2>1, IdleFacts DEF At, Active
  <2> QED
    BY <2>1 DEF InStep, CacheCurrent
<1>5. SeenCurrent(i)
  BY DEF InStep
<1>6. HalfOrDone(i)
  <2>1. At(i, "find") => cache \in {None, sql.project}
    BY <1>4 DEF At
  <2>2. At(i, "fill") => seen[i] = sql.project
    BY <1>5 DEF SeenCurrent
  <2>3. At(i, "update") => seen[i] = sql.project
    BY <1>0, <1>1, <1>5, AtNotPreceded DEF SeenCurrent, TypeOK
  <2> QED
    BY <1>3, <2>1, <2>2, <2>3, ReadHalf, WriteHalf, MemoryHalf
<1>7. CacheCurrent' /\ SeenCurrent(i)'
  BY <1>3, <1>4, <1>5, CacheKept, SeenKept
<1>8. \A j \in Ops : SeenCurrent(j)'
  BY <1>2, <1>7, IdleIsCurrent
<1>9. \A j \in Ops : Active(j)' => j = i
  BY <1>2 DEF Active
<1>10. plan'[i] \in Ends => Agree(mem', sql')
  <2> SUFFICES ASSUME plan'[i] \in Ends, Half(i)' PROVE Agree(mem', sql')
    BY <1>6 DEF HalfOrDone
  <2>1. plan[i] \in Seq(Statements)
    BY <1>0 DEF TypeOK
  <2>2. \A w \in Marks : ~Due(i, w)'
    BY <2>1, OtherMarks DEF Due
  <2> QED
    BY <1>1, <2>2, NothingDue
<1>11. Active(i)' => Half(i)'
  BY <1>6 DEF HalfOrDone, Active, Ends
<1> QED
  BY <1>7, <1>8, <1>9, <1>10, <1>11 DEF InStep, Quiet, Active

LEMMA InStepStep ==
    ASSUME Base, Base', Ordered, InStep, Next
    PROVE  InStep'
<1>0. TypeOK /\ Handlers /\ Arrivals /\ Onward
  BY Progress DEF Base
<1> SUFFICES ASSUME Dual', ~disturbed' PROVE InStep'
  BY DEF InStep
<1>1. Dual /\ ~disturbed
  BY <1>0, StaysDisturbed DEF Dual, Onward
<1>2. mem' \in Databases /\ sql' \in Databases
  BY DEF Base, TypeOK
<1>3. ASSUME NEW i \in Ops, Raise(i) PROVE FALSE
  BY <1>1, <1>3 DEF Raise, Disturb
<1>4. ~Restart
  BY <1>1 DEF Restart, Disturb
<1> QED
  BY <1>0, <1>1, <1>2, <1>3, <1>4, StepCases, ArriveInStep, StatementInStep

(* Undisturbed, the two stores of the dual mode hold the same project,     *)
(* workflow and runs whenever no request is at work: each request makes in *)
(* both stores the statements that have the same effect on what they agree *)
(* on, in an order from which every early answer leaves them in step.      *)
THEOREM StoresStayInStep == Spec => []StoresAgree
<1>1. Init => Ordered /\ InStep
  <2> SUFFICES ASSUME Init PROVE Ordered /\ InStep
    OBVIOUS
  <2>1. \A i \in Ops : plan[i] = Unstarted /\ ~Active(i)
    BY DEF Init, Active, Ends
  <2>2. Dual => mem = sql
    BY DEF Init, Dual
  <2>3. cache \in {None, sql.project}
    BY DEF Init
  <2>4. \A i \in Ops : ~At(i, "fill")
    BY <2>1 DEF At, Unstarted
  <2> QED
    BY <2>1, <2>2, <2>3, <2>4 DEF Ordered, InStep, Agree, CacheCurrent, SeenCurrent
<1>2. Base /\ Base' /\ Ordered /\ InStep /\ [Next]_vars => (Ordered /\ InStep)'
  <2>1. CASE Next
    BY <2>1, OrderedStep, InStepStep
  <2>2. CASE UNCHANGED vars
    <3>1. UNCHANGED <<mode, mem, sql, cache, req, plan, seen, loaded, disturbed>>
      BY <2>2 DEF vars
    <3>2. Ordered' = Ordered
      BY <3>1 DEF Ordered, Dual
    <3>3. InStep' = InStep
      BY <3>1 DEF InStep, Dual, Quiet, Active, Half, Due, Field, Status, Run, At,
                  CacheCurrent, SeenCurrent
    <3> QED
      BY <3>2, <3>3
  <2> QED
    BY <2>1, <2>2
<1>3. InStep => StoresAgree
  BY DEF InStep, StoresAgree, Agree
<1>4. Spec => [](Ordered /\ InStep)
  BY <1>1, <1>2, BaseInvariance, PTL DEF Spec
<1> QED
  BY <1>3, <1>4, PTL
=============================================================================
