---------------------------- MODULE StoreTables ----------------------------
(***************************************************************************)
(* What the statements of the two stores of the API do to the records of   *)
(* one project p and of its workflow wf_{p} (apps/api/app/store.py): the   *)
(* dictionaries of InMemoryStore, and the SQL of PostgresStore with the    *)
(* constraints of its schema (apps/api/app/persistence.py).                *)
(*                                                                         *)
(* A database is a record of the project, the workflow, the runs, the      *)
(* triggers and the secret.  A project's fields are abstracted to the      *)
(* request that wrote them; a definition to its graph (nodes and edges)    *)
(* and its metadata.                                                       *)
(***************************************************************************)
EXTENDS Naturals

CONSTANTS None   \* no such row

NewProject(i) == [name |-> i, configs |-> i]

NewWorkflow(graph, metadata) ==
    [version |-> 1, status |-> "draft", graph |-> graph, metadata |-> metadata]

NoRows == [project |-> None, workflow |-> None, runs |-> {},
           triggers |-> {}, secret |-> None]

(* The project reference of runs is nulled when the project goes. *)
Disown(runs) == {[r EXCEPT !.owned = FALSE] : r \in runs}

(* upsert_workflow over a row: the status stays, the version moves on when *)
(* the definition has changed.                                             *)
Redefine(wf, graph, metadata, changed) ==
    [wf EXCEPT !.graph = graph, !.metadata = metadata,
               !.version = IF changed THEN @ + 1 ELSE @]

-----------------------------------------------------------------------------
(* InMemoryStore. *)

MemCreateProject(db, i) == [db EXCEPT !.project = NewProject(i)]

MemEnsureProject(db, i) ==
    IF db.project = None THEN MemCreateProject(db, i) ELSE db

(* The "configs" of a PATCH carry a secret-shaped key, which is split off. *)
MemUpdateProject(db, i, field) ==
    IF db.project = None THEN db
    ELSE [db EXCEPT !.project[field] = i,
                    !.secret = IF field = "configs" THEN i ELSE @]

(* The secrets stay behind. *)
MemDeleteProject(db) ==
    IF db.project = None THEN db
    ELSE [db EXCEPT !.project = None, !.triggers = {}, !.runs = Disown(@)]

MemSetSecret(db, i) == [db EXCEPT !.secret = i]

MemCreateTrigger(db, i) == [db EXCEPT !.triggers = @ \cup {[id |-> i, by |-> i]}]

UpdateTrigger(db, i, id) ==
    [db EXCEPT !.triggers = {IF t.id = id THEN [t EXCEPT !.by = i] ELSE t : t \in @}]

DeleteTrigger(db, id) == [db EXCEPT !.triggers = {t \in @ : t.id # id}]

MemCreateWorkflow(db, graph, metadata) ==
    [db EXCEPT !.workflow = NewWorkflow(graph, metadata)]

(* Mutant: an upsert makes a draft of the workflow again.                  *)
MemUpsertDrafts(db, graph, metadata) ==
    IF db.workflow = None THEN MemCreateWorkflow(db, graph, metadata)
    ELSE [db EXCEPT !.workflow =
              [Redefine(@, graph, metadata, @.graph # graph) EXCEPT !.status = "draft"]]

(* Only nodes and edges count as the definition, metadata is replaced.     *)
MemUpsertWorkflow(db, graph, metadata) ==
    IF db.workflow = None THEN MemCreateWorkflow(db, graph, metadata)
    ELSE [db EXCEPT !.workflow = Redefine(@, graph, metadata, @.graph # graph)]

SetWorkflowStatus(db, status) ==
    IF db.workflow = None THEN db ELSE [db EXCEPT !.workflow.status = status]

(* The runs of the workflow stay. *)
MemDeleteWorkflow(db) == [db EXCEPT !.workflow = None]

PutRun(db, run) == [db EXCEPT !.runs = @ \cup {run}]

-----------------------------------------------------------------------------
(* PostgresStore: each statement, and whether the constraints allow it.    *)

InsertProjectAllowed(db) == db.project = None

(* INSERT ... ON CONFLICT DO UPDATE SET updated_at. *)
SqlEnsureProject(db, i) ==
    IF db.project = None THEN [db EXCEPT !.project = NewProject(i)] ELSE db

(* UPDATE of every column, from the merged copy. *)
SqlUpdateProject(db, copy, i, field) ==
    IF db.project = None THEN db
    ELSE [db EXCEPT !.project = [copy EXCEPT ![field] = i]]

(* triggers and project_secrets cascade, runs are disowned. *)
SqlDeleteProject(db) ==
    IF db.project = None THEN db
    ELSE [db EXCEPT !.project = None, !.triggers = {}, !.secret = None,
                    !.runs = Disown(@)]

(* Mutant: the triggers table has no foreign key.                          *)
NoForeignKey(db) == TRUE

(* project_id REFERENCES projects: triggers, secrets, workflows and runs. *)
ProjectReferenced(db) == db.project # None

InsertWorkflowAllowed(db) == ProjectReferenced(db) /\ db.workflow = None

(* Mutant: an overwritten definition keeps its version.                    *)
SqlUpsertKeepsVersion(db, graph, metadata) ==
    IF db.workflow = None THEN [db EXCEPT !.workflow = NewWorkflow(graph, metadata)]
    ELSE [db EXCEPT !.workflow = Redefine(@, graph, metadata, FALSE)]

(* Mutant: ON CONFLICT DO NOTHING.                                         *)
SqlUpsertDoesNothing(db, graph, metadata) ==
    IF db.workflow = None THEN [db EXCEPT !.workflow = NewWorkflow(graph, metadata)] ELSE db

(* The definition column holds nodes, edges and all of the metadata.       *)
SqlUpsertWorkflow(db, graph, metadata) ==
    IF db.workflow = None THEN [db EXCEPT !.workflow = NewWorkflow(graph, metadata)]
    ELSE [db EXCEPT !.workflow =
              Redefine(@, graph, metadata, @.graph # graph \/ @.metadata # metadata)]

(* Nothing but the metadata changes. *)
Relabels(db, graph, metadata) ==
    /\ db.workflow # None
    /\ db.workflow.graph = graph /\ db.workflow.metadata # metadata

InsertRunAllowed(db) == ProjectReferenced(db) /\ db.workflow # None

(* runs cascade. *)
SqlDeleteWorkflow(db) ==
    IF db.workflow = None THEN db ELSE [db EXCEPT !.workflow = None, !.runs = {}]
=============================================================================
