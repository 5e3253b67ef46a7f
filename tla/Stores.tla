------------------------------ MODULE Stores ------------------------------
(***************************************************************************)
(* The requests that create, change and delete a project p, its triggers   *)
(* and secret, its workflow wf_{p} and the runs of it                      *)
(* (apps/api/app/main.py), against the store the persistence mode selects  *)
(* (apps/api/app/persistence.py): InMemoryStore, PostgresStore with its    *)
(* Redis cache, or DualWriteStore over the two, reading from either.       *)
(*                                                                         *)
(* A handler runs until it awaits SQL or Redis.  What it has still to do   *)
(* is its plan, a sequence of statements; each action executes the first   *)
(* statement of one plan, and other handlers may run between two of them.  *)
(* The statements themselves are in StoreTables.  What a run goes through  *)
(* after its record exists is the subject of RunCreation and RunRecord.    *)
(***************************************************************************)
EXTENDS StoreTables, Sequences, FiniteSets

CONSTANTS
    Modes,        \* persistence modes
    Scripts,      \* the sequences of requests that may arrive
    Graphs,       \* workflow graphs
    FirstGraph,   \* the graph stored at first
    Tags,         \* what clients put into the metadata of a workflow
    FirstTags,    \* what is there at first
    MaxOps,       \* bound: requests
    MaxOpen,      \* bound: requests in progress at once
    MaxTroubles   \* bound: statements that raise, and restarts of the API process

VARIABLES
    mode,       \* the persistence mode
    mem, sql,   \* the two databases
    cache,      \* the Redis entry project:{p}
    script,     \* the kinds of the requests that arrive, in order
    req,        \* the requests
    plan,       \* what each handler has still to do
    seen,       \* the project each handler has read
    loaded,     \* the workflow each handler has read
    faults,     \* statements that have raised
    restarts,   \* restarts of the process
    overlap,    \* auxiliary: the requests each request was concurrent with
    disturbed   \* auxiliary: something has happened that the dual stores do
                \* not keep in step (see StoresAgree)

vars == <<mode, mem, sql, cache, script, req, plan, seen, loaded, faults, restarts,
          overlap, disturbed>>

Ops == 1 .. MaxOps
Ids == 0 .. MaxOps      \* 0: requests answered before the behaviour starts

Kinds == {"CreateProject", "GetProject", "PatchName", "PatchConfigs", "DeleteProject",
          "PutSecret", "CreateTrigger", "PatchTrigger", "DeleteTrigger",
          "CreateWorkflow", "PublishWorkflow", "ArchiveWorkflow", "DeleteWorkflow",
          "RunWorkflow", "RunProject"}

Patches == {"PatchName", "PatchConfigs"}
Runs    == {"RunWorkflow", "RunProject"}
Writers == {"CreateWorkflow", "RunProject"}   \* requests that bring a graph

(* The metadata of a workflow: what the client has put there, and the      *)
(* "source" key, the client's or that of a run of the project.             *)
Metadata == [tags : Tags, source : {"client", "project_run"}]

ProjectRun(metadata) == [metadata EXCEPT !.source = "project_run"]

FirstMetadata == [tags |-> FirstTags, source |-> "project_run"]

ASSUME StoreAssumption ==
    /\ Modes \subseteq {"memory", "postgres", "dual_sql", "dual_memory"}
    /\ \A s \in Scripts : s \in Seq(Kinds) /\ Len(s) <= MaxOps
    /\ FirstGraph \in Graphs /\ FirstTags \in Tags
    /\ {MaxOps, MaxOpen, MaxTroubles} \subseteq Nat
    /\ None \notin [name : Nat, configs : Nat]
    /\ None \notin [version : Nat, status : {"draft", "published", "archived"},
                     graph : Graphs, metadata : Metadata]
    /\ None \notin Nat

Dual     == mode \in {"dual_sql", "dual_memory"}
ReadsSql == mode \in {"postgres", "dual_sql"}
Reader   == IF ReadsSql THEN sql ELSE mem      \* DualWriteStore._reader

-----------------------------------------------------------------------------
(* The plans.  "memory" is the statement of InMemoryStore the request      *)
(* makes in dual mode, with the checks that precede it if those read from  *)
(* memory; "whole" is a request in memory mode, which never suspends.      *)

InDual(p)     == IF Dual THEN p ELSE <<>>
FromSql(p)    == IF ReadsSql THEN p ELSE <<>>
InDualSql(p)  == IF mode = "dual_sql" THEN p ELSE <<>>
InDualMem(p)  == IF mode = "dual_memory" THEN p ELSE <<>>

Ensure == <<"find", "ensure", "invalidate">>

PlanOf(k) ==
    IF mode = "memory" THEN <<"whole">> ELSE
    CASE k = "CreateProject" ->
             IF Dual THEN <<"memory">> \o Ensure \o FromSql(<<"find">>)
             ELSE <<"insert_project", "invalidate">>
      [] k = "GetProject" -> FromSql(<<"find">>)
      [] k = "PatchName" ->
             InDual(<<"memory">>) \o <<"find", "update", "invalidate">>
             \o InDualSql(<<"find">>) \o InDualMem(<<"answer">>)
      [] k = "PatchConfigs" ->
             InDual(<<"memory">>) \o <<"find", "secret", "update", "invalidate">>
             \o InDualSql(<<"find">>) \o InDualMem(<<"answer">>)
      [] k = "DeleteProject" -> <<"delete_project">> \o InDual(<<"memory">>)
      [] k = "PutSecret" -> FromSql(<<"find">>) \o InDual(<<"memory">>) \o <<"secret">>
      [] k = "CreateTrigger" ->
             FromSql(<<"find">>) \o InDual(<<"memory">>) \o <<"insert_trigger", "invalidate">>
      [] k = "PatchTrigger" ->
             FromSql(<<"find">>) \o InDual(<<"memory">>) \o <<"update_trigger", "invalidate">>
      [] k = "DeleteTrigger" -> <<"delete_trigger">> \o InDual(<<"memory">>)
      [] k = "CreateWorkflow" ->
             FromSql(<<"vacant">>) \o (IF Dual THEN <<"memory", "upsert">>
                                       ELSE <<"insert_workflow">>)
      [] k \in {"PublishWorkflow", "ArchiveWorkflow"} -> InDual(<<"memory">>) \o <<"status">>
      [] k = "DeleteWorkflow" ->
             FromSql(<<"exists">>) \o <<"count", "delete_workflow">> \o InDual(<<"memory">>)
      [] k = "RunWorkflow" ->
             <<"load">> \o FromSql(<<"find">>) \o <<"insert_run">> \o InDual(<<"memory">>)
      [] k = "RunProject" ->
             InDual(<<"memory_ensure">>) \o Ensure \o InDualSql(Ensure)
             \o InDual(<<"memory_upsert">>) \o <<"upsert", "load">>
             \o FromSql(<<"find">>) \o <<"insert_run">> \o InDual(<<"memory">>)

Statements == {"whole", "memory", "memory_ensure", "memory_upsert",
               "find", "row", "fill", "invalidate", "insert_project", "ensure", "update",
               "delete_project", "secret", "insert_trigger", "update_trigger",
               "delete_trigger", "vacant", "exists", "count", "answer", "insert_workflow",
               "upsert", "status", "delete_workflow", "load", "insert_run",
               "unstarted", "refused", "failed"}

Unstarted == <<"unstarted">>
Refused   == <<"refused">>      \* answered 404 or 409
Failed    == <<"failed">>       \* answered 500, or the process is gone
Ends      == {<<>>, Unstarted, Refused, Failed}

Active(i) == plan[i] \notin Ends
At(i, s)  == plan[i] # <<>> /\ Head(plan[i]) = s
Quiet     == \A i \in Ops : ~Active(i)

GoOn(i, p) == plan' = [plan EXCEPT ![i] = p]

Projects  == [name : Ids, configs : Ids]
Workflows == [version : Nat \ {0}, status : {"draft", "published", "archived"},
              graph : Graphs, metadata : Metadata]
RunRows   == [id : Ids, version : Nat \ {0}, graph : Graphs, owned : BOOLEAN]
Databases == [project : Projects \cup {None}, workflow : Workflows \cup {None},
              runs : SUBSET RunRows, triggers : SUBSET [id : Ids, by : Ids],
              secret : Ids \cup {None}]
Requests  == [kind : Kinds \cup {"none"}, graph : Graphs, metadata : Metadata, trigger : Ids]
NoRequest == [kind |-> "none", graph |-> FirstGraph, metadata |-> FirstMetadata,
              trigger |-> 0]

TypeOK ==
    /\ mode \in Modes
    /\ mem \in Databases /\ sql \in Databases
    /\ cache \in Projects \cup {None}
    /\ script \in Scripts
    /\ req \in [Ops -> Requests]
    /\ plan \in [Ops -> Seq(Statements)]
    /\ seen \in [Ops -> Projects \cup {None}]
    /\ loaded \in [Ops -> Workflows \cup {None}]
    /\ faults \in 0 .. MaxTroubles
    /\ restarts \in 0 .. MaxTroubles
    /\ overlap \in [Ids -> SUBSET Ops]
    /\ disturbed \in BOOLEAN

(* An empty database, or one where requests answered earlier have created  *)
(* everything, with or without a run.                                      *)
Stocked(runs) ==
    [project |-> NewProject(0), workflow |-> NewWorkflow(FirstGraph, FirstMetadata),
     runs |-> runs, triggers |-> {[id |-> 0, by |-> 0]}, secret |-> 0]

FirstRun == [id |-> 0, version |-> 1, graph |-> FirstGraph, owned |-> TRUE]

Init ==
    /\ mode \in Modes
    /\ script \in Scripts
    /\ \E db \in {NoRows, Stocked({}), Stocked({FirstRun})} :
           /\ mem = IF mode = "postgres" THEN NoRows ELSE db
           /\ sql = IF mode = "memory" THEN NoRows ELSE db
    /\ cache \in {None, sql.project}
    /\ req = [i \in Ops |-> NoRequest]
    /\ plan = [i \in Ops |-> Unstarted]
    /\ seen = [i \in Ops |-> None]
    /\ loaded = [i \in Ops |-> None]
    /\ faults = 0
    /\ restarts = 0
    /\ overlap = [i \in Ids |-> {}]
    /\ disturbed = FALSE

(* Only the dual mode has two stores to keep in step. *)
Disturb(cause) == disturbed' = (disturbed \/ (Dual /\ cause))

-----------------------------------------------------------------------------
(* A request arrives.  Requests are numbered in the order they arrive; one *)
(* that changes or deletes a trigger names one it has seen listed, and a   *)
(* run of the project overrides the source its client may have given.      *)
Arrive(i) ==
    /\ plan[i] = Unstarted
    /\ i <= Len(script)
    /\ \A j \in Ops : j < i => plan[j] # Unstarted
    /\ \E g \in Graphs, m \in Metadata, t \in {x.id : x \in Reader.triggers} \cup {0} :
           /\ script[i] \notin Writers => g = FirstGraph /\ m = FirstMetadata
           /\ script[i] \notin {"PatchTrigger", "DeleteTrigger"} => t = 0
           /\ req' = [req EXCEPT ![i] = [kind |-> script[i], graph |-> g,
                         metadata |-> IF script[i] = "RunProject" THEN ProjectRun(m) ELSE m,
                         trigger |-> t]]
    /\ GoOn(i, PlanOf(script[i]))
    /\ LET others == {j \in Ops : Active(j)}
       IN  /\ Cardinality(others) < MaxOpen
           /\ overlap' = [j \in Ids |-> IF j = i THEN others
                                        ELSE IF j \in others THEN overlap[j] \cup {i}
                                        ELSE overlap[j]]
           /\ Disturb(others # {})
    /\ UNCHANGED <<mode, mem, sql, cache, script, seen, loaded, faults, restarts>>

-----------------------------------------------------------------------------
(* get_project: the cached record, else the row, which is then cached.     *)
(* What the handler does next depends on whether there is a project.       *)

Found(i, rest) ==
    GoOn(i, IF rest # <<>> /\ Head(rest) = "ensure" THEN SubSeq(rest, 3, Len(rest)) ELSE rest)

Absent(i, rest) ==
    GoOn(i, IF \/ rest # <<>> /\ Head(rest) = "ensure"
               \/ req[i].kind \in Runs
            THEN rest
            ELSE IF Dual /\ req[i].kind \in Patches /\ rest # <<>>
            THEN <<rest[Len(rest)]>>
            ELSE Refused)

(* Only a PATCH uses the record it has read. *)
Keep(i, p) == seen' = [seen EXCEPT ![i] = IF req[i].kind \in Patches THEN p ELSE None]

FindCached(i) ==
    /\ At(i, "find")
    /\ cache # None
    /\ Keep(i, cache)
    /\ Found(i, Tail(plan[i]))
    /\ UNCHANGED <<mode, mem, sql, cache, script, req, loaded, faults, restarts, overlap, disturbed>>

(* There is no entry, or its TTL has passed. *)
FindMissed(i) ==
    /\ At(i, "find")
    /\ cache' = None
    /\ GoOn(i, <<"row">> \o Tail(plan[i]))
    /\ UNCHANGED <<mode, mem, sql, script, req, seen, loaded, faults, restarts, overlap, disturbed>>

FindRow(i) ==
    /\ At(i, "row")
    /\ seen' = [seen EXCEPT ![i] = sql.project]
    /\ IF sql.project # None THEN GoOn(i, <<"fill">> \o Tail(plan[i]))
                             ELSE Absent(i, Tail(plan[i]))
    /\ UNCHANGED <<mode, mem, sql, cache, script, req, loaded, faults, restarts, overlap, disturbed>>

FillCache(i) ==
    /\ At(i, "fill")
    /\ cache' = seen[i]
    /\ Keep(i, seen[i])
    /\ Found(i, Tail(plan[i]))
    /\ UNCHANGED <<mode, mem, sql, script, req, loaded, faults, restarts, overlap, disturbed>>

(* Mutant: the entry is left to its TTL.                                   *)
InvalidateNothing(i) ==
    /\ At(i, "invalidate")
    /\ GoOn(i, Tail(plan[i]))
    /\ UNCHANGED <<mode, mem, sql, cache, script, req, seen, loaded, faults, restarts, overlap, disturbed>>

Invalidate(i) ==
    /\ At(i, "invalidate")
    /\ cache' = None
    /\ GoOn(i, Tail(plan[i]))
    /\ UNCHANGED <<mode, mem, sql, script, req, seen, loaded, faults, restarts, overlap, disturbed>>

-----------------------------------------------------------------------------
(* The SQL statements that write.  One a constraint refuses raises: 500.   *)

Write(i, statement, allowed, db, rest) ==
    /\ At(i, statement)
    /\ sql' = IF allowed THEN db ELSE sql
    /\ GoOn(i, IF allowed THEN rest ELSE Failed)
    /\ UNCHANGED <<mode, mem, cache, script, req, seen, loaded, faults, restarts, overlap>>

InsertProject(i) ==
    /\ Write(i, "insert_project", InsertProjectAllowed(sql),
             [sql EXCEPT !.project = NewProject(i)], Tail(plan[i]))
    /\ Disturb(~InsertProjectAllowed(sql))

EnsureProject(i) ==
    /\ Write(i, "ensure", TRUE, SqlEnsureProject(sql, i), Tail(plan[i]))
    /\ UNCHANGED disturbed

(* No row: update_project returns None without invalidating the cache. *)
UpdateProject(i) ==
    LET field == IF req[i].kind = "PatchName" THEN "name" ELSE "configs"
        skip  == SubSeq(plan[i], 3, Len(plan[i]))
    IN  /\ Write(i, "update", TRUE, SqlUpdateProject(sql, seen[i], i, field),
                 IF sql.project # None THEN Tail(plan[i])
                 ELSE IF Dual THEN skip ELSE Refused)
        /\ UNCHANGED disturbed

(* delete_project leaves the cached record where it is. *)
DeleteProject(i) ==
    /\ Write(i, "delete_project", TRUE, SqlDeleteProject(sql),
             IF sql.project # None \/ Dual THEN Tail(plan[i]) ELSE Refused)
    /\ Disturb(cache # None)

SetSecret(i) ==
    /\ Write(i, "secret", ProjectReferenced(sql), [sql EXCEPT !.secret = i], Tail(plan[i]))
    /\ Disturb(~ProjectReferenced(sql))

InsertTrigger(i) ==
    /\ Write(i, "insert_trigger", ProjectReferenced(sql), MemCreateTrigger(sql, i), Tail(plan[i]))
    /\ Disturb(~ProjectReferenced(sql))

(* The two stores give a trigger different ids: the id the client names    *)
(* is that of the reader's copy, and the other copy is out of reach.       *)
Named(i) == IF mode = "dual_memory" THEN {} ELSE {t \in sql.triggers : t.id = req[i].trigger}

UpdateSqlTrigger(i) ==
    /\ Write(i, "update_trigger", TRUE,
             IF Named(i) # {} THEN UpdateTrigger(sql, i, req[i].trigger) ELSE sql,
             IF Named(i) # {} THEN Tail(plan[i])
             ELSE SubSeq(plan[i], 3, Len(plan[i])) \o (IF ReadsSql THEN Refused ELSE <<>>))
    /\ UNCHANGED disturbed

DeleteSqlTrigger(i) ==
    /\ Write(i, "delete_trigger", TRUE, [sql EXCEPT !.triggers = @ \ Named(i)],
             IF Dual \/ Named(i) # {} THEN Tail(plan[i]) ELSE Refused)
    /\ UNCHANGED disturbed

InsertWorkflow(i) ==
    /\ Write(i, "insert_workflow", InsertWorkflowAllowed(sql),
             MemCreateWorkflow(sql, req[i].graph, req[i].metadata), Tail(plan[i]))
    /\ Disturb(~InsertWorkflowAllowed(sql))

(* Other metadata alone is a new version here and not in memory.           *)
UpsertWorkflow(i) ==
    /\ Write(i, "upsert", ProjectReferenced(sql),
             SqlUpsertWorkflow(sql, req[i].graph, req[i].metadata), Tail(plan[i]))
    /\ Disturb(\/ ~ProjectReferenced(sql)
               \/ Relabels(sql, req[i].graph, req[i].metadata))

Status(i) == IF req[i].kind = "PublishWorkflow" THEN "published" ELSE "archived"

SetStatus(i) ==
    /\ Write(i, "status", TRUE, SetWorkflowStatus(sql, Status(i)),
             IF ReadsSql /\ sql.workflow = None THEN Refused ELSE Tail(plan[i]))
    /\ UNCHANGED disturbed

DeleteSqlWorkflow(i) ==
    /\ Write(i, "delete_workflow", TRUE, SqlDeleteWorkflow(sql), Tail(plan[i]))
    /\ UNCHANGED disturbed

(* Temporal is given the definition the handler has loaded. *)
Run(i) == [id |-> i, version |-> loaded[i].version, graph |-> loaded[i].graph, owned |-> TRUE]

InsertRun(i) ==
    /\ Write(i, "insert_run", InsertRunAllowed(sql), PutRun(sql, Run(i)), Tail(plan[i]))
    /\ Disturb(~InsertRunAllowed(sql))

-----------------------------------------------------------------------------
(* Reads a handler decides on. *)

Decide(i, statement, holds) ==
    /\ At(i, statement)
    /\ GoOn(i, IF holds THEN Tail(plan[i]) ELSE Refused)
    /\ UNCHANGED <<mode, mem, sql, cache, script, req, seen, faults, restarts, overlap, disturbed>>

(* POST /workflows: 409 if the workflow exists. *)
CheckVacant(i) == Decide(i, "vacant", sql.workflow = None) /\ UNCHANGED loaded

(* DELETE /workflows/{id}: 404, then 409 if there are runs. *)
CheckExists(i) == Decide(i, "exists", sql.workflow # None) /\ UNCHANGED loaded

(* update_project of the dual store answers with what memory holds. *)
AnswerFromMemory(i) == Decide(i, "answer", mem.project # None) /\ UNCHANGED loaded

(* Mutant: runs are not counted.                                           *)
CountNothing(i) == Decide(i, "count", TRUE) /\ UNCHANGED loaded

CountRuns(i) ==
    /\ Decide(i, "count", Reader.runs = {} /\ (ReadsSql \/ mem.workflow # None))
    /\ UNCHANGED loaded

(* Mutant: archived workflows run.                                         *)
LoadAny(i) ==
    /\ Decide(i, "load", Reader.workflow # None)
    /\ loaded' = [loaded EXCEPT ![i] = Reader.workflow]

(* _create_run_impl: 404, or 409 if archived; this copy is what will run.  *)
Load(i) ==
    /\ Decide(i, "load", Reader.workflow # None /\ Reader.workflow.status # "archived")
    /\ loaded' = [loaded EXCEPT ![i] = Reader.workflow]

-----------------------------------------------------------------------------
(* InMemoryStore in dual mode. *)

InMemory(i, statement, db, rest) ==
    /\ At(i, statement)
    /\ mem' = db
    /\ GoOn(i, rest)
    /\ UNCHANGED <<mode, sql, cache, script, req, seen, loaded, faults, restarts, overlap>>

(* The check that precedes the statement when the reader is memory. *)
GuardHolds(k) ==
    mode = "dual_memory" =>
        /\ k \in {"PutSecret", "CreateTrigger", "PatchTrigger"} => mem.project # None
        /\ k = "CreateWorkflow" => mem.workflow = None

Target(i) == IF mode = "dual_memory" THEN req[i].trigger ELSE MaxOps + 1

MemEffect(i) ==
    LET k == req[i].kind
    IN  CASE k = "CreateProject"   -> MemCreateProject(mem, i)
          [] k = "PatchName"       -> MemUpdateProject(mem, i, "name")
          [] k = "PatchConfigs"    -> MemUpdateProject(mem, i, "configs")
          [] k = "DeleteProject"   -> MemDeleteProject(mem)
          [] k = "PutSecret"       -> MemSetSecret(mem, i)
          [] k = "CreateTrigger"   -> MemCreateTrigger(mem, i)
          [] k = "PatchTrigger"    -> UpdateTrigger(mem, i, Target(i))
          [] k = "DeleteTrigger"   -> DeleteTrigger(mem, Target(i))
          [] k = "CreateWorkflow"  -> MemCreateWorkflow(mem, req[i].graph, req[i].metadata)
          [] k \in {"PublishWorkflow", "ArchiveWorkflow"} -> SetWorkflowStatus(mem, Status(i))
          [] k = "DeleteWorkflow"  -> MemDeleteWorkflow(mem)
          [] k \in Runs            -> PutRun(mem, Run(i))
          [] OTHER                 -> mem

(* In memory there is nothing to change: 404 once SQL has been tried, too. *)
MemAnswer(i) ==
    LET k == req[i].kind
    IN  IF \/ k \in {"PublishWorkflow", "ArchiveWorkflow"} /\ mem.workflow = None
           \/ k = "PatchTrigger" /\ req[i].trigger \notin {t.id : t \in mem.triggers}
        THEN InDualMem(Refused) ELSE <<>>

(* create_project overwrites whatever memory holds. *)
DualMemory(i) ==
    LET k == req[i].kind
    IN  /\ At(i, "memory")
        /\ IF GuardHolds(k) THEN InMemory(i, "memory", MemEffect(i), Tail(plan[i]) \o MemAnswer(i))
                            ELSE InMemory(i, "memory", mem, Refused)
        /\ Disturb(k = "CreateProject" /\ mem.project # None)

DualMemoryEnsure(i) ==
    /\ InMemory(i, "memory_ensure", MemEnsureProject(mem, i), Tail(plan[i]))
    /\ UNCHANGED disturbed

(* DualWriteStore.ensure_project ends by ensuring in the reader again. *)
DualMemoryUpsert(i) ==
    LET db == IF ReadsSql THEN mem ELSE MemEnsureProject(mem, i)
    IN  /\ InMemory(i, "memory_upsert", MemUpsertWorkflow(db, req[i].graph, req[i].metadata),
                    Tail(plan[i]))
        /\ UNCHANGED disturbed

(* A request in memory mode. *)
MemHolds(k, db) ==
    /\ k \in {"GetProject", "PutSecret", "CreateTrigger", "PatchTrigger", "DeleteProject"}
             \cup Patches => db.project # None
    /\ k = "CreateWorkflow" => db.workflow = None
    /\ k \in {"PublishWorkflow", "ArchiveWorkflow", "DeleteWorkflow"} \cup Runs
           => db.workflow # None
    /\ k = "DeleteWorkflow" => db.runs = {}
    /\ k \in Runs => db.workflow.status # "archived"

Whole(i) ==
    LET k  == req[i].kind
        db == IF k # "RunProject" THEN mem
              ELSE MemUpsertWorkflow(MemEnsureProject(mem, i), req[i].graph, req[i].metadata)
        run == [id |-> i, version |-> db.workflow.version, graph |-> db.workflow.graph,
                owned |-> TRUE]
    IN  /\ At(i, "whole")
        /\ mem' = IF ~MemHolds(k, db) THEN db
                  ELSE IF k \in Runs THEN PutRun(db, run)
                  ELSE IF k = "PatchTrigger" THEN UpdateTrigger(mem, i, req[i].trigger)
                  ELSE IF k = "DeleteTrigger" THEN DeleteTrigger(mem, req[i].trigger)
                  ELSE MemEffect(i)
        /\ GoOn(i, IF MemHolds(k, db) THEN <<>> ELSE Refused)
        /\ UNCHANGED <<mode, sql, cache, script, req, seen, loaded, faults, restarts, overlap,
                       disturbed>>

-----------------------------------------------------------------------------
(* A statement raises, before or after it has taken effect. *)
Raise(i) ==
    /\ Active(i)
    /\ mode # "memory"
    /\ faults + restarts < MaxTroubles
    /\ faults' = faults + 1
    /\ GoOn(i, Failed)
    /\ Disturb(TRUE)
    /\ UNCHANGED <<mode, mem, sql, cache, script, req, seen, loaded, restarts, overlap>>

(* The API process restarts: handlers and memory are gone. *)
Restart ==
    /\ faults + restarts < MaxTroubles
    /\ restarts' = restarts + 1
    /\ mem' = NoRows
    /\ plan' = [i \in Ops |-> IF Active(i) THEN Failed ELSE plan[i]]
    /\ Disturb(TRUE)
    /\ UNCHANGED <<mode, sql, cache, script, req, seen, loaded, faults, overlap>>

SqlRead(i) == \/ FindCached(i) \/ FindMissed(i) \/ FindRow(i) \/ FillCache(i)
              \/ Invalidate(i)
              \/ CheckVacant(i) \/ CheckExists(i) \/ CountRuns(i) \/ Load(i)
              \/ AnswerFromMemory(i)

SqlWrite(i) == \/ InsertProject(i) \/ EnsureProject(i) \/ UpdateProject(i) \/ DeleteProject(i)
               \/ SetSecret(i)
               \/ InsertTrigger(i) \/ UpdateSqlTrigger(i) \/ DeleteSqlTrigger(i)
               \/ InsertWorkflow(i) \/ UpsertWorkflow(i) \/ SetStatus(i) \/ DeleteSqlWorkflow(i)
               \/ InsertRun(i)

MemoryStep(i) == Whole(i) \/ DualMemory(i) \/ DualMemoryEnsure(i) \/ DualMemoryUpsert(i)

Next == \/ \E i \in Ops : \/ Arrive(i)
                          \/ SqlRead(i)
                          \/ SqlWrite(i)
                          \/ MemoryStep(i)
                          \/ Raise(i)
        \/ Restart

Spec == Init /\ [][Next]_vars

-----------------------------------------------------------------------------
Answered(i, k) == plan[i] = <<>> /\ req[i].kind \in k

(* In the modes that read memory a restart forgets what was promised. *)
MemoryLost == restarts > 0 /\ ~ReadsSql

(* DELETE /workflows/{id} takes no run history with it, unless it overlaps *)
(* the very request that creates the run, or memory is read and does not   *)
(* know the run (main.py, "run history is retained").                      *)
RunHistoryRetained ==
    [][ \A r \in sql.runs :
            \/ \E q \in sql'.runs : q.id = r.id
            \/ \E j \in overlap[r.id] : req[j].kind = "DeleteWorkflow"
            \/ mode = "dual_memory" /\ \A q \in mem.runs : q.id # r.id ]_vars

(* Runs of one version of the workflow ran one definition, although the    *)
(* workflow is overwritten in place, deleted and created anew; a run whose *)
(* creation a deletion overlapped may be left over from an earlier life.   *)
VersionNamesDefinition ==
    \A r, q \in Reader.runs :
        r.version = q.version =>
            \/ r.graph = q.graph
            \/ \E j \in overlap[r.id] \cup overlap[q.id] : req[j].kind = "DeleteWorkflow"

(* POST /projects/{id}/runs starts the graph it was sent, or that of a     *)
(* request it overlapped, never one stored earlier.                        *)
RunsOwnGraph ==
    \A r \in Reader.runs :
        r.id \in Ops /\ req[r.id].kind = "RunProject" =>
            \E j \in {r.id} \cup overlap[r.id] :
                req[j].kind \in Writers /\ req[j].graph = r.graph

(* Once an archive has been answered no later request runs the workflow,   *)
(* whatever upserts it, unless it is published or deleted meanwhile.       *)
ArchivedTakesNoRuns ==
    \A i \in Ops, r \in Reader.runs :
        /\ Answered(i, {"ArchiveWorkflow"})
        /\ r.id > i /\ r.id \notin overlap[i]
        => \/ \E j \in Ops : req[j].kind \in {"PublishWorkflow", "DeleteWorkflow"}
           \/ MemoryLost

(* A PATCH that was answered and overlapped nothing is not undone: its     *)
(* field keeps the value it gave, or one a later request gave, although    *)
(* every PATCH writes all columns from a record that may have been cached. *)
(* In dual_sql mode that takes a project never deleted before: a cache     *)
(* entry that has survived the deletion answers for it.                    *)
PatchesKept ==
    \A i \in Ops :
        /\ Answered(i, Patches)
        /\ overlap[i] = {}
        /\ Reader.project # None
        /\ mode = "dual_sql" => \A j \in Ops : j < i => req[j].kind # "DeleteProject"
        => Reader.project[IF req[i].kind = "PatchName" THEN "name" ELSE "configs"] >= i

(* What the reader still lists is owned: no trigger outlives its project   *)
(* to fire for it, and in SQL no secret does.                              *)
OwnedFollowsOwner ==
    /\ Reader.triggers # {} => Reader.project # None
    /\ ReadsSql /\ sql.secret # None => sql.project # None

(* While nothing disturbs them, the two stores of the dual mode hold the   *)
(* same project, workflow and runs between requests.  What disturbs them   *)
(* is all there is: requests that overlap, a statement that fails, a       *)
(* restart, a project created over an existing one, one deleted while it   *)
(* is cached, and a workflow re-sent with the graph it has and other       *)
(* metadata, which is a new version in SQL alone.                          *)
StoresAgree ==
    Dual /\ Quiet /\ ~disturbed =>
        /\ mem.project = sql.project
        /\ mem.workflow = sql.workflow
        /\ mem.runs = sql.runs
=============================================================================
