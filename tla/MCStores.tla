------------------------------ MODULE MCStores ------------------------------
(* Any two requests that touch the same rows, and chosen sequences of      *)
(* three or four: a deletion and what follows it, a read that may leave a  *)
(* stale cache entry between two updates, an archive before and among runs.*)
EXTENDS Stores

Groups ==
    {{"CreateProject", "GetProject", "PatchName", "PatchConfigs", "DeleteProject"},
     {"PutSecret", "CreateTrigger", "PatchTrigger", "DeleteTrigger", "DeleteProject"},
     {"DeleteProject", "RunProject", "RunWorkflow"},
     {"CreateWorkflow", "DeleteWorkflow", "RunProject", "RunWorkflow"},
     {"PublishWorkflow", "ArchiveWorkflow", "RunProject", "RunWorkflow"}}

MCScripts ==
    UNION {{<<j, k>> : j \in g, k \in g} : g \in Groups}
    \cup {<<"GetProject", "PatchName", "PatchConfigs">>,
          <<"DeleteProject", "CreateProject", "PatchConfigs">>,
          <<"DeleteProject", "PatchName", "CreateProject", "PatchConfigs">>,
          <<"DeleteWorkflow", "CreateWorkflow", "RunProject">>,
          <<"ArchiveWorkflow", "RunProject", "RunWorkflow">>,
          <<"RunWorkflow", "CreateWorkflow", "RunWorkflow">>,
          <<"ArchiveWorkflow", "PublishWorkflow", "RunWorkflow">>,
          <<"ArchiveWorkflow", "DeleteWorkflow", "RunProject">>,
          <<"CreateTrigger", "DeleteProject", "CreateProject">>,
          <<"RunWorkflow", "DeleteWorkflow", "CreateWorkflow", "RunWorkflow">>}
=============================================================================
