----------------------------- MODULE RunRecord -----------------------------
(***************************************************************************)
(* The RunRecord of one started run while the worker reports on it:        *)
(* publish_event (apps/workers/app/activities.py) posts, one after the     *)
(* other, the events of a reporting script; append_internal_event          *)
(* (apps/api/app/main.py) ingests each by reading the record, through the  *)
(* Redis cache, appending the event and writing the whole record back      *)
(* (PostgresStore.get_run / update_run, apps/api/app/store.py).            *)
(*                                                                         *)
(* publish_event gives up after its HTTP timeout and swallows the error:   *)
(* the worker moves on while the API may still be ingesting, or may never  *)
(* have seen the event.  Nor does it look at the answer, which is a 500    *)
(* when a store call of the handler raises.  An activity that fails after  *)
(* its post is retried and posts the event again; a key keeps it from      *)
(* being appended twice, not from being applied twice.                     *)
(*                                                                         *)
(* Beside all this _create_run_impl, which has started the workflow,       *)
(* writes its own copy of the record as running.                           *)
(***************************************************************************)
EXTENDS Naturals, Sequences

CONSTANTS
    Scripts,       \* the sequences of events a worker may report
    MaxPosts,      \* bound: posts
    MaxFailures,   \* bound: posts the worker gives up on
    MaxRaises,     \* bound: store calls that raise
    Empty          \* no cache entry

VARIABLES
    script,     \* the events this run reports
    sent,       \* how many posts there have been
    event,      \* the position in script of the event of each post
    failures,   \* posts given up on so far
    raises,     \* store calls that have raised
    confirm,    \* where _create_run_impl is
    ingest,     \* the API's handler of each post
    copy,       \* the record each handler holds
    row,        \* the row of table runs
    cache,      \* the Redis entry run:{id}
    log,        \* positions in script whose event has been appended
    reader,     \* GET /runs/{id}: the record it is about to cache, if any
    last        \* auxiliary: position of the event whose record was written
                \* last, 0 if it was the confirmation

vars == <<script, sent, event, failures, raises, confirm, ingest, copy, row, cache, log,
          reader, last>>
workerVars == <<script, sent, event, failures>>

(* What the reports say.  The output of a success is a text, a dictionary  *)
(* (of an Approval node, for one), or not in the payload at all (of        *)
(* ApiGenGenerateWorkflow).                                                *)
Events == [type : {"run_succeeded"}, output : {"text", "dict", "none"}]
          \cup [type : {"run_failed", "run_awaiting_review",
                       "approved", "rejected", "timeout", "request_changes"},
               output : {"none"}]

RunStatuses == {"queued", "running", "awaiting_review", "succeeded", "failed",
                "rejected", "escalated"}

(* The column output is a TEXT. *)
Records == [status : RunStatuses, output : {"text", "none"}, error : BOOLEAN]

ASSUME RecordAssumption == /\ {MaxPosts, MaxFailures, MaxRaises} \subseteq Nat
                           /\ \A s \in Scripts : s \in Seq(Events) /\ s # <<>>
                           /\ Empty \notin Records

Posts == 1 .. MaxPosts

NewRecord == [status |-> "queued", output |-> "none", error |-> FALSE]

(* Rows, cached entries and local copies are records of the run. *)
TypeOK ==
    /\ script \in Scripts
    /\ sent \in 0 .. MaxPosts
    /\ event \in [Posts -> 0 .. Len(script)]
    /\ failures \in 0 .. MaxFailures
    /\ raises \in 0 .. MaxRaises
    /\ confirm \in {"starting", "invalidating", "done"}
    /\ ingest \in [Posts -> {"none", "reading", "missed", "filling", "appending",
                             "writing", "invalidating", "done", "lost"}]
    /\ copy \in [Posts -> Records \cup {Empty}]
    /\ row \in Records
    /\ cache \in Records \cup {Empty}
    /\ log \subseteq 1 .. Len(script)
    /\ reader \in Records \cup {Empty}
    /\ last \in 0 .. Len(script)

(* The status side effects of append_internal_event on a record. *)
Apply(e, r) ==
    CASE e.type = "run_succeeded"   -> [r EXCEPT !.status = "succeeded", !.output = e.output]
      [] e.type = "run_failed"      -> [r EXCEPT !.status = "failed", !.error = TRUE]
      [] e.type = "approved"        -> [r EXCEPT !.status = "running"]
      [] e.type = "rejected"        -> [r EXCEPT !.status = "rejected"]
      [] e.type = "timeout"         -> [r EXCEPT !.status = "escalated"]
      [] e.type = "request_changes" -> r
      [] e.type = "run_awaiting_review" -> [r EXCEPT !.status = "awaiting_review"]

Init ==
    /\ script \in Scripts
    /\ sent = 0
    /\ event = [i \in Posts |-> 0]
    /\ failures = 0
    /\ raises = 0
    /\ confirm = "starting"
    /\ ingest = [i \in Posts |-> "none"]
    /\ copy = [i \in Posts |-> Empty]
    /\ row = NewRecord
    /\ cache = Empty
    /\ log = {}
    /\ reader = Empty
    /\ last = 0

-----------------------------------------------------------------------------
(* The worker. *)

(* The event the worker has posted last. *)
Posted == IF sent = 0 THEN 0 ELSE event[sent]

(* Mutant: the posts are not awaited.                                      *)
NotAwaited == TRUE

(* The previous post has been answered, or given up on. *)
Answered == sent > 0 => ingest[sent] \in {"done", "lost"}

(* The worker posts the next event, or its last one again.                 *)
PostOf(to) ==
    /\ sent < MaxPosts
    /\ sent' = sent + 1
    /\ \E e \in {Posted, Posted + 1} :
           /\ e \in 1 .. Len(script)
           /\ event' = [event EXCEPT ![sent + 1] = e]
    /\ ingest' = [ingest EXCEPT ![sent + 1] = to]
    /\ UNCHANGED <<script, raises, confirm, copy, row, cache, log, reader, last>>

GiveUp == failures < MaxFailures /\ failures' = failures + 1

Post == Answered /\ PostOf("reading") /\ UNCHANGED failures

(* The post fails before the API handles it. *)
PostLost == Answered /\ PostOf("lost") /\ GiveUp

(* The HTTP timeout passes, or the worker dies, while the API is still     *)
(* ingesting: the next post is ingested beside it.                         *)
PostOverTimeout == ~Answered /\ PostOf("reading") /\ GiveUp

-----------------------------------------------------------------------------
(* append_internal_event for post i, one await per step. *)

Move(i, from, to) == ingest[i] = from /\ ingest' = [ingest EXCEPT ![i] = to]

(* get_run: the cached record if there is one. *)
ReadCached(i) ==
    /\ cache # Empty
    /\ Move(i, "reading", "appending")
    /\ copy' = [copy EXCEPT ![i] = cache]
    /\ UNCHANGED <<workerVars, raises, confirm, row, cache, log, reader, last>>

ReadMissed(i) ==
    /\ cache = Empty
    /\ Move(i, "reading", "missed")
    /\ UNCHANGED <<workerVars, raises, confirm, copy, row, cache, log, reader, last>>

(* ... else the row, which is then put in the cache. *)
ReadRow(i) ==
    /\ Move(i, "missed", "filling")
    /\ copy' = [copy EXCEPT ![i] = row]
    /\ UNCHANGED <<workerVars, raises, confirm, row, cache, log, reader, last>>

FillCache(i) ==
    /\ Move(i, "filling", "appending")
    /\ cache' = copy[i]
    /\ UNCHANGED <<workerVars, raises, confirm, copy, row, log, reader, last>>

(* emit_event appends the event to the run's log. *)
AppendEvent(i) ==
    /\ Move(i, "appending", "writing")
    /\ log' = log \cup {event[i]}
    /\ UNCHANGED <<workerVars, raises, confirm, copy, row, cache, reader, last>>

(* What becomes of the record that handler i holds. *)
Applied(i) == Apply(script[event[i]], copy[i])

Ends(i, from) == Move(i, from, "done") /\ copy' = [copy EXCEPT ![i] = Empty]

(* Mutant: only the status column is written.                              *)
WriteStatus(i) ==
    /\ Move(i, "writing", "invalidating")
    /\ Applied(i) \in Records
    /\ copy' = [copy EXCEPT ![i] = Applied(i)]
    /\ row' = [row EXCEPT !.status = Applied(i).status]
    /\ last' = event[i]
    /\ UNCHANGED <<workerVars, raises, confirm, cache, log, reader>>

(* update_run: every column of the row, from the handler's own copy. *)
WriteRow(i) ==
    /\ Move(i, "writing", "invalidating")
    /\ Applied(i) \in Records
    /\ copy' = [copy EXCEPT ![i] = Applied(i)]
    /\ row' = Applied(i)
    /\ last' = event[i]
    /\ UNCHANGED <<workerVars, raises, confirm, cache, log, reader>>

(* asyncpg takes no dictionary for a TEXT: update_run raises, with the     *)
(* event in the log.                                                       *)
WriteRefused(i) ==
    /\ Ends(i, "writing")
    /\ Applied(i) \notin Records
    /\ UNCHANGED <<workerVars, raises, confirm, row, cache, log, reader, last>>

Invalidate(i) ==
    /\ Ends(i, "invalidating")
    /\ cache' = Empty
    /\ UNCHANGED <<workerVars, raises, confirm, row, log, reader, last>>

CallRaises == raises < MaxRaises /\ raises' = raises + 1

(* A call of Postgres or Redis raises: the post is answered 500, whatever  *)
(* has been done by then.                                                  *)
IngestRaises(i) ==
    /\ Ends(i, ingest[i]) /\ ingest[i] \notin {"none", "done", "lost"}
    /\ CallRaises
    /\ UNCHANGED <<workerVars, confirm, row, cache, log, reader, last>>

-----------------------------------------------------------------------------
(* _create_run_impl, once start_workflow has returned: its copy is the     *)
(* record it created, and update_run writes every column.                  *)

Confirm ==
    /\ confirm = "starting"
    /\ confirm' = "invalidating"
    /\ row' = [NewRecord EXCEPT !.status = "running"]
    /\ last' = 0
    /\ UNCHANGED <<workerVars, raises, ingest, copy, cache, log, reader>>

ConfirmInvalidates ==
    /\ confirm = "invalidating"
    /\ confirm' = "done"
    /\ cache' = Empty
    /\ UNCHANGED <<workerVars, raises, ingest, copy, row, log, reader, last>>

(* Its update_run raises, before or after the row is written. *)
ConfirmRaises ==
    /\ confirm # "done"
    /\ confirm' = "done"
    /\ CallRaises
    /\ UNCHANGED <<workerVars, ingest, copy, row, cache, log, reader, last>>

-----------------------------------------------------------------------------
(* A client polling GET /runs/{id} reads the row on a miss and fills the   *)
(* cache a step later.                                                     *)
PollReads ==
    /\ cache = Empty
    /\ reader = Empty
    /\ reader' = row
    /\ UNCHANGED <<workerVars, raises, confirm, ingest, copy, row, cache, log, last>>

PollFills ==
    /\ reader # Empty
    /\ cache' = reader
    /\ reader' = Empty
    /\ UNCHANGED <<workerVars, raises, confirm, ingest, copy, row, log, last>>

(* Mutant: entries are stored without a TTL.                               *)
CacheNeverExpires == FALSE /\ UNCHANGED vars

(* The entry's TTL passes. *)
CacheExpires ==
    /\ cache # Empty
    /\ cache' = Empty
    /\ UNCHANGED <<workerVars, raises, confirm, ingest, copy, row, log, reader, last>>

-----------------------------------------------------------------------------
Ingest(i) == \/ ReadCached(i)
             \/ ReadMissed(i)
             \/ ReadRow(i)
             \/ FillCache(i)
             \/ AppendEvent(i)
             \/ WriteRow(i)
             \/ WriteRefused(i)
             \/ Invalidate(i)

Worker == Post \/ PostLost \/ PostOverTimeout

Creator == Confirm \/ ConfirmInvalidates

Poll == PollReads \/ PollFills

Next == \/ Worker
        \/ Creator
        \/ \E i \in Posts : Ingest(i)
        \/ \E i \in Posts : IngestRaises(i)
        \/ ConfirmRaises
        \/ Poll
        \/ CacheExpires

(* The worker posts on, the event loop resumes handlers, Redis expires     *)
(* entries and a poll that has read does fill.                             *)
Fairness == /\ WF_vars(Post)
            /\ WF_vars(Creator)
            /\ \A i \in Posts : WF_vars(Ingest(i))
            /\ WF_vars(PollFills)
            /\ WF_vars(CacheExpires)

Spec == Init /\ [][Next]_vars /\ Fairness

-----------------------------------------------------------------------------
Quiet == /\ Posted = Len(script)
         /\ confirm = "done"
         /\ \A i \in 1 .. sent : ingest[i] \in {"done", "lost"}

(* Whatever stale copies are written back, and wherever an ingestion ends, *)
(* a record claims success only with the very output of a success the log  *)
(* holds, and failure only with its error and a failure the log holds:     *)
(* rows, cache entries and the records handlers hold.                      *)
RecordsConsistent ==
    \A r \in {row, cache, reader} \cup {copy[i] : i \in Posts} :
        r # Empty =>
            /\ r.status = "succeeded" =>
                   \E k \in log : script[k] = [type |-> "run_succeeded", output |-> r.output]
            /\ r.status = "failed" => r.error /\ \E k \in log : script[k].type = "run_failed"

(* The k-th event can be written to the row. *)
Written(k) == script[k].output # "dict"

(* When no post was given up on and no store call raised, the worker's     *)
(* order is the order in which statuses are applied, events that are       *)
(* posted and applied again and stale cache entries notwithstanding: once  *)
(* every event is ingested the row has the status given by the last event  *)
(* that can be written.  Only the confirmation of a run that was faster    *)
(* than the request that started it can undo it, to a running run without  *)
(* output or error.                                                        *)
LastEventDecides ==
    Quiet /\ failures = 0 /\ raises = 0 =>
        IF last = 0
        THEN row = [NewRecord EXCEPT !.status = "running"]
        ELSE /\ row.status = Apply(script[last], row).status
             /\ Written(last)
             /\ \A k \in last + 1 .. Len(script) : ~Written(k)

(* The cache stops disagreeing with the row for good after the last write. *)
CacheConverges == <>[](cache \in {Empty, row})
=============================================================================
