-------------------------- MODULE RunRecord_proofs --------------------------
(***************************************************************************)
(* Proofs about RunRecord, for any scripts, any number of posts and any    *)
(* bounds on the posts given up on and the calls that raise; and about     *)
(* RunTree, whose events those posts are, for any documents and any depth. *)
(***************************************************************************)
EXTENDS RunRecord, RunTree, FiniteSetTheorems, SequenceTheorems, TLAPS

(* What a record claims of the run's end, the log holds. *)
Consistent(r) ==
    /\ r.status = "succeeded" =>
           \E k \in log : script[k] = [type |-> "run_succeeded", output |-> r.output]
    /\ r.status = "failed" => r.error /\ \E k \in log : script[k].type = "run_failed"

(* Posts are numbered as they are made; each is about an event of the      *)
(* script, and its handler holds a record from its read to its last step,  *)
(* and has appended the event when it writes.                              *)
Placed ==
    \A i \in Posts :
        /\ ingest[i] = "none" <=> i > sent
        /\ ingest[i] # "none" => event[i] \in 1 .. Len(script)
        /\ ingest[i] \in {"filling", "appending", "writing"} => copy[i] # Empty
        /\ ingest[i] = "writing" => event[i] \in log

AllConsistent ==
    /\ Consistent(row)
    /\ cache # Empty => Consistent(cache)
    /\ reader # Empty => Consistent(reader)
    /\ \A i \in Posts : copy[i] # Empty => Consistent(copy[i])

(* While no post is given up on they are handled one after the other.      *)
OneAtATime ==
    failures = 0 => /\ \A i \in Posts : ingest[i] # "lost"
                    /\ \A i \in Posts : i < sent => ingest[i] = "done"

(* Event l is the last of the first k that can be written. *)
Newest(l, k) == /\ l \in 1 .. k /\ Written(l)
                /\ \A j \in l + 1 .. k : ~Written(j)

(* The row has the status that the event written last gives, or is as the  *)
(* confirmation left it; and while no post is given up on and no call      *)
(* raises that event is the newest of those posted that can be written,    *)
(* but for the one that is about to be.                                    *)
LastWritten ==
    /\ last # 0 => row.status = Apply(script[last], row).status
    /\ failures = 0 /\ raises = 0 /\ last = 0 /\ confirm # "starting" =>
           row = [NewRecord EXCEPT !.status = "running"]
    /\ failures = 0 /\ raises = 0 /\ last # 0 =>
           /\ sent > 0
           /\ \/ Newest(last, event[sent])
              \/ Written(event[sent]) /\ ingest[sent] \notin {"invalidating", "done"}

IndInv == TypeOK /\ Placed /\ AllConsistent /\ OneAtATime /\ LastWritten

-----------------------------------------------------------------------------
(* What an event does to a record: one that can be written stays a record, *)
(* it claims what the event in the log says, and the event has no more to  *)
(* say about its status.                                                   *)
LEMMA ApplyFacts ==
    ASSUME NEW k \in log, script[k] \in Events, NEW r \in Records
    PROVE  /\ Written(k) <=> Apply(script[k], r) \in Records
           /\ Consistent(r) => Consistent(Apply(script[k], r))
           /\ Apply(script[k], Apply(script[k], r)).status = Apply(script[k], r).status
  <1> DEFINE e == script[k]
  <1>1. CASE e.type = "run_succeeded"
    <2>1. /\ Apply(e, r) = [r EXCEPT !.status = "succeeded", !.output = e.output]
          /\ e.output \in {"text", "dict", "none"}
          /\ e = [type |-> "run_succeeded", output |-> e.output]
      BY <1>1 DEF Apply, Events
    <2>2. /\ Apply(e, r).status = "succeeded" /\ Apply(e, r).output = e.output
          /\ Apply(e, r) \in [status : RunStatuses, output : {e.output}, error : BOOLEAN]
      BY <2>1 DEF Records, RunStatuses
    <2>3. Apply(e, Apply(e, r)).status = "succeeded" BY <1>1, <2>2 DEF Apply
    <2>4. Written(k) <=> Apply(e, r) \in Records BY <2>1, <2>2 DEF Written, Records
    <2>5. Consistent(Apply(e, r)) BY <2>1, <2>2 DEF Consistent
    <2> QED BY <2>2, <2>3, <2>4, <2>5
  <1>2. CASE e.type # "run_succeeded"
    <2>1. Written(k) BY <1>2 DEF Events, Written
    <2>2. CASE e.type = "run_failed"
      BY <2>1, <2>2 DEF Apply, Records, RunStatuses, Consistent
    <2>3. CASE e.type = "run_awaiting_review"
      BY <2>1, <2>3 DEF Apply, Records, RunStatuses, Consistent
    <2>4. CASE e.type = "approved" BY <2>1, <2>4 DEF Apply, Records, RunStatuses, Consistent
    <2>5. CASE e.type = "rejected" BY <2>1, <2>5 DEF Apply, Records, RunStatuses, Consistent
    <2>6. CASE e.type = "timeout" BY <2>1, <2>6 DEF Apply, Records, RunStatuses, Consistent
    <2>7. CASE e.type = "request_changes" BY <2>1, <2>7 DEF Apply, Consistent
    <2> QED BY <1>2, <2>2, <2>3, <2>4, <2>5, <2>6, <2>7 DEF Events
  <1> QED BY <1>1, <1>2

(* A new record, and one that runs, claim nothing.                         *)
LEMMA NewRecords ==
    /\ NewRecord \in Records /\ Consistent(NewRecord)
    /\ [NewRecord EXCEPT !.status = "running"] \in Records
    /\ Consistent([NewRecord EXCEPT !.status = "running"])
  BY DEF NewRecord, Records, RunStatuses, Consistent

(* The script is a sequence of events, and not empty.                      *)
LEMMA ScriptFacts ==
    ASSUME TypeOK
    PROVE  /\ script \in Seq(Events) /\ Len(script) \in Nat \ {0}
           /\ \A k \in 1 .. Len(script) : script[k] \in Events
  BY RecordAssumption DEF TypeOK, RecordAssumption

(* The initial states satisfy the invariant.                               *)
LEMMA InitInd == Init => IndInv
  <1> SUFFICES ASSUME Init PROVE IndInv OBVIOUS
  <1>1. Len(script) \in Nat BY RecordAssumption DEF Init, RecordAssumption
  <1>2. TypeOK BY <1>1, NewRecords, RecordAssumption DEF Init, TypeOK, Posts, RecordAssumption
  <1>3. Placed /\ OneAtATime /\ LastWritten
    BY RecordAssumption DEF Init, Placed, OneAtATime, LastWritten, Posts, RecordAssumption
  <1>4. AllConsistent BY NewRecords DEF Init, AllConsistent
  <1> QED BY <1>2, <1>3, <1>4 DEF IndInv

-----------------------------------------------------------------------------
(* Steps that post an event, and those that handle one.                    *)

(* The constants are naturals, whatever the state.                         *)
LEMMA Bounds == /\ MaxPosts \in Nat /\ MaxFailures \in Nat /\ MaxRaises \in Nat
                /\ Empty \notin Records
  BY RecordAssumption DEF RecordAssumption

(* A handler that is under way has been posted.                            *)
LEMMA HandlerFacts ==
    ASSUME IndInv, NEW i \in Posts, ingest[i] # "none"
    PROVE  /\ sent \in Nat /\ i \in 1 .. sent
           /\ event[i] \in 1 .. Len(script) /\ event[i] # 0
           /\ script[event[i]] \in Events
           /\ failures = 0 /\ ingest[i] # "done" => i = sent
  <1>1. sent \in Nat /\ i \in Nat /\ i >= 1 BY Bounds DEF IndInv, TypeOK, Posts
  <1>2. event[i] \in 1 .. Len(script) /\ i <= sent BY <1>1 DEF IndInv, Placed
  <1>3. script[event[i]] \in Events /\ event[i] # 0 BY <1>2, ScriptFacts DEF IndInv
  <1> QED BY <1>1, <1>2, <1>3 DEF IndInv, OneAtATime

(* A post makes a handler, or is lost, at the end of the line.             *)
LEMMA PostOfInd ==
    ASSUME IndInv, NEW to \in {"reading", "lost"}, PostOf(to),
           failures' \in 0 .. MaxFailures,
           failures' = 0 => failures = 0 /\ to = "reading" /\ Answered
    PROVE  IndInv'
  <1>1. /\ sent \in Nat /\ sent + 1 \in Posts /\ sent' = sent + 1 /\ sent + 1 # 0
        /\ sent' \in 0 .. MaxPosts
    BY Bounds DEF IndInv, TypeOK, PostOf, Posts
  <1>2. PICK k \in 1 .. Len(script) : /\ k \in {Posted, Posted + 1}
                                      /\ event' = [event EXCEPT ![sent + 1] = k]
    BY DEF PostOf
  <1>3. Len(script) \in Nat BY ScriptFacts DEF IndInv
  <1>4. /\ ingest'[sent + 1] = to /\ event'[sent + 1] = k
        /\ \A j \in Posts : j # sent + 1 => ingest'[j] = ingest[j] /\ event'[j] = event[j]
    <2>1. DOMAIN ingest = Posts /\ DOMAIN event = Posts BY DEF IndInv, TypeOK
    <2>2. ingest' = [ingest EXCEPT ![sent + 1] = to] BY DEF PostOf
    <2> QED BY <2>1, <2>2, <1>1, <1>2
  <1>5. TypeOK'
    BY <1>1, <1>2, <1>3 DEF IndInv, TypeOK, PostOf
  <1>6. Placed'
    <2> SUFFICES ASSUME NEW j \in Posts
                 PROVE  /\ ingest'[j] = "none" <=> j > sent'
                        /\ ingest'[j] # "none" => event'[j] \in 1 .. Len(script')
                        /\ ingest'[j] \in {"filling", "appending", "writing"} => copy'[j] # Empty
                        /\ ingest'[j] = "writing" => event'[j] \in log'
      BY DEF Placed
    <2>1. j \in Nat BY DEF Posts
    <2> QED BY <2>1, <1>1, <1>4 DEF IndInv, Placed, PostOf
  <1>7. AllConsistent' BY DEF IndInv, AllConsistent, Consistent, PostOf
  <1>8. OneAtATime'
    <2> SUFFICES ASSUME failures' = 0, NEW j \in Posts
                 PROVE  ingest'[j] # "lost" /\ (j < sent' => ingest'[j] = "done")
      BY DEF OneAtATime
    <2>1. j \in Nat BY DEF Posts
    <2>2. ingest[j] # "lost" /\ (j < sent => ingest[j] = "done") BY DEF IndInv, OneAtATime
    <2>3. j = sent => ingest[j] \in {"done", "lost"} BY <2>1, <1>1 DEF Answered, Posts
    <2> QED BY <2>1, <2>2, <2>3, <1>1, <1>4
  <1>9. LastWritten'
    <2>1. /\ last' # 0 => row'.status = Apply(script'[last'], row').status
          /\ failures' = 0 /\ raises' = 0 /\ last' = 0 /\ confirm' # "starting" =>
                row' = [NewRecord EXCEPT !.status = "running"]
      BY DEF IndInv, LastWritten, PostOf
    <2>2. ASSUME failures' = 0, raises' = 0, last' # 0
          PROVE  Newest(last, k) \/ Written(k)
      <3>1. /\ failures = 0 /\ raises = 0 /\ last # 0 /\ sent > 0 /\ Answered
        BY <2>2 DEF PostOf, IndInv, LastWritten
      <3>2. ingest[sent] = "done"
        <4>1. sent \in Posts BY <1>1, <3>1, Bounds DEF Posts
        <4>2. ingest[sent] # "lost" BY <3>1, <4>1 DEF IndInv, OneAtATime
        <4> QED BY <3>1, <4>2 DEF Answered
      <3>3. Newest(last, event[sent])
        BY <3>1, <3>2 DEF IndInv, LastWritten
      <3>4. event[sent] \in Nat /\ k \in {event[sent], event[sent] + 1}
        BY <1>1, <1>2, <1>3, <3>1 DEF Posted, IndInv, TypeOK, Posts
      <3>5. CASE k = event[sent] BY <3>3, <3>5
      <3>6. CASE k = event[sent] + 1 /\ ~Written(k)
        <4>1. \A j \in last + 1 .. k : j \in last + 1 .. event[sent] \/ j = k
          BY <1>3, <3>3, <3>4, <3>6 DEF Newest
        <4>2. last \in 1 .. k BY <1>3, <3>3, <3>4, <3>6 DEF Newest
        <4> QED BY <3>3, <3>6, <4>1, <4>2 DEF Newest
      <3> QED BY <3>4, <3>5, <3>6
    <2>3. UNCHANGED <<script, last>> BY DEF PostOf
    <2>4. failures' = 0 => to = "reading" OBVIOUS
    <2>5. sent' > 0 /\ ingest'[sent'] = to /\ event'[sent'] = k BY <1>1, <1>4
    <2> QED BY <2>1, <2>2, <2>3, <2>4, <2>5 DEF LastWritten, Newest, Written
  <1> QED BY <1>5, <1>6, <1>7, <1>8, <1>9 DEF IndInv

(* A step of handler i that does not write keeps what handlers hold apart  *)
(* from the record it reads.  The handler ends when it has written, or     *)
(* raises, be it that what it holds cannot be written.                     *)
LEMMA HandlerMoves ==
    ASSUME IndInv, NEW i \in Posts, NEW from, NEW to \in {"missed", "filling", "appending", "writing", "done"},
           Move(i, from, to), from \notin {"none", "lost", "done"},
           to # "done" => from # "invalidating",
           to = "done" => from = "invalidating" \/ raises' # 0 \/ ~Written(event[i]),
           NEW r \in Records \cup {Empty}, copy' = [copy EXCEPT ![i] = r],
           r # Empty => Consistent(r),
           to \in {"filling", "appending", "writing"} => r # Empty,
           to = "writing" => event[i] \in log',
           UNCHANGED <<script, sent, event, failures, confirm, row, reader, last>>,
           cache' \in Records \cup {Empty}, cache' # Empty => Consistent(cache'),
           raises' \in 0 .. MaxRaises, raises' = 0 => raises = 0,
           log' \subseteq 1 .. Len(script), log \subseteq log'
    PROVE  IndInv'
  <1>1. /\ ingest'[i] = to /\ copy'[i] = r
        /\ \A j \in Posts : j # i => ingest'[j] = ingest[j] /\ copy'[j] = copy[j]
    <2>1. DOMAIN ingest = Posts /\ DOMAIN copy = Posts BY DEF IndInv, TypeOK
    <2>2. ingest' = [ingest EXCEPT ![i] = to] BY DEF Move
    <2> QED BY <2>1, <2>2
  <1>2. ingest[i] = from BY DEF Move
  <1>3. TypeOK' BY DEF Move, IndInv, TypeOK
  <1>4. Placed' BY <1>1, <1>2 DEF IndInv, Placed
  <1>5. AllConsistent'
    <2>1. \A x : Consistent(x) =>
              /\ x.status = "succeeded" =>
                    \E k \in log' : script'[k] = [type |-> "run_succeeded", output |-> x.output]
              /\ x.status = "failed" => x.error /\ \E k \in log' : script'[k].type = "run_failed"
      BY DEF Consistent
    <2>2. Consistent(row)' BY <2>1 DEF IndInv, AllConsistent, Consistent
    <2>3. cache' # Empty => Consistent(cache)' BY <2>1 DEF Consistent
    <2>4. reader' # Empty => Consistent(reader)'
      BY <2>1 DEF IndInv, AllConsistent, Consistent
    <2>5. ASSUME NEW j \in Posts, copy'[j] # Empty PROVE Consistent(copy[j])'
      <3>1. Consistent(copy'[j]) BY <1>1, <2>5 DEF IndInv, AllConsistent
      <3> QED BY <2>1, <3>1 DEF Consistent
    <2> QED BY <2>2, <2>3, <2>4, <2>5 DEF AllConsistent
  <1>6. OneAtATime' BY <1>1, <1>2 DEF IndInv, OneAtATime
  <1>7. LastWritten'
    <2>1. sent > 0 => sent \in Posts BY Bounds DEF IndInv, TypeOK, Posts
    <2>2. ASSUME failures' = 0, raises' = 0, last' # 0
          PROVE  /\ sent > 0
                 /\ \/ Newest(last, event[sent])
                    \/ Written(event[sent]) /\ ingest'[sent] \notin {"invalidating", "done"}
      <3>1. /\ sent > 0
            /\ \/ Newest(last, event[sent])
               \/ Written(event[sent]) /\ ingest[sent] \notin {"invalidating", "done"}
        BY <2>2 DEF IndInv, LastWritten
      <3> QED BY <2>1, <2>2, <3>1, <1>1, <1>2
    <2> QED BY <2>2 DEF IndInv, LastWritten, Newest, Written
  <1> QED BY <1>3, <1>4, <1>5, <1>6, <1>7 DEF IndInv

(* update_run writes the event's effect on a consistent record.            *)
LEMMA WriteRowInd ==
    ASSUME IndInv, NEW i \in Posts, WriteRow(i)
    PROVE  IndInv'
  <1> DEFINE r == Applied(i)
  <1>1. ingest[i] = "writing" BY DEF WriteRow, Move
  <1>2. copy[i] \in Records /\ Consistent(copy[i]) /\ event[i] \in log
    BY <1>1 DEF IndInv, TypeOK, Placed, AllConsistent
  <1>3. /\ sent \in Nat /\ i \in 1 .. sent /\ event[i] # 0
        /\ event[i] \in 1 .. Len(script) /\ script[event[i]] \in Events
        /\ failures = 0 => i = sent
    BY <1>1, HandlerFacts
  <1>4. /\ r \in Records /\ Consistent(r) /\ r # Empty /\ Written(event[i])
        /\ Apply(script[event[i]], r).status = r.status
    BY <1>2, <1>3, ApplyFacts, Bounds DEF Applied, WriteRow
  <1>5. /\ row' = r /\ last' = event[i]
        /\ UNCHANGED <<script, sent, event, failures, raises, confirm, cache, log, reader>>
    BY DEF WriteRow, workerVars
  <1>6. ingest' = [ingest EXCEPT ![i] = "invalidating"] /\ copy' = [copy EXCEPT ![i] = r]
    BY DEF WriteRow, Move
  <1> HIDE DEF r
  <1>7. /\ ingest'[i] = "invalidating" /\ copy'[i] = r
        /\ \A j \in Posts : j # i => ingest'[j] = ingest[j] /\ copy'[j] = copy[j]
    <2>1. DOMAIN ingest = Posts /\ DOMAIN copy = Posts BY DEF IndInv, TypeOK
    <2> QED BY <2>1, <1>6
  <1>8. TypeOK' BY <1>3, <1>4, <1>5, <1>6, ScriptFacts DEF IndInv, TypeOK
  <1>9. Placed' BY <1>1, <1>5, <1>7 DEF IndInv, Placed
  <1>10. AllConsistent' BY <1>4, <1>5, <1>7 DEF IndInv, AllConsistent, Consistent
  <1>11. OneAtATime' BY <1>1, <1>3, <1>5, <1>7 DEF IndInv, OneAtATime
  <1>12. LastWritten'
    <2>1. Newest(event[i], event[i])
      <3>1. event[i] \in Nat \ {0} BY <1>3, ScriptFacts DEF IndInv
      <3> QED BY <1>4, <3>1 DEF Newest
    <2>2. failures = 0 => sent > 0 /\ Newest(last', event[sent])
      BY <1>3, <1>5, <2>1
    <2> QED BY <1>3, <1>4, <1>5, <2>2 DEF LastWritten, Newest, Written
  <1> QED BY <1>8, <1>9, <1>10, <1>11, <1>12 DEF IndInv

(* One more call has raised. *)
LEMMA RaiseFacts ==
    ASSUME IndInv, CallRaises
    PROVE  raises' \in 0 .. MaxRaises /\ raises' # 0
  <1>1. raises \in 0 .. MaxRaises /\ MaxRaises \in Nat BY Bounds DEF IndInv, TypeOK
  <1>2. raises < MaxRaises /\ raises' = raises + 1 BY DEF CallRaises
  <1> QED BY <1>1, <1>2

(* The other writers of the row and the cache.                             *)
LEMMA CreatorInd ==
    ASSUME IndInv, Creator \/ ConfirmRaises
    PROVE  IndInv'
  <1>1. CASE Confirm
    <2>1. TypeOK' BY <1>1, NewRecords, ScriptFacts DEF IndInv, TypeOK, Confirm, workerVars
    <2>2. Placed' /\ OneAtATime' BY <1>1 DEF IndInv, Placed, OneAtATime, Confirm, workerVars
    <2>3. AllConsistent'
      BY <1>1, NewRecords DEF IndInv, AllConsistent, Consistent, Confirm, workerVars
    <2>4. LastWritten' BY <1>1 DEF IndInv, LastWritten, NewRecord, Confirm, workerVars
    <2> QED BY <2>1, <2>2, <2>3, <2>4 DEF IndInv
  <1>2. CASE ConfirmInvalidates \/ ConfirmRaises
    <2>1. /\ UNCHANGED <<script, sent, event, failures, ingest, copy, row, log, reader, last>>
          /\ cache' \in {cache, Empty} /\ confirm' = "done"
          /\ confirm = "starting" => raises' # 0
          /\ raises' \in 0 .. MaxRaises /\ (raises' = 0 => raises = 0)
      <3>1. raises \in 0 .. MaxRaises BY DEF IndInv, TypeOK
      <3>2. CASE ConfirmInvalidates BY <3>1, <3>2 DEF ConfirmInvalidates, workerVars
      <3>3. CASE ConfirmRaises BY <3>3, RaiseFacts DEF ConfirmRaises, workerVars
      <3> QED BY <1>2, <3>2, <3>3
    <2>2. TypeOK' BY <2>1 DEF IndInv, TypeOK
    <2>3. Placed' /\ OneAtATime' BY <2>1 DEF IndInv, Placed, OneAtATime
    <2>4. AllConsistent' BY <2>1 DEF IndInv, AllConsistent, Consistent
    <2>5. LastWritten' BY <2>1 DEF IndInv, LastWritten, Newest, Written
    <2> QED BY <2>2, <2>3, <2>4, <2>5 DEF IndInv
  <1> QED BY <1>1, <1>2 DEF Creator

(* Readers and Redis move records between the row and the cache.           *)
LEMMA CacheInd ==
    ASSUME IndInv,
           UNCHANGED <<script, sent, event, failures, raises, confirm, ingest, copy, row, log, last>>,
           cache' \in {cache, reader, Empty}, reader' \in {reader, row, Empty}
    PROVE  IndInv'
  <1>1. TypeOK' BY DEF IndInv, TypeOK
  <1>2. Placed' /\ OneAtATime' BY DEF IndInv, Placed, OneAtATime
  <1>3. AllConsistent' BY DEF IndInv, AllConsistent, Consistent
  <1>4. LastWritten' BY DEF IndInv, LastWritten, Newest, Written
  <1> QED BY <1>1, <1>2, <1>3, <1>4 DEF IndInv

(* Every step keeps the invariant.                                         *)
LEMMA NextInd == IndInv /\ [Next]_vars => IndInv'
  <1> SUFFICES ASSUME IndInv, [Next]_vars PROVE IndInv' OBVIOUS
  <1>1. /\ failures \in Nat /\ failures <= MaxFailures /\ MaxFailures \in Nat
        /\ raises \in Nat /\ raises <= MaxRaises /\ MaxRaises \in Nat
    BY Bounds DEF IndInv, TypeOK
  <1>2. CASE Post BY <1>1, <1>2, PostOfInd DEF Post
  <1>3. CASE PostLost BY <1>1, <1>3, PostOfInd DEF PostLost, GiveUp
  <1>4. CASE PostOverTimeout BY <1>1, <1>4, PostOfInd DEF PostOverTimeout, GiveUp
  <1>5. ASSUME NEW i \in Posts, Ingest(i) \/ IngestRaises(i) PROVE IndInv'
    <2>1. /\ copy[i] \in Records \cup {Empty} /\ (copy[i] # Empty => Consistent(copy[i]))
          /\ DOMAIN copy = Posts
      BY DEF IndInv, TypeOK, AllConsistent
    <2>2. copy = [copy EXCEPT ![i] = copy[i]] BY <2>1 DEF IndInv, TypeOK
    <2>3. /\ row \in Records /\ row # Empty /\ Consistent(row)
          /\ cache \in Records \cup {Empty} /\ (cache # Empty => Consistent(cache))
          /\ log \subseteq 1 .. Len(script) /\ raises \in 0 .. MaxRaises
      BY Bounds DEF IndInv, TypeOK, AllConsistent
    <2> USE DEF workerVars
    <2>4. CASE ReadCached(i) BY <2>3, <2>4, HandlerMoves DEF ReadCached
    <2>5. CASE ReadMissed(i) BY <2>1, <2>2, <2>3, <2>5, HandlerMoves DEF ReadMissed
    <2>6. CASE ReadRow(i) BY <2>3, <2>6, HandlerMoves DEF ReadRow
    <2>7. CASE FillCache(i)
      <3>1. copy[i] # Empty BY <2>7 DEF FillCache, Move, IndInv, Placed
      <3> QED BY <3>1, <2>1, <2>2, <2>3, <2>7, HandlerMoves DEF FillCache
    <2>8. CASE AppendEvent(i)
      <3>1. ingest[i] = "appending" BY <2>8 DEF AppendEvent, Move
      <3>2. copy[i] # Empty BY <3>1 DEF IndInv, Placed
      <3>3. log' \subseteq 1 .. Len(script) /\ log \subseteq log' /\ event[i] \in log'
        BY <2>3, <2>8, <3>1, HandlerFacts DEF AppendEvent
      <3> QED BY <3>2, <3>3, <2>1, <2>2, <2>3, <2>8, HandlerMoves DEF AppendEvent
    <2>9. CASE WriteRow(i) BY <2>9, WriteRowInd
    <2>10. CASE Invalidate(i) BY <2>3, <2>10, HandlerMoves DEF Invalidate, Ends
    <2>11. CASE WriteRefused(i)
      <3>1. ingest[i] = "writing" BY <2>11 DEF WriteRefused, Ends, Move
      <3>2. copy[i] \in Records /\ event[i] \in log /\ script[event[i]] \in Events
        BY <2>1, <3>1, HandlerFacts DEF IndInv, Placed
      <3>3. ~Written(event[i]) BY <2>11, <3>2, ApplyFacts DEF WriteRefused, Applied
      <3> QED BY <2>3, <2>11, <3>3, HandlerMoves DEF WriteRefused, Ends
    <2>12. CASE IngestRaises(i)
      <3>1. raises' \in 0 .. MaxRaises /\ raises' # 0 BY <2>12, RaiseFacts DEF IngestRaises
      <3> QED BY <2>3, <2>12, <3>1, HandlerMoves DEF IngestRaises, Ends
    <2> QED BY <1>5, <2>4, <2>5, <2>6, <2>7, <2>8, <2>9, <2>10, <2>11, <2>12 DEF Ingest
  <1>6. CASE Creator \/ ConfirmRaises BY <1>6, CreatorInd
  <1>7. CASE PollReads BY <1>7, CacheInd DEF PollReads, workerVars
  <1>8. CASE PollFills BY <1>8, CacheInd DEF PollFills, workerVars
  <1>9. CASE CacheExpires BY <1>9, CacheInd DEF CacheExpires, workerVars
  <1>10. CASE UNCHANGED vars BY <1>10, CacheInd DEF vars
  <1> QED BY <1>2, <1>3, <1>4, <1>5, <1>6, <1>7, <1>8, <1>9, <1>10 DEF Next, Worker, Poll

LEMMA Inductive == Spec => []IndInv
  BY InitInd, NextInd, PTL DEF Spec

-----------------------------------------------------------------------------
(* The record, its copies and the posts keep their types.                  *)
THEOREM RecordTypes == Spec => []TypeOK
  <1>1. IndInv => TypeOK BY DEF IndInv
  <1> QED BY <1>1, Inductive, PTL

(* For any script, any interleaving of handlers, readers and the cache,    *)
(* and wherever store calls raise, what a record claims of the run's end   *)
(* is what an event of the log reports.                                    *)
THEOREM RecordsKept == Spec => []RecordsConsistent
  <1>1. ASSUME IndInv,
               NEW r \in {row, cache, reader} \cup {copy[i] : i \in Posts}, r # Empty
        PROVE  Consistent(r)
    BY <1>1 DEF IndInv, AllConsistent
  <1>2. IndInv => RecordsConsistent BY <1>1 DEF RecordsConsistent, Consistent
  <1> QED BY <1>2, Inductive, PTL

(* For any script, however often its events are posted again, the last     *)
(* event that can be written decides the status, unless a post was given   *)
(* up on, a store call raised or the confirmation came last.               *)
THEOREM WorkerDecides == Spec => []LastEventDecides
  <1>1. ASSUME IndInv PROVE LastEventDecides
    <2> SUFFICES ASSUME Quiet, failures = 0, raises = 0
                 PROVE  IF last = 0
                        THEN row = [NewRecord EXCEPT !.status = "running"]
                        ELSE /\ row.status = Apply(script[last], row).status
                             /\ Written(last)
                             /\ \A k \in last + 1 .. Len(script) : ~Written(k)
      BY DEF LastEventDecides
    <2>1. CASE last = 0
      <3>1. confirm # "starting" BY DEF Quiet
      <3> QED BY <1>1, <2>1, <3>1 DEF IndInv, LastWritten
    <2>2. CASE last # 0
      <3>1. sent \in Nat /\ sent > 0 /\ sent \in Posts
        BY <1>1, <2>2, Bounds DEF IndInv, TypeOK, Posts, LastWritten
      <3>2. event[sent] = Len(script) BY <3>1 DEF Quiet, Posted
      <3>3. ingest[sent] = "done"
        <4>1. ingest[sent] # "lost" BY <1>1, <3>1 DEF IndInv, OneAtATime
        <4> QED BY <4>1, <3>1 DEF Quiet
      <3>4. Newest(last, event[sent]) BY <1>1, <2>2, <3>3 DEF IndInv, LastWritten
      <3> QED BY <1>1, <2>2, <3>2, <3>4 DEF IndInv, LastWritten, Newest
    <2> QED BY <2>1, <2>2
  <1> QED BY <1>1, Inductive, PTL

-----------------------------------------------------------------------------
(* RunTree.  What executions, paths and events are.                        *)

Phases   == {"running", "timing_out", "cancelling"} \cup Reporting
Results  == {"none", "succeeded", "failed", "cancelled", "terminated"}
Statuses == {"new"} \cup Settled \cup Active
Names    == UNION {Ids(d) : d \in DOMAIN Documents}
Nodes    == UNION {[Ids(d) -> Statuses] : d \in DOMAIN Documents}

Executions ==
    {x \in [def : DOMAIN Documents, phase : Phases, returned : BOOLEAN,
            raised : {"none", "failure", "other"}, result : Results, node : Nodes] :
        x.node \in [Ids(x.def) -> Statuses]}

NodeEvents == {"node_skipped", "node_routed_to_error"}
TreeEvents == [type : {"run_succeeded", "run_failed", "run_awaiting_review", "node_event"}
                          \cup NodeEvents,
               node : Names \cup {""}]

(* Events that say nothing of how the run or a node of it ended.           *)
CalmEvents == {e \in TreeEvents : e.node # "" /\ e.type \notin NodeEvents}

(* Every ancestor of an execution is one, too, and an execution that is    *)
(* not closed is awaited by a node of its parent.                          *)
TreeTypes ==
    /\ exec \in [DOMAIN exec -> Executions]
    /\ <<>> \in DOMAIN exec
    /\ DOMAIN exec \subseteq Seq(Names)
    /\ \A p \in DOMAIN exec : \A k \in 0 .. Len(p) : SubSeq(p, 1, k) \in DOMAIN exec
    /\ lost \in Nat
    /\ events \in Seq(TreeEvents)
    /\ adrift \subseteq TreeEvents

Awaited ==
    \A p \in DOMAIN exec : \A n \in Names :
        Below(p, n) \in DOMAIN exec /\ Phase(Below(p, n)) # "closed"
            => n \in DOMAIN exec[p].node /\ Node(p, n) = "child"

(* What the phase of an execution says of the rest of it. *)
NoneActive(x) == \A n \in DOMAIN x.node : x.node[n] \notin Active

Leaves(x) == \/ \E n \in DOMAIN x.node : x.node[n] = "interrupted"
             \/ x.result \in {"cancelled", "terminated"}

Coherent(x) ==
    /\ x.phase \in Reporting => NoneActive(x) \/ Leaves(x)
    /\ x.phase \in Ended => \A n \in DOMAIN x.node : x.node[n] \notin Active \ {"child"}
    /\ (Documents[x.def].valid /\ Acyclic(x.def)) \/ \A n \in DOMAIN x.node : x.node[n] = "new"
    /\ x.phase = "succeeding" => x.returned
    /\ x.returned => x.phase \in Reporting /\ \A n \in DOMAIN x.node : x.node[n] \in Settled
    /\ x.result # "none" <=> x.phase \in {"recording"} \cup Ended
    /\ x.phase = "recording" => x.result \in {"succeeded", "failed"}
    /\ x.result = "succeeded" => x.returned
    /\ \A n \in DOMAIN x.node : x.node[n] = "child" => Merged(x.def, n).ref \in DOMAIN Documents

(* The run itself has no parent that could cancel or terminate it.         *)
Free(x) == x.phase # "cancelling" /\ x.result \notin {"cancelled", "terminated"}

(* Between an execution that reports and one below it that is not closed   *)
(* is one that has left its children.                                      *)
Parted(p, q) == \E r \in DOMAIN exec : IsPrefix(p, r) /\ IsStrictPrefix(r, q) /\ Left(r)

Closing ==
    /\ \A p \in DOMAIN exec : Coherent(exec[p])
    /\ \A p, q \in DOMAIN exec :
          IsStrictPrefix(p, q) /\ Phase(p) \in Reporting /\ Phase(q) # "closed" => Parted(p, q)
    /\ Free(exec[<<>>])

(* What a step makes of the one execution it is a step of.                 *)
Evolves(p) ==
    /\ p \in DOMAIN exec
    /\ DOMAIN exec' = DOMAIN exec
    /\ exec' \in [DOMAIN exec -> Executions]
    /\ \A q \in DOMAIN exec : q # p => exec'[q] = exec[q]
    /\ exec'[p].def = exec[p].def
    /\ exec[p].returned => exec'[p].returned /\ exec'[p].node = exec[p].node
    /\ Phase(p) = "closed" => exec'[p] = exec[p]
    /\ Leaves(exec[p]) => Leaves(exec'[p])
    /\ p = <<>> => Free(exec'[p])
    /\ \A n \in DOMAIN exec[p].node :
          /\ exec[p].node[n] = "child" /\ exec'[p].node[n] # "child"
          /\ Below(p, n) \in DOMAIN exec
          => Phase(Below(p, n)) = "closed"
    /\ Coherent(exec'[p])

Over == {"recording"} \cup Ended

(* ... and of the run and its events, unless it is by that step that the   *)
(* run reports or that an event comes late.                                *)
CalmLog ==
    /\ events' = events \/ \E e \in CalmEvents : events' = Append(events, e)
    /\ adrift' \subseteq adrift \cup CalmEvents
    /\ lost' \in Nat /\ (lost' = 0 => lost = 0)

Calm ==
    /\ CalmLog
    /\ exec'[<<>>].result = exec[<<>>].result
    /\ exec[<<>>].returned => exec'[<<>>].returned
    /\ exec'[<<>>].phase \in Over <=> Phase(<<>>) \in Over
    /\ exec'[<<>>].phase \in Ended <=> Phase(<<>>) \in Ended
    /\ Phase(<<>>) \in Ended => /\ exec'[<<>>].returned = exec[<<>>].returned
                                /\ exec[<<>>].returned => exec'[<<>>].node = exec[<<>>].node

(* What is logged and what may be yet is true about the run's end and its  *)
(* nodes, of which the log only speaks when the run has ended, but then    *)
(* tells all there is to tell; and there is one report of the run's end    *)
(* once the run has reported.                                              *)
TrueEvent(e) ==
    /\ e.node = "" /\ e.type = "run_succeeded" => exec[<<>>].returned
    /\ e.node = "" /\ e.type = "run_failed" => exec[<<>>].result = "failed"
    /\ e.type \in NodeEvents => /\ Phase(<<>>) \in Ended
                                /\ e.node \in Told(<<>>)
                                /\ e = StatusEvent(<<>>, e.node)

AllTrue == \A e \in Range(events) \cup adrift : TrueEvent(e)

EndSaid ==
    lost = 0 =>
        /\ \A e \in adrift : e.node # ""
        /\ IF Phase(<<>>) \in Over
           THEN \E i \in Reports :
                   /\ Reports = {i}
                   /\ events[i].type = IF exec[<<>>].result = "succeeded" THEN "run_succeeded"
                                                                        ELSE "run_failed"
           ELSE Reports = {}

NodesSaid ==
    lost = 0 /\ Phase(<<>>) \in Ended =>
        \A n \in Told(<<>>) : \E i \in DOMAIN events : events[i] = StatusEvent(<<>>, n)

Tells == AllTrue /\ EndSaid /\ NodesSaid

-----------------------------------------------------------------------------
LEMMA NamesFacts ==
    ASSUME NEW d \in DOMAIN Documents
    PROVE  /\ Ids(d) \subseteq Names /\ "" \notin Ids(d)
           /\ IsFiniteSet(Ids(d))
<1>1. Ids(d) \subseteq Names /\ "" \notin Ids(d)
  BY TreeAssumption DEF Names
<1> DEFINE s == Documents[d].nodes
           I == {i \in DOMAIN s : s[i].parent = ""}
           f == [i \in I |-> s[i].id]
<1>2. DOMAIN s = 1 .. Len(s) /\ Len(s) \in Nat
  <2>1. s \in Seq(Range(s))
    BY TreeAssumption
  <2> QED
    BY <2>1
<1>3. IsFiniteSet(I)
  <2>1. IsFiniteSet(1 .. Len(s))
    BY <1>2, FS_Interval
  <2> QED
    BY <1>2, <2>1, FS_Subset
<1>4. f \in Surjection(I, Ids(d))
  BY DEF Surjection, Ids, Top, Range
<1>5. IsFiniteSet(Ids(d))
  BY <1>3, <1>4, FS_Surjection
<1> QED
  BY <1>1, <1>5

LEMMA NoEmptyName == "" \notin Names
  BY NamesFacts DEF Names

LEMMA ExecutionFacts ==
    ASSUME TreeTypes, NEW p \in DOMAIN exec
    PROVE  /\ exec[p] \in Executions /\ exec[p].def \in DOMAIN Documents
           /\ DOMAIN exec[p].node = Ids(exec[p].def)
           /\ exec[p].node \in [Ids(exec[p].def) -> Statuses]
           /\ DOMAIN exec[p].node \subseteq Names
           /\ p \in Seq(Names)
<1>1. exec[p] \in Executions
  BY DEF TreeTypes
<1>2. exec[p].def \in DOMAIN Documents /\ exec[p].node \in [Ids(exec[p].def) -> Statuses]
  BY <1>1 DEF Executions
<1> QED
  BY <1>1, <1>2, NamesFacts DEF TreeTypes

(* A node of execution p goes on.                                          *)
LEMMA NodeGoesOn ==
    ASSUME TreeTypes, Closing, NEW p \in DOMAIN exec, NEW n \in DOMAIN exec[p].node,
           NEW s \in Statuses \ {"new"}, SetNode(p, n, s), Node(p, n) \in Active,
           Node(p, n) = "child" =>
               /\ s \notin Active /\ Phase(p) # "closed"
               /\ Below(p, n) \notin DOMAIN exec \/ Phase(Below(p, n)) = "closed",
           s = "child" => Kind(p, n).ref \in DOMAIN Documents
    PROVE  /\ Evolves(p)
           /\ exec'[p].phase = exec[p].phase /\ exec'[p].result = exec[p].result
           /\ exec'[p].returned = exec[p].returned
<1> DEFINE x == [exec[p] EXCEPT !.node = [exec[p].node EXCEPT ![n] = s]]
<1>1. /\ exec[p] \in Executions /\ exec[p].node \in [Ids(exec[p].def) -> Statuses]
      /\ exec[p].def \in DOMAIN Documents
  BY ExecutionFacts
<1>2. [exec[p].node EXCEPT ![n] = s] \in [Ids(exec[p].def) -> Statuses]
  BY <1>1
<1>3. /\ x.def = exec[p].def /\ x.phase = exec[p].phase /\ x.returned = exec[p].returned
      /\ x.result = exec[p].result /\ x.node = [exec[p].node EXCEPT ![n] = s]
      /\ x \in Executions
  BY <1>1, <1>2 DEF Executions, Nodes
<1>4. exec' = [exec EXCEPT ![p] = x]
  BY DEF SetNode, TreeTypes
<1> HIDE DEF x
<1>5. /\ DOMAIN exec' = DOMAIN exec /\ exec' \in [DOMAIN exec -> Executions]
      /\ exec'[p] = x /\ \A q \in DOMAIN exec : q # p => exec'[q] = exec[q]
  BY <1>3, <1>4 DEF TreeTypes
<1>6. Coherent(exec[p]) /\ exec[p].node[n] \in Active
  BY DEF Closing, Node
<1>7. /\ ~exec[p].returned
      /\ exec[p].phase \in Ended => exec[p].node[n] = "child"
      /\ exec[p].phase \in Reporting => Leaves(exec[p])
  BY <1>6 DEF Coherent, NoneActive, Settled, Active
<1>8. Leaves(exec[p]) => Leaves(x)
  BY <1>1, <1>3, <1>6 DEF Leaves, Active
<1>9. Coherent(x)
  <2>1. Documents[x.def].valid /\ Acyclic(x.def)
    BY <1>3, <1>6 DEF Coherent, Active
  <2>2. \A m \in DOMAIN x.node : x.node[m] = "child" => Merged(x.def, m).ref \in DOMAIN Documents
    BY <1>1, <1>3, <1>6 DEF Coherent, Kind
  <2>3. x.phase \in Ended => \A m \in DOMAIN x.node : x.node[m] \notin Active \ {"child"}
    BY <1>1, <1>3, <1>6, <1>7 DEF Coherent, Node
  <2> QED
    BY <1>3, <1>6, <1>7, <1>8, <2>1, <2>2, <2>3 DEF Coherent
<1>10. p = <<>> => Free(x)
  BY <1>3 DEF Closing, Free
<1>11. \A m \in DOMAIN exec[p].node :
          exec[p].node[m] = "child" /\ x.node[m] # "child" /\ Below(p, m) \in DOMAIN exec
          => Phase(Below(p, m)) = "closed"
  BY <1>1, <1>3 DEF Node
<1>12. Phase(p) # "closed"
  BY <1>7 DEF Phase, Node, Ended
<1> QED
  BY <1>3, <1>5, <1>7, <1>8, <1>9, <1>10, <1>11, <1>12 DEF Evolves

(* An execution that is not closed becomes x. *)
LEMMA GoesOn ==
    ASSUME TreeTypes, Closing, NEW p \in DOMAIN exec, NEW x \in Executions,
           exec' = [exec EXCEPT ![p] = x],
           x.def = exec[p].def, exec[p].returned => x.returned /\ x.node = exec[p].node,
           Phase(p) # "closed",
           Leaves(exec[p]) => Leaves(x),
           p = <<>> => Free(x),
           \A n \in DOMAIN exec[p].node :
               exec[p].node[n] = "child" /\ x.node[n] # "child" => Below(p, n) \notin DOMAIN exec,
           Coherent(x)
    PROVE  Evolves(p) /\ exec'[p] = x
<1>1. /\ DOMAIN exec' = DOMAIN exec /\ exec' \in [DOMAIN exec -> Executions]
      /\ exec'[p] = x /\ \A q \in DOMAIN exec : q # p => exec'[q] = exec[q]
  BY DEF TreeTypes
<1> QED
  BY <1>1 DEF Evolves

LEMMA RunningFacts ==
    ASSUME TreeTypes, Closing, NEW p \in DOMAIN exec
    PROVE  /\ Coherent(exec[p])
           /\ Phase(p) \notin Over => exec[p].result = "none"
           /\ Phase(p) \notin Reporting => ~exec[p].returned
           /\ Idle(p) <=> NoneActive(exec[p])
           /\ Left(p) <=> Leaves(exec[p])
           /\ p = <<>> => Free(exec[p])
  BY DEF Closing, Coherent, Phase, Idle, NoneActive, Node, Left, Leaves, Interrupted, Over

LEMMA BatchEvolves ==
    ASSUME TreeTypes, Closing, NEW p \in DOMAIN exec, OpenBatch(p)
    PROVE  Evolves(p) /\ exec'[p].phase = Phase(p) /\ exec'[p].result = exec[p].result
<1> DEFINE d == exec[p].def
           level == {n \in Ids(d) : /\ Node(p, n) = "new"
                                /\ \A e \in In(d, n) : Node(p, e.source) \in Settled}
<1>1. PICK skipped \in SUBSET level :
          exec' = [exec EXCEPT ![p].node =
              [n \in Ids(d) |-> CASE n \in skipped -> "skipped"
                                  [] n \in level \ skipped -> FirstAwait(Kind(p, n).kind)
                                  [] OTHER -> @[n]]]
  BY DEF OpenBatch
<1> DEFINE f == [n \in Ids(d) |-> CASE n \in skipped -> "skipped"
                                    [] n \in level \ skipped -> FirstAwait(Kind(p, n).kind)
                                    [] OTHER -> exec[p].node[n]]
           x == [exec[p] EXCEPT !.node = f]
<1>2. /\ exec[p] \in Executions /\ exec[p].node \in [Ids(d) -> Statuses]
      /\ DOMAIN exec[p].node = Ids(d) /\ d \in DOMAIN Documents
  BY ExecutionFacts
<1>3. \A n \in Ids(d) : FirstAwait(Kind(p, n).kind) \in Statuses
  <2>1. \A n \in Ids(d) : Kind(p, n).kind \in
            {"Activity", "Wait", "Approval", "Pipeline", "Stored", "Inline"}
    BY <1>2, TreeAssumption DEF Kind, Kinds
  <2> QED
    BY <2>1 DEF FirstAwait, Statuses, Active
<1>3b. \A n \in Ids(d) : FirstAwait(Kind(p, n).kind) = "child" => Kind(p, n).ref \in DOMAIN Documents
  <2>1. \A n \in Ids(d) : Kind(p, n).kind \in
            {"Activity", "Wait", "Approval", "Pipeline", "Stored", "Inline"}
    BY <1>2, TreeAssumption DEF Kind, Kinds
  <2>2. \A n \in Ids(d) : Kind(p, n).kind = "Inline" => Kind(p, n).ref \in DOMAIN Documents
    BY <1>2, TreeAssumption DEF Kind
  <2> QED
    BY <2>1, <2>2 DEF FirstAwait
<1>4. f \in [Ids(d) -> Statuses]
  BY <1>2, <1>3 DEF Statuses, Settled
<1>5. exec' = [exec EXCEPT ![p] = x]
  BY <1>1
<1>6. \A n \in Ids(d) : exec[p].node[n] # "new" => f[n] = exec[p].node[n]
  BY <1>1 DEF Node
<1>7. /\ Phase(p) = "running" /\ Documents[d].valid /\ Acyclic(d)
  BY DEF OpenBatch
<1>8b. \A n \in Ids(d) : f[n] = "child" => Merged(d, n).ref \in DOMAIN Documents
  BY <1>2, <1>3b, RunningFacts DEF Coherent, Kind
<1> HIDE DEF f
<1>8. /\ x \in Executions /\ x.def = d /\ x.phase = exec[p].phase
      /\ x.returned = exec[p].returned /\ x.result = exec[p].result /\ x.node = f
  BY <1>2, <1>4 DEF Executions, Nodes
<1> HIDE DEF x
<1>9. x.phase \notin Reporting /\ x.phase # "closed" /\ ~exec[p].returned
  BY <1>7, <1>8, RunningFacts DEF Phase, Reporting, Ended
<1>10. Coherent(x)
  BY <1>4, <1>7, <1>8b, <1>8, <1>9, RunningFacts DEF Coherent, Phase, Reporting
<1>11. Leaves(exec[p]) => Leaves(x)
  BY <1>2, <1>4, <1>6, <1>8 DEF Leaves
<1>12. p = <<>> => Free(x)
  BY <1>8, RunningFacts DEF Free
<1>13. \A n \in DOMAIN exec[p].node : exec[p].node[n] = "child" => x.node[n] = "child"
  BY <1>2, <1>6, <1>8
<1> QED
  BY <1>5, <1>8, <1>9, <1>10, <1>11, <1>12, <1>13, GoesOn DEF Phase

LEMMA StoppedFacts ==
    ASSUME TreeTypes, NEW p \in DOMAIN exec
    PROVE  /\ Stopped(p) \in [Ids(exec[p].def) -> Statuses]
           /\ \A n \in Ids(exec[p].def) :
                 /\ exec[p].node[n] \in {"new", "interrupted"} => Stopped(p)[n] = exec[p].node[n]
                 /\ Stopped(p)[n] = "child" => exec[p].node[n] = "child"
                 /\ exec[p].node[n] = "child" /\ Stopped(p)[n] # "child"
                        => Below(p, n) \notin DOMAIN exec
<1>1. /\ exec[p].node \in [Ids(exec[p].def) -> Statuses]
      /\ DOMAIN exec[p].node = Ids(exec[p].def)
  BY ExecutionFacts
<1>2. \A n \in Ids(exec[p].def) :
          Stopped(p)[n] =
              IF exec[p].node[n] \in {"waiting", "parked"} THEN "interrupted"
              ELSE IF \/ exec[p].node[n] \in {"working", "preparing", "noting", "loading"}
                      \/ exec[p].node[n] = "child" /\ Below(p, n) \notin DOMAIN exec
              THEN "cancelled" ELSE exec[p].node[n]
  BY <1>1 DEF Stopped, Node
<1>3. Stopped(p) = [n \in Ids(exec[p].def) |-> Stopped(p)[n]]
  BY <1>1 DEF Stopped
<1>4. \A n \in Ids(exec[p].def) : Stopped(p)[n] \in Statuses
  BY <1>1, <1>2 DEF Statuses, Settled
<1>5. \A n \in Ids(exec[p].def) :
          /\ exec[p].node[n] \in {"new", "interrupted"} => Stopped(p)[n] = exec[p].node[n]
          /\ Stopped(p)[n] = "child" => exec[p].node[n] = "child"
          /\ exec[p].node[n] = "child" /\ Stopped(p)[n] # "child" => Below(p, n) \notin DOMAIN exec
  BY <1>2
<1> QED
  BY <1>3, <1>4, <1>5

LEMMA TornFacts ==
    ASSUME TreeTypes, NEW p \in DOMAIN exec
    PROVE  /\ Torn(p) \in [Ids(exec[p].def) -> Statuses]
           /\ \A n \in Ids(exec[p].def) :
                 /\ exec[p].node[n] \notin Active => Torn(p)[n] = exec[p].node[n]
                 /\ Torn(p)[n] = "child" <=> exec[p].node[n] = "child"
                 /\ Torn(p)[n] \notin Active \ {"child"}
           /\ NoneActive(exec[p]) => Torn(p) = exec[p].node
<1>1. /\ exec[p].node \in [Ids(exec[p].def) -> Statuses]
      /\ DOMAIN exec[p].node = Ids(exec[p].def)
  BY ExecutionFacts
<1>2. \A n \in Ids(exec[p].def) :
          Torn(p)[n] = IF exec[p].node[n] \in Active \ {"child"} THEN "cancelled"
                       ELSE exec[p].node[n]
  BY <1>1 DEF Torn, Node
<1>3. Torn(p) = [n \in Ids(exec[p].def) |-> Torn(p)[n]]
  BY <1>1 DEF Torn
<1>4. \A n \in Ids(exec[p].def) : Torn(p)[n] \in Statuses
  BY <1>1, <1>2 DEF Statuses, Settled
<1>5. \A n \in Ids(exec[p].def) :
          /\ exec[p].node[n] \notin Active => Torn(p)[n] = exec[p].node[n]
          /\ Torn(p)[n] = "child" <=> exec[p].node[n] = "child"
          /\ Torn(p)[n] \notin Active \ {"child"}
  BY <1>2 DEF Active
<1>6. NoneActive(exec[p]) => Torn(p) = exec[p].node
  BY <1>1, <1>3, <1>5 DEF NoneActive
<1> QED
  BY <1>3, <1>4, <1>5, <1>6

(* An execution closes as its nodes are torn.                              *)
LEMMA TornEvolves ==
    ASSUME TreeTypes, Closing, NEW p \in DOMAIN exec, Phase(p) # "closed",
           NEW ph \in Ended, NEW re \in Results \ {"none"}, p = <<>> => re \in {"succeeded", "failed"},
           \/ re \in {"cancelled", "terminated"}
           \/ Phase(p) = "recording" /\ re = exec[p].result,
           exec' = [exec EXCEPT ![p] = [exec[p] EXCEPT !.phase = ph, !.result = re, !.node = Torn(p)]]
    PROVE  /\ Evolves(p)
           /\ exec'[p].phase = ph /\ exec'[p].result = re /\ exec'[p].node = Torn(p)
           /\ exec'[p].returned = exec[p].returned
<1> DEFINE y == exec[p]
           f == Torn(p)
           x == [y EXCEPT !.phase = ph, !.result = re, !.node = f]
<1>1. /\ y \in Executions /\ y.def \in DOMAIN Documents /\ DOMAIN y.node = Ids(y.def)
      /\ y.node \in [Ids(y.def) -> Statuses] /\ Coherent(y) /\ y.phase = Phase(p)
  BY ExecutionFacts, RunningFacts DEF Phase
<1>2. /\ f \in [Ids(y.def) -> Statuses]
      /\ \A n \in Ids(y.def) : /\ y.node[n] \notin Active => f[n] = y.node[n]
                               /\ f[n] = "child" <=> y.node[n] = "child"
                               /\ f[n] \notin Active \ {"child"}
      /\ NoneActive(y) => f = y.node
  BY TornFacts
<1>3. exec' = [exec EXCEPT ![p] = x]
  OBVIOUS
<1> HIDE DEF f, y
<1>4. /\ x \in Executions /\ x.def = y.def /\ x.phase = ph
      /\ x.returned = y.returned /\ x.result = re /\ x.node = f
  <2>1. f \in Nodes /\ ph \in Phases /\ re \in Results
    BY <1>1, <1>2 DEF Nodes, Phases, Reporting
  <2> QED
    BY <1>1, <1>2, <2>1 DEF Executions
<1> HIDE DEF x
<1>5. Leaves(y) => Leaves(x)
  <2>1. CASE re \in {"cancelled", "terminated"}
    BY <1>4, <2>1 DEF Leaves
  <2>2. CASE re = y.result
    BY <1>1, <1>2, <1>4, <2>2 DEF Leaves, Active
  <2> QED
    BY <2>1, <2>2 DEF y
<1>6. y.returned => f = y.node
  BY <1>1, <1>2 DEF Coherent, NoneActive, Settled, Active
<1>7. NoneActive(x) \/ Leaves(x)
  <2>1. CASE re \in {"cancelled", "terminated"}
    BY <1>4, <2>1 DEF Leaves
  <2>2. CASE y.phase = "recording"
    BY <1>1, <1>2, <1>4, <1>5, <2>2 DEF Coherent, NoneActive, Reporting
  <2> QED
    BY <1>1, <2>1, <2>2
<1>8. Coherent(x)
  <2>1. x.phase \in Reporting /\ x.phase \in Ended /\ x.phase \notin {"succeeding", "recording"}
    BY <1>4 DEF Reporting, Ended
  <2>2. (Documents[x.def].valid /\ Acyclic(x.def)) \/ \A n \in DOMAIN x.node : x.node[n] = "new"
    <3>1. "new" \notin Active
      BY DEF Active
    <3> QED
      BY <1>1, <1>2, <1>4, <3>1 DEF Coherent
  <2>3. x.returned => \A n \in DOMAIN x.node : x.node[n] \in Settled
    BY <1>1, <1>4, <1>6 DEF Coherent
  <2>4. x.result = "succeeded" => x.returned
    BY <1>1, <1>4 DEF Coherent, y
  <2>5. \A n \in DOMAIN x.node : x.node[n] = "child" => Merged(x.def, n).ref \in DOMAIN Documents
    BY <1>1, <1>2, <1>4 DEF Coherent
  <2>6. \A n \in DOMAIN x.node : x.node[n] \notin Active \ {"child"}
    BY <1>2, <1>4
  <2> QED
    BY <1>4, <1>7, <2>1, <2>2, <2>3, <2>4, <2>5, <2>6 DEF Coherent
<1>9. p = <<>> => Free(x)
  BY <1>4 DEF Free, Ended
<1>10. \A n \in DOMAIN y.node : y.node[n] = "child" => x.node[n] = "child"
  BY <1>1, <1>2, <1>4
<1> QED
  BY <1>3, <1>4, <1>5, <1>6, <1>8, <1>9, <1>10, GoesOn DEF y, f

(* An execution that does not end gets another phase.                      *)
LEMMA PhaseGoesOn ==
    ASSUME TreeTypes, Closing, NEW p \in DOMAIN exec, Phase(p) # "closed",
           NEW x \in Executions, exec' = [exec EXCEPT ![p] = x],
           x.def = exec[p].def, x.node = exec[p].node, exec[p].returned => x.returned,
           x.returned => \A n \in DOMAIN x.node : x.node[n] \in Settled,
           x.phase \in Reporting \ Ended,
           NoneActive(exec[p]) \/ Leaves(exec[p]),
           x.phase = "succeeding" => x.returned,
           IF x.phase = "recording" THEN x.result \in {"succeeded", "failed"} ELSE x.result = "none",
           x.result = "succeeded" => x.returned,
           exec[p].result = "none"
    PROVE  Evolves(p) /\ exec'[p] = x
<1>1. Coherent(exec[p])
  BY RunningFacts
<1>2. x.phase # "closed" /\ x.phase # "cancelling" /\ x.phase \in Reporting
  BY DEF Reporting, Ended
<1>3. Leaves(exec[p]) => Leaves(x)
  BY DEF Leaves
<1>4. Coherent(x)
  <2>1. NoneActive(x) \/ Leaves(x)
    BY <1>3 DEF NoneActive
  <2>2. \A n \in DOMAIN x.node : x.node[n] = "child" => Merged(x.def, n).ref \in DOMAIN Documents
    BY <1>1 DEF Coherent
  <2>3. (Documents[x.def].valid /\ Acyclic(x.def)) \/ \A n \in DOMAIN x.node : x.node[n] = "new"
    BY <1>1 DEF Coherent
  <2>4. x.result # "none" <=> x.phase \in {"recording"} \cup Ended
    BY DEF Reporting, Ended
  <2> QED
    BY <1>2, <2>1, <2>2, <2>3, <2>4 DEF Coherent
<1>5. Free(x)
  BY <1>2 DEF Free
<1> QED
  BY <1>3, <1>4, <1>5, GoesOn

LEMMA StopEvolves ==
    ASSUME TreeTypes, Closing, NEW p \in DOMAIN exec, NEW ph \in {"timing_out", "cancelling"},
           p = <<>> => ph # "cancelling", Stop(p, ph)
    PROVE  Evolves(p) /\ exec'[p].result = exec[p].result /\ exec'[p].phase = ph
<1> DEFINE y == exec[p]
           f == Stopped(p)
           x == [y EXCEPT !.phase = ph, !.node = f]
<1>1. /\ y \in Executions /\ y.def \in DOMAIN Documents /\ DOMAIN y.node = Ids(y.def)
      /\ y.node \in [Ids(y.def) -> Statuses] /\ Coherent(y) /\ y.phase = Phase(p)
  BY ExecutionFacts, RunningFacts DEF Phase
<1>2. ph \in Phases /\ ph \notin Reporting /\ ph # "recording" /\ ph \notin Ended
  BY DEF Phases, Reporting, Ended
<1>3. /\ f \in [Ids(y.def) -> Statuses]
      /\ \A n \in Ids(y.def) :
            /\ y.node[n] \in {"new", "interrupted"} => f[n] = y.node[n]
            /\ f[n] = "child" => y.node[n] = "child"
            /\ y.node[n] = "child" /\ f[n] # "child" => Below(p, n) \notin DOMAIN exec
  BY StoppedFacts
<1>4. exec' = [exec EXCEPT ![p] = x] /\ y.phase = "running"
  BY DEF Stop, TreeTypes, Phase
<1>5. y.result = "none" /\ ~y.returned
  BY <1>1, <1>4 DEF Coherent, Reporting, Ended
<1> HIDE DEF f, y
<1>6. /\ x \in Executions /\ x.def = y.def /\ x.phase = ph
      /\ x.returned = y.returned /\ x.result = y.result /\ x.node = f
  <2>1. f \in Nodes
    BY <1>1, <1>3 DEF Nodes
  <2> QED
    BY <1>1, <1>2, <1>3, <2>1 DEF Executions
<1> HIDE DEF x
<1>7. Leaves(y) => Leaves(x)
  BY <1>1, <1>3, <1>6 DEF Leaves
<1>8. Coherent(x)
  <2>1. (Documents[x.def].valid /\ Acyclic(x.def)) \/ \A n \in DOMAIN x.node : x.node[n] = "new"
    BY <1>1, <1>3, <1>6 DEF Coherent
  <2>2. \A n \in DOMAIN x.node : x.node[n] = "child" => Merged(x.def, n).ref \in DOMAIN Documents
    BY <1>1, <1>3, <1>6 DEF Coherent
  <2> QED
    BY <1>2, <1>5, <1>6, <2>1, <2>2 DEF Coherent, Reporting
<1>9. p = <<>> => Free(x)
  BY <1>5, <1>6 DEF Free
<1>10. Phase(p) # "closed"
  BY <1>4 DEF Phase, y
<1>11. \A n \in DOMAIN y.node : y.node[n] = "child" /\ x.node[n] # "child" => Below(p, n) \notin DOMAIN exec
  BY <1>1, <1>3, <1>6
<1> QED
  BY <1>4, <1>5, <1>6, <1>7, <1>8, <1>9, <1>10, <1>11, GoesOn DEF y

(* The steps of an execution that change its phase, but do not report. *)
LEMMA PhasesEvolve ==
    ASSUME TreeTypes, Closing, NEW p \in DOMAIN exec,
           \/ Refuse(p) \/ Return(p) \/ Raise(p) \/ TimeOut(p) \/ Cancel(p) \/ Halt(p)
           \/ Terminate(p)
    PROVE  /\ Evolves(p)
           /\ p = <<>> => /\ exec'[p].result = exec[p].result
                          /\ exec'[p].phase \notin Over
                          /\ Phase(p) \notin Over
<1> DEFINE y == exec[p]
<1>1. /\ y \in Executions /\ y.def \in DOMAIN Documents /\ DOMAIN y.node = Ids(y.def)
      /\ y.node \in [Ids(y.def) -> Statuses] /\ Coherent(y) /\ y.phase = Phase(p)
      /\ exec \in [DOMAIN exec -> Executions]
  BY ExecutionFacts, RunningFacts DEF Phase, TreeTypes
<1>2. \A ph : ph \in {"running", "timing_out", "cancelling", "succeeding", "failing"} =>
          ph \notin Over /\ ph # "closed" /\ (y.phase = ph => y.result = "none")
  BY <1>1 DEF Over, Ended, Coherent
<1>2b. \A ph : ph \in {"running", "timing_out", "cancelling"} => ph \notin Reporting
  BY DEF Reporting, Ended
<1>2c. {"succeeding", "failing", "recording"} \subseteq Reporting \ Ended
  BY DEF Reporting, Ended
<1>2d. {"succeeding", "failing", "recording"} \subseteq Phases
  BY DEF Phases, Reporting
<1>2e. y.returned => \A n \in DOMAIN y.node : y.node[n] \in Settled
  BY <1>1 DEF Coherent
<1>3. CASE Refuse(p)
  <2> DEFINE x == [y EXCEPT !.phase = "failing", !.raised = "other"]
  <2>1. /\ x \in Executions /\ x.def = y.def /\ x.phase = "failing"
        /\ x.returned = y.returned /\ x.result = y.result /\ x.node = y.node
    BY <1>1, <1>2d DEF Executions
  <2>2. exec' = [exec EXCEPT ![p] = x] /\ y.phase = "running"
    BY <1>1, <1>3 DEF Refuse
  <2> HIDE DEF x
  <2>3. NoneActive(y)
    BY <1>1, <1>3 DEF Refuse, Coherent, NoneActive, Active
  <2> QED
    BY <1>1, <1>2, <1>2c, <1>2e, <2>1, <2>2, <2>3, PhaseGoesOn
<1>4. CASE Return(p)
  <2> DEFINE ph == IF Ids(y.def) = {} THEN "failing" ELSE "succeeding"
             ra == IF Ids(y.def) = {} THEN "other" ELSE "none"
             x == [y EXCEPT !.returned = TRUE, !.phase = ph, !.raised = ra]
  <2>0. ph \in {"failing", "succeeding"} /\ ra \in {"other", "none"}
    OBVIOUS
  <2>1. /\ x \in Executions /\ x.def = y.def /\ x.phase = ph
        /\ x.returned = TRUE /\ x.result = y.result /\ x.node = y.node
    BY <1>1, <1>2d, <2>0 DEF Executions
  <2>2. exec' = [exec EXCEPT ![p] = x] /\ y.phase = "running"
    BY <1>1, <1>4 DEF Return
  <2> HIDE DEF x, ph
  <2>3. \A n \in DOMAIN y.node : y.node[n] \in Settled
    BY <1>1, <1>4 DEF Return, Node
  <2>4. NoneActive(y)
    BY <2>3 DEF NoneActive, Active, Settled
  <2> QED
    BY <1>1, <1>2, <1>2c, <2>0, <2>1, <2>2, <2>3, <2>4, PhaseGoesOn
<1>5. CASE Raise(p)
  <2>0. PICK ra \in {"failure", "other"} :
            exec' = [exec EXCEPT ![p].phase = "failing", ![p].raised = ra]
    BY <1>5 DEF Raise, Raises
  <2> DEFINE x == [y EXCEPT !.phase = "failing", !.raised = ra]
  <2>1. /\ x \in Executions /\ x.def = y.def /\ x.phase = "failing"
        /\ x.returned = y.returned /\ x.result = y.result /\ x.node = y.node
    BY <1>1, <1>2d DEF Executions
  <2>2. exec' = [exec EXCEPT ![p] = x] /\ y.phase = "running"
    BY <1>1, <1>5, <2>0 DEF Raise
  <2> HIDE DEF x
  <2>3. NoneActive(y)
    BY <1>5, RunningFacts DEF Raise
  <2> QED
    BY <1>1, <1>2, <1>2c, <1>2e, <2>1, <2>2, <2>3, PhaseGoesOn
<1>6. CASE TimeOut(p)
  <2>1. Phase(p) = "running"
    BY <1>6 DEF TimeOut, Stop
  <2> QED
    BY <1>2, <1>6, <2>1, StopEvolves DEF TimeOut
<1>7. CASE Cancel(p)
  <2>0. p # <<>>
    BY <1>7 DEF Cancel
  <2>1. CASE Stop(p, "cancelling")
    BY <2>0, <2>1, StopEvolves
  <2>2. CASE Phase(p) = "timing_out" /\ CutOff(p, "cancelled")
    <3>1. exec' = [exec EXCEPT ![p] = [exec[p] EXCEPT !.phase = "closed", !.result = "cancelled",
                                                     !.node = Torn(p)]]
      BY <1>1, <2>2 DEF CutOff
    <3>2. "closed" \in Ended /\ "cancelled" \in Results \ {"none"} /\ Phase(p) # "closed"
      BY <2>2 DEF Results, Ended
    <3> QED
      BY <2>0, <3>1, <3>2, TornEvolves
  <2>3. CASE Phase(p) = "succeeding" /\ exec' = [exec EXCEPT ![p].phase = "failing", ![p].raised = "failure"]
    <3> DEFINE x == [y EXCEPT !.phase = "failing", !.raised = "failure"]
    <3>1. /\ x \in Executions /\ x.def = y.def /\ x.phase = "failing"
          /\ x.returned = y.returned /\ x.result = y.result /\ x.node = y.node
      BY <1>1, <1>2d DEF Executions
    <3>2. exec' = [exec EXCEPT ![p] = x]
      BY <1>1, <2>3
    <3> HIDE DEF x
    <3>3. NoneActive(y) \/ Leaves(y)
      BY <1>1, <1>2c, <2>3 DEF Coherent
    <3>4. /\ x.phase \in Reporting \ Ended /\ x.phase # "succeeding"
          /\ Phase(p) # "closed" /\ y.result = "none"
      BY <1>1, <1>2, <1>2c, <2>3, <3>1
    <3> QED
      BY <1>2e, <2>0, <3>1, <3>2, <3>3, <3>4, PhaseGoesOn
  <2>4. CASE /\ Phase(p) = "failing"
             /\ exec' = [exec EXCEPT ![p].phase = "recording", ![p].raised = "failure",
                                     ![p].result = "failed"]
    <3> DEFINE x == [y EXCEPT !.phase = "recording", !.raised = "failure", !.result = "failed"]
    <3>1. /\ x \in Executions /\ x.def = y.def /\ x.phase = "recording"
          /\ x.returned = y.returned /\ x.result = "failed" /\ x.node = y.node
      BY <1>1, <1>2d DEF Executions, Results
    <3>2. exec' = [exec EXCEPT ![p] = x]
      BY <1>1, <2>4
    <3> HIDE DEF x
    <3>3. NoneActive(y) \/ Leaves(y)
      BY <1>1, <1>2c, <2>4 DEF Coherent
    <3>4. /\ x.phase \in Reporting \ Ended /\ x.phase # "succeeding"
          /\ Phase(p) # "closed" /\ y.result = "none"
      BY <1>1, <1>2, <1>2c, <2>4, <3>1
    <3> QED
      BY <1>2e, <2>0, <3>1, <3>2, <3>3, <3>4, PhaseGoesOn
  <2> QED
    BY <1>7, <2>1, <2>2, <2>3, <2>4 DEF Cancel
<1>8. CASE Halt(p)
  <2>0. NoneActive(y) \/ Leaves(y)
    BY <1>8, RunningFacts DEF Halt, Interrupted, Leaves, Node
  <2>1. CASE Phase(p) = "timing_out"
    <3> DEFINE x == [y EXCEPT !.phase = "failing", !.raised = "failure"]
    <3>1. /\ x \in Executions /\ x.def = y.def /\ x.phase = "failing"
          /\ x.returned = y.returned /\ x.result = y.result /\ x.node = y.node
      BY <1>1, <1>2d DEF Executions
    <3>2. exec' = [exec EXCEPT ![p] = x]
      BY <1>1, <1>8, <2>1 DEF Halt
    <3> HIDE DEF x
    <3> QED
      BY <1>1, <1>2, <1>2c, <1>2e, <2>0, <2>1, <3>1, <3>2, PhaseGoesOn
  <2>2. CASE Phase(p) = "cancelling"
    <3>1. exec' = [exec EXCEPT ![p] = [exec[p] EXCEPT !.phase = "closed", !.result = "cancelled",
                                                     !.node = Torn(p)]]
      BY <1>1, <1>8, <2>2 DEF Halt, CutOff
    <3>2. p # <<>>
      BY <2>2, RunningFacts DEF Free, Phase
    <3>3. "closed" \in Ended /\ "cancelled" \in Results \ {"none"} /\ Phase(p) # "closed"
      BY <2>2 DEF Results, Ended
    <3> QED
      BY <3>1, <3>2, <3>3, TornEvolves
  <2> QED
    BY <1>8, <2>1, <2>2 DEF Halt
<1>9. CASE Terminate(p)
  <2>1. exec' = [exec EXCEPT ![p] = [exec[p] EXCEPT !.phase = "closed", !.result = "terminated",
                                                   !.node = Torn(p)]]
    BY <1>1, <1>9 DEF Terminate, CutOff
  <2>2. p # <<>> /\ Phase(p) # "closed"
    BY <1>9 DEF Terminate
  <2>3. "closed" \in Ended /\ "terminated" \in Results \ {"none"}
    BY DEF Results, Ended
  <2> QED
    BY <2>1, <2>2, <2>3, TornEvolves
<1> QED
  BY <1>3, <1>4, <1>5, <1>6, <1>7, <1>8, <1>9

(* What workers may still publish about a node that is given up on.        *)
LEMMA LateIsCalm ==
    ASSUME TreeTypes, NEW p \in DOMAIN exec, NEW n \in DOMAIN exec[p].node
    PROVE  Late(p, n) \subseteq CalmEvents
<1>1. n \in Names /\ n # ""
  BY ExecutionFacts, NoEmptyName
<1>2. \A type \in {"run_succeeded", "run_failed", "run_awaiting_review", "node_event"} :
          Event(type, n) \in CalmEvents
  BY <1>1 DEF Event, TreeEvents, CalmEvents, NodeEvents
<1> QED
  BY <1>2 DEF Late, About

(* What the log may get from a post about a node. *)
LEMMA PublishCalm ==
    ASSUME TreeTypes, NEW p \in DOMAIN exec, NEW n \in Names,
           NEW type \in {"run_succeeded", "run_failed", "run_awaiting_review"},
           Publish(p, Event(type, n)) \/ PostRaises(p, Event(type, n))
    PROVE  CalmLog
<1> DEFINE e == Event(type, n)
<1>1. e \in CalmEvents
  BY NoEmptyName DEF Event, TreeEvents, NodeEvents, CalmEvents
<1>2. events' = events \/ events' = Append(events, e)
  BY DEF Publish, PostRaises, Logged
<1>3. adrift' \subseteq adrift \cup {e}
  BY DEF Publish, PostRaises, About
<1> HIDE DEF e
<1>4. lost' \in {lost, lost + 1} /\ lost \in Nat
  BY DEF Publish, PostRaises, TreeTypes
<1>5. lost' \in Nat /\ (lost' = 0 => lost = 0)
  BY <1>4
<1>6. events' = events \/ \E x \in CalmEvents : events' = Append(events, x)
  BY Zenon, <1>1, <1>2
<1>7. adrift' \subseteq adrift \cup CalmEvents
  BY <1>1, <1>3
<1> QED
  BY Zenon, <1>5, <1>6, <1>7 DEF CalmLog

LEMMA NoPostsCalm ==
    ASSUME TreeTypes, NoPosts
    PROVE  CalmLog
  BY DEF CalmLog, NoPosts, TreeTypes

LEMMA PhasesCalm ==
    ASSUME TreeTypes, NEW p \in DOMAIN exec,
           \/ Refuse(p) \/ Return(p) \/ Raise(p) \/ TimeOut(p) \/ Cancel(p) \/ Halt(p)
           \/ Terminate(p) \/ OpenBatch(p)
    PROVE  CalmLog
<1>1. CASE NoPosts
  BY <1>1, NoPostsCalm
<1>2. CASE TimeOut(p) \/ Stop(p, "cancelling")
  <2>1. /\ UNCHANGED <<events, lost>>
        /\ adrift' = adrift \cup UNION {Late(p, n) : n \in {m \in DOMAIN exec[p].node :
                                                               Stopped(p)[m] = "cancelled"}}
    BY <1>2 DEF TimeOut, Stop
  <2>2. UNION {Late(p, n) : n \in {m \in DOMAIN exec[p].node : Stopped(p)[m] = "cancelled"}}
            \subseteq CalmEvents
    BY LateIsCalm
  <2> QED
    BY <2>1, <2>2 DEF CalmLog, TreeTypes
<1> QED
  BY <1>1, <1>2 DEF Refuse, Return, Raise, Cancel, Halt, Terminate, OpenBatch

LEMMA FailsGoesOn ==
    ASSUME TreeTypes, NEW p \in DOMAIN exec, NEW n \in DOMAIN exec[p].node, Fails(p, n)
    PROVE  \E s \in {"routed", "continued", "failed"} : SetNode(p, n, s)
  BY DEF Fails

LEMMA NodesEvolve ==
    ASSUME TreeTypes, Closing, NEW p \in DOMAIN exec, NEW n \in DOMAIN exec[p].node,
           \/ NodeReturns(p, n) \/ NodeRaises(p, n) \/ Prepare(p, n) \/ GateEnds(p, n)
           \/ PipelineEnds(p, n) \/ Load(p, n) \/ ChildEnds(p, n)
    PROVE  /\ Evolves(p)
           /\ exec'[p].phase = exec[p].phase /\ exec'[p].result = exec[p].result
           /\ exec'[p].returned = exec[p].returned
           /\ CalmLog
<1>1. n \in Names /\ lost \in Nat
  BY ExecutionFacts DEF TreeTypes
<1>2. /\ {"succeeded", "parked", "noting", "child", "routed", "continued", "failed"}
            \subseteq Statuses \ {"new"}
      /\ {"succeeded", "routed", "continued", "failed"} \cap Active = {}
  BY DEF Statuses, Settled, Active
<1>3. ASSUME NEW s \in {"succeeded", "parked", "noting", "child", "routed", "continued", "failed"},
             SetNode(p, n, s), Node(p, n) \in Active,
             Node(p, n) = "child" => /\ s \notin Active /\ Phase(p) # "closed"
                                     /\ Phase(Below(p, n)) = "closed",
             s = "child" => Kind(p, n).ref \in DOMAIN Documents
      PROVE  /\ Evolves(p)
             /\ exec'[p].phase = exec[p].phase /\ exec'[p].result = exec[p].result
             /\ exec'[p].returned = exec[p].returned
  BY <1>2, <1>3, NodeGoesOn
<1>4. CASE NodeReturns(p, n)
  <2>1. SetNode(p, n, "succeeded") /\ Node(p, n) \in Active /\ Node(p, n) # "child" /\ NoPosts
    BY <1>4 DEF NodeReturns, Active
  <2> QED
    BY <1>3, <2>1, NoPostsCalm
<1>5. CASE NodeRaises(p, n)
  <2>1. /\ Fails(p, n) /\ Node(p, n) \in Active /\ Node(p, n) # "child"
        /\ adrift' \in {adrift, adrift \cup Late(p, n)} /\ UNCHANGED <<events, lost>>
    BY <1>5 DEF NodeRaises, Active
  <2>2. CalmLog
    BY <1>1, <2>1, LateIsCalm DEF CalmLog
  <2> QED
    BY <1>3, <2>1, <2>2, FailsGoesOn
<1>6. CASE Prepare(p, n)
  <2>1. /\ Node(p, n) \in Active /\ Node(p, n) # "child"
        /\ Fails(p, n) \/ SetNode(p, n, "parked")
        /\ \/ Publish(p, Event("run_awaiting_review", n))
           \/ PostRaises(p, Event("run_awaiting_review", n))
    BY <1>6 DEF Prepare, Active
  <2>2. /\ Evolves(p)
        /\ exec'[p].phase = exec[p].phase /\ exec'[p].result = exec[p].result
        /\ exec'[p].returned = exec[p].returned
    BY <1>3, <2>1, FailsGoesOn
  <2> QED
    BY <1>1, <2>1, <2>2, PublishCalm
<1>7. CASE GateEnds(p, n)
  <2>1. SetNode(p, n, "noting") /\ Node(p, n) \in Active /\ Node(p, n) # "child" /\ NoPosts
    BY <1>7 DEF GateEnds, Active
  <2> QED
    BY <1>3, <2>1, NoPostsCalm
<1>8. CASE PipelineEnds(p, n)
  <2>1. /\ Node(p, n) \in Active /\ Node(p, n) # "child"
        /\ Fails(p, n) \/ SetNode(p, n, "succeeded")
        /\ \/ \E type \in {"run_succeeded", "run_failed"} : Publish(p, Event(type, n))
           \/ NoPosts
    BY <1>8 DEF PipelineEnds, Active
  <2>2. /\ Evolves(p)
        /\ exec'[p].phase = exec[p].phase /\ exec'[p].result = exec[p].result
        /\ exec'[p].returned = exec[p].returned
    BY <1>3, <2>1, FailsGoesOn
  <2> QED
    BY <1>1, <2>1, <2>2, PublishCalm, NoPostsCalm
<1>9. CASE Load(p, n)
  <2>1. SetNode(p, n, "child") /\ Node(p, n) \in Active /\ Node(p, n) # "child"
        /\ Kind(p, n).ref \in DOMAIN Documents /\ NoPosts
    BY <1>9 DEF Load, Active
  <2> QED
    BY <1>3, <2>1, NoPostsCalm
<1>10. CASE ChildEnds(p, n)
  <2>1. /\ Fails(p, n) \/ SetNode(p, n, "succeeded")
        /\ Node(p, n) \in Active /\ Phase(Below(p, n)) = "closed" /\ Phase(p) # "closed"
        /\ NoPosts
    BY <1>10 DEF ChildEnds, Active
  <2> QED
    BY <1>2, <1>3, <2>1, FailsGoesOn, NoPostsCalm
<1> QED
  BY <1>4, <1>5, <1>6, <1>7, <1>8, <1>9, <1>10

LEMMA ReportsEvolve ==
    ASSUME TreeTypes, Closing, NEW p \in DOMAIN exec,
           ReportSuccess(p) \/ ReportFailure(p) \/ Record(p)
    PROVE  Evolves(p)
<1> DEFINE y == exec[p]
<1>1. /\ y \in Executions /\ y.def \in DOMAIN Documents
      /\ Coherent(y) /\ y.phase = Phase(p)
      /\ exec \in [DOMAIN exec -> Executions]
      /\ p = <<>> => y.result \notin {"cancelled", "terminated"}
  BY ExecutionFacts, RunningFacts DEF Phase, TreeTypes, Free
<1>1b. {"succeeding", "failing", "recording"} \subseteq Reporting \ Ended
  BY DEF Reporting, Ended
<1>1c. {"succeeding", "failing", "recording"} \subseteq Phases
  BY DEF Phases, Reporting
<1>2. ASSUME NEW ph \in {"recording", "failing"}, NEW ra \in {"none", "failure", "other"},
             NEW re \in {"none", "succeeded", "failed"},
             exec' = [exec EXCEPT ![p] = [y EXCEPT !.phase = ph, !.raised = ra, !.result = re]],
             IF ph = "recording" THEN re # "none" ELSE re = "none",
             Phase(p) \in {"succeeding", "failing"}, re = "succeeded" => Phase(p) = "succeeding"
      PROVE  Evolves(p)
  <2> DEFINE x == [y EXCEPT !.phase = ph, !.raised = ra, !.result = re]
  <2>1. /\ x \in Executions /\ x.def = y.def /\ x.phase = ph
        /\ x.returned = y.returned /\ x.result = re /\ x.node = y.node
    BY <1>1, <1>1c DEF Executions, Results
  <2>2. exec' = [exec EXCEPT ![p] = x]
    BY <1>2
  <2> HIDE DEF x
  <2>3. /\ NoneActive(y) \/ Leaves(y)
        /\ y.result = "none" /\ y.phase # "closed"
        /\ y.returned => \A n \in DOMAIN y.node : y.node[n] \in Settled
        /\ re = "succeeded" => y.returned
    BY <1>1, <1>1b, <1>2 DEF Coherent, Ended
  <2>4. IF x.phase = "recording" THEN x.result \in {"succeeded", "failed"} ELSE x.result = "none"
    BY <1>2, <2>1
  <2>5. x.phase \in Reporting \ Ended /\ x.phase # "succeeding" /\ Phase(p) # "closed"
    BY <1>1, <1>1b, <1>2, <2>1, <2>3
  <2> QED
    BY <2>1, <2>2, <2>3, <2>4, <2>5, PhaseGoesOn
<1>3. CASE ReportSuccess(p)
  <2>1. CASE exec' = [exec EXCEPT ![p].phase = "recording", ![p].result = "succeeded"]
    <3>1. exec' = [exec EXCEPT ![p] = [y EXCEPT !.phase = "recording", !.raised = y.raised,
                                               !.result = "succeeded"]]
      BY <1>1, <2>1 DEF Executions
    <3>2. y.raised \in {"none", "failure", "other"} /\ Phase(p) = "succeeding"
      BY <1>1, <1>3 DEF Executions, ReportSuccess
    <3> HIDE DEF y
    <3> QED
      BY <1>2, <3>1, <3>2
  <2>2. CASE exec' = [exec EXCEPT ![p].phase = "failing", ![p].raised = "failure"]
    <3>1. y.result = "none" /\ Phase(p) = "succeeding"
      BY <1>1, <1>3 DEF ReportSuccess, Coherent, Ended
    <3>2. exec' = [exec EXCEPT ![p] = [y EXCEPT !.phase = "failing", !.raised = "failure",
                                               !.result = "none"]]
      BY <1>1, <2>2, <3>1 DEF Executions
    <3> QED
      BY <1>2, <3>1, <3>2
  <2> QED
    BY <1>3, <2>1, <2>2 DEF ReportSuccess
<1>4. CASE ReportFailure(p)
  <2>1. CASE exec' = [exec EXCEPT ![p].phase = "recording", ![p].result = "failed"]
    <3>1. exec' = [exec EXCEPT ![p] = [y EXCEPT !.phase = "recording", !.raised = y.raised,
                                               !.result = "failed"]]
      BY <1>1, <2>1 DEF Executions
    <3>2. y.raised \in {"none", "failure", "other"} /\ Phase(p) = "failing"
      BY <1>1, <1>4 DEF Executions, ReportFailure
    <3> HIDE DEF y
    <3> QED
      BY <1>2, <3>1, <3>2
  <2>2. CASE exec' = [exec EXCEPT ![p].phase = "recording", ![p].result = "failed",
                                  ![p].raised = "failure"]
    <3>1. exec' = [exec EXCEPT ![p] = [y EXCEPT !.phase = "recording", !.raised = "failure",
                                               !.result = "failed"]]
      BY <1>1, <2>2 DEF Executions
    <3>2. Phase(p) = "failing"
      BY <1>4 DEF ReportFailure
    <3> HIDE DEF y
    <3> QED
      BY <1>2, <3>1, <3>2
  <2> QED
    BY <1>4, <2>1, <2>2 DEF ReportFailure
<1>5. CASE Record(p)
  <2> DEFINE ph == IF y.raised = "other" THEN "stuck" ELSE "closed"
  <2>1. exec' = [exec EXCEPT ![p].phase = ph, ![p].node = Torn(p)] /\ Phase(p) = "recording"
    BY <1>5 DEF Record
  <2>2. y.result \in {"succeeded", "failed"}
    BY <1>1, <2>1 DEF Coherent
  <2>3. ph \in Ended
    BY DEF Ended
  <2> HIDE DEF ph
  <2>4. exec' = [exec EXCEPT ![p] = [y EXCEPT !.phase = ph, !.result = y.result, !.node = Torn(p)]]
    BY <1>1, <2>1 DEF Executions
  <2> QED
    BY <2>1, <2>2, <2>3, <2>4, TornEvolves DEF Results
<1> QED
  BY <1>3, <1>4, <1>5

-----------------------------------------------------------------------------
(* Paths.                                                                  *)

(* Below a path, on the way to another, lies one of the path's children.   *)
LEMMA WayDown ==
    ASSUME NEW p \in Seq(Names), NEW q \in Seq(Names), IsStrictPrefix(p, q)
    PROVE  /\ Len(p) + 1 \in 0 .. Len(q)
           /\ \E n \in Names :
                 /\ Below(p, n) = SubSeq(q, 1, Len(p) + 1)
                 /\ Below(p, n) = q \/ IsStrictPrefix(Below(p, n), q)
<1>1. /\ Len(p) \in Nat /\ Len(q) \in Nat /\ Len(p) <= Len(q)
      /\ DOMAIN p = 1 .. Len(p) /\ DOMAIN q = 1 .. Len(q)
  BY DEF IsStrictPrefix, IsPrefix
<1>2. \A i \in 1 .. Len(p) : p[i] = q[i]
  <2>1. SubSeq(p, 1, Len(p)) = SubSeq(q, 1, Len(p))
    BY DEF IsStrictPrefix, IsPrefix
  <2>2. \A i \in 1 .. Len(p) : SubSeq(p, 1, Len(p))[i] = p[i] /\ SubSeq(q, 1, Len(p))[i] = q[i]
    BY <1>1
  <2> QED
    BY <2>1, <2>2
<1>3. Len(p) # Len(q)
  <2>1. Len(p) = Len(q) => p = q
    BY <1>1, <1>2
  <2> QED
    BY <2>1 DEF IsStrictPrefix
<1> DEFINE k == Len(p) + 1
<1>4. k \in 1 .. Len(q) /\ q[k] \in Names
  <2>1. \A a, b \in Nat : a <= b /\ a # b => a + 1 \in 1 .. b
    OBVIOUS
  <2>2. Len(p) + 1 \in 1 .. Len(q)
    BY Zenon, <1>1, <1>3, <2>1
  <2> QED
    BY <2>2, ElementOfSeq
<1> DEFINE c == Below(p, q[k])
<1>5. /\ c \in Seq(Names) /\ Len(c) = k /\ \A i \in 1 .. k : c[i] = q[i]
  BY <1>1, <1>2, <1>4 DEF Below
<1>6. /\ SubSeq(q, 1, k) \in Seq(Names) /\ Len(SubSeq(q, 1, k)) = k
      /\ \A i \in 1 .. k : SubSeq(q, 1, k)[i] = q[i]
  BY <1>1, <1>4
<1>7. SubSeq(c, 1, k) = c
  BY <1>1, <1>5
<1>7b. c = Below(p, q[k]) /\ k = Len(p) + 1
  OBVIOUS
<1> HIDE DEF c, k
<1>8. c = SubSeq(q, 1, k)
  BY <1>1, <1>4, <1>5, <1>6, SeqEqual
<1>9. c = q \/ IsStrictPrefix(c, q)
  BY <1>4, <1>5, <1>7, <1>8 DEF IsStrictPrefix, IsPrefix
<1>10. \E n \in Names : /\ Below(p, n) = SubSeq(q, 1, k)
                         /\ (Below(p, n) = q \/ IsStrictPrefix(Below(p, n), q))
  BY Zenon, <1>4, <1>8, <1>9, <1>7b
<1>11. k \in 0 .. Len(q)
  BY <1>1, <1>4
<1> QED
  BY <1>10, <1>11, <1>7b

LEMMA WayUp ==
    ASSUME NEW p \in Seq(Names), NEW n \in Names, NEW a \in Seq(Names),
           IsStrictPrefix(a, Below(p, n))
    PROVE  a = p \/ IsStrictPrefix(a, p)
<1> DEFINE c == Below(p, n)
<1>1. /\ Len(p) \in Nat /\ Len(a) \in Nat
      /\ c \in Seq(Names) /\ Len(c) = Len(p) + 1 /\ \A i \in 1 .. Len(p) : c[i] = p[i]
  BY DEF Below
<1> HIDE DEF c
<1>2. Len(a) <= Len(p) /\ a = SubSeq(c, 1, Len(a)) /\ \A i \in 1 .. Len(a) : a[i] = c[i]
  <2>1. Len(a) <= Len(c) /\ SubSeq(a, 1, Len(a)) = SubSeq(c, 1, Len(a)) /\ a # c
    BY DEF IsStrictPrefix, IsPrefix, c
  <2>2. SubSeq(a, 1, Len(a)) = a
    BY <1>1
  <2>3. SubSeq(c, 1, Len(c)) = c
    BY <1>1
  <2>4. Len(a) # Len(c)
    BY <2>1, <2>2, <2>3
  <2>5. \A i \in 1 .. Len(a) : SubSeq(c, 1, Len(a))[i] = c[i]
    BY <1>1, <2>1
  <2>6. Len(a) <= Len(p)
    BY <1>1, <2>1, <2>4
  <2>7. a = SubSeq(c, 1, Len(a))
    BY <2>1, <2>2
  <2>8. \A i \in 1 .. Len(a) : a[i] = c[i]
    BY Zenon, <2>5, <2>7
  <2> QED
    BY <2>6, <2>7, <2>8
<1>3. /\ SubSeq(p, 1, Len(a)) \in Seq(Names) /\ Len(SubSeq(p, 1, Len(a))) = Len(a)
      /\ \A i \in 1 .. Len(a) : SubSeq(p, 1, Len(a))[i] = p[i]
  BY <1>1, <1>2
<1>4. \A i \in 1 .. Len(a) : a[i] = SubSeq(p, 1, Len(a))[i]
  BY <1>1, <1>2, <1>3
<1>5. a = SubSeq(p, 1, Len(a))
  BY <1>3, <1>4, SeqEqual
<1>6. SubSeq(a, 1, Len(a)) = a
  BY <1>1
<1> QED
  BY <1>2, <1>5, <1>6 DEF IsStrictPrefix, IsPrefix

(* A path is longer than the path it is below.                             *)
LEMMA Deeper ==
    ASSUME NEW p \in Seq(Names), NEW n \in Names
    PROVE  /\ Below(p, n) \in Seq(Names) /\ Below(p, n) # p /\ Below(p, n) # <<>>
           /\ \A m \in Names, q \in Seq(Names) : Below(p, n) = Below(q, m) => p = q /\ m = n
<1>1. /\ Below(p, n) \in Seq(Names) /\ Len(Below(p, n)) = Len(p) + 1
      /\ Below(p, n)[Len(p) + 1] = n /\ Len(p) \in Nat
  BY DEF Below
<1>2. ASSUME NEW m \in Names, NEW q \in Seq(Names), Below(p, n) = Below(q, m)
      PROVE  p = q /\ m = n
  <2>1. Len(Below(q, m)) = Len(q) + 1 /\ Below(q, m)[Len(q) + 1] = m /\ Len(q) \in Nat
    BY DEF Below
  <2>2. Len(p) = Len(q)
    BY <1>1, <1>2, <2>1
  <2>3. \A i \in 1 .. Len(p) : Below(p, n)[i] = p[i]
    BY DEF Below
  <2>4. \A i \in 1 .. Len(q) : Below(q, m)[i] = q[i]
    BY DEF Below
  <2>5. \A i \in 1 .. Len(p) : p[i] = q[i]
    BY <1>2, <2>2, <2>3, <2>4
  <2>6. p = q
    BY <2>2, <2>5, SeqEqual
  <2> QED
    BY <1>1, <1>2, <2>1, <2>2, <2>6
<1> QED
  BY <1>1, <1>2

(* Prefixes of a path and of the path above it.                            *)
LEMMA PrefixFacts ==
    ASSUME NEW p \in Seq(Names), NEW n \in Names, NEW q \in Seq(Names)
    PROVE  /\ IsPrefix(p, p)
           /\ IsPrefix(Below(p, n), q) => IsPrefix(p, q)
           /\ IsStrictPrefix(q, p) => IsStrictPrefix(q, Below(p, n))
           /\ IsStrictPrefix(p, Below(p, n))
<1> DEFINE c == Below(p, n)
<1>1. /\ Len(p) \in Nat /\ Len(q) \in Nat
      /\ c \in Seq(Names) /\ Len(c) = Len(p) + 1 /\ \A i \in 1 .. Len(p) : c[i] = p[i]
  BY DEF Below
<1> HIDE DEF c
<1>2. \A k \in 0 .. Len(p) : SubSeq(c, 1, k) = SubSeq(p, 1, k)
  <2>1. TAKE k \in 0 .. Len(p)
  <2>2. /\ SubSeq(c, 1, k) \in Seq(Names) /\ Len(SubSeq(c, 1, k)) = k
        /\ \A i \in 1 .. k : SubSeq(c, 1, k)[i] = c[i]
    BY <1>1, <2>1
  <2>3. /\ SubSeq(p, 1, k) \in Seq(Names) /\ Len(SubSeq(p, 1, k)) = k
        /\ \A i \in 1 .. k : SubSeq(p, 1, k)[i] = p[i]
    BY <1>1, <2>1
  <2>4. \A i \in 1 .. k : SubSeq(c, 1, k)[i] = SubSeq(p, 1, k)[i]
    BY <1>1, <2>1, <2>2, <2>3
  <2> QED
    BY <2>2, <2>3, <2>4, SeqEqual
<1>3. IsPrefix(c, q) => IsPrefix(p, q)
  <2>1. HAVE IsPrefix(c, q)
  <2>2. Len(c) <= Len(q) /\ SubSeq(c, 1, Len(c)) = SubSeq(q, 1, Len(c))
    BY <2>1 DEF IsPrefix
  <2>3. \A i \in 1 .. Len(c) : SubSeq(c, 1, Len(c))[i] = c[i] /\ SubSeq(q, 1, Len(c))[i] = q[i]
    BY <1>1, <2>2
  <2>4. \A i \in 1 .. Len(p) : q[i] = p[i]
    BY <1>1, <2>2, <2>3
  <2>5. Len(p) <= Len(q)
    BY <1>1, <2>2
  <2>6. /\ SubSeq(q, 1, Len(p)) \in Seq(Names) /\ Len(SubSeq(q, 1, Len(p))) = Len(p)
        /\ \A i \in 1 .. Len(p) : SubSeq(q, 1, Len(p))[i] = q[i]
    BY <1>1, <2>5
  <2>7. \A i \in 1 .. Len(p) : SubSeq(q, 1, Len(p))[i] = p[i]
    BY <2>4, <2>6
  <2>8. SubSeq(q, 1, Len(p)) = p
    BY <2>6, <2>7, SeqEqual
  <2>9. SubSeq(p, 1, Len(p)) = p
    BY <1>1
  <2> QED
    BY <2>5, <2>8, <2>9 DEF IsPrefix
<1>4. IsStrictPrefix(q, p) => IsStrictPrefix(q, c)
  <2>1. HAVE IsStrictPrefix(q, p)
  <2>2. Len(q) <= Len(p) /\ SubSeq(q, 1, Len(q)) = SubSeq(p, 1, Len(q))
    BY <2>1 DEF IsStrictPrefix, IsPrefix
  <2>3. SubSeq(c, 1, Len(q)) = SubSeq(p, 1, Len(q))
    BY <1>1, <1>2, <2>2
  <2>4. Len(q) <= Len(c) /\ Len(q) # Len(c)
    BY <1>1, <2>2
  <2> QED
    BY <2>2, <2>3, <2>4 DEF IsStrictPrefix, IsPrefix
<1>5. IsStrictPrefix(p, c)
  <2>1. SubSeq(c, 1, Len(p)) = SubSeq(p, 1, Len(p))
    BY <1>1, <1>2
  <2>2. Len(p) <= Len(c) /\ Len(p) # Len(c)
    BY <1>1
  <2> QED
    BY <2>1, <2>2 DEF IsStrictPrefix, IsPrefix
<1>6. IsPrefix(p, p)
  BY <1>1 DEF IsPrefix
<1> QED
  BY <1>3, <1>4, <1>5, <1>6 DEF c

-----------------------------------------------------------------------------
(* The invariants about executions, under each kind of step.               *)

(* Closing in the next state, said of the executions there.                *)
LEMMA ClosingNext ==
    ASSUME \A q \in DOMAIN exec' : Coherent(exec'[q]),
           \A a, b \in DOMAIN exec' :
               IsStrictPrefix(a, b) /\ exec'[a].phase \in Reporting /\ exec'[b].phase # "closed" =>
                   \E r \in DOMAIN exec' : IsPrefix(a, r) /\ IsStrictPrefix(r, b) /\ Leaves(exec'[r]),
           Free(exec'[<<>>])
    PROVE  Closing'
<1>1. \A r : Left(r)' <=> Leaves(exec'[r])
  BY DEF Left, Leaves, Interrupted, Node
<1>2. \A a, b \in DOMAIN exec' :
          IsStrictPrefix(a, b) /\ Phase(a)' \in Reporting /\ Phase(b)' # "closed" => Parted(a, b)'
  BY <1>1 DEF Phase, Parted
<1> QED
  BY <1>2 DEF Closing, Phase, Coherent, NoneActive, Leaves, Free, Parted

LEMMA EvolvesStays ==
    ASSUME TreeTypes, Awaited, Closing, NEW p \in DOMAIN exec, Evolves(p),
           lost' \in Nat, events' \in Seq(TreeEvents), adrift' \subseteq TreeEvents
    PROVE  TreeTypes' /\ Awaited' /\ Closing'
<1>1. /\ DOMAIN exec' = DOMAIN exec
      /\ exec' \in [DOMAIN exec -> Executions]
      /\ \A q \in DOMAIN exec : q # p => exec'[q] = exec[q]
      /\ \A q \in DOMAIN exec : exec[q].phase = "closed" => exec'[q] = exec[q]
      /\ \A q \in DOMAIN exec : Leaves(exec[q]) => Leaves(exec'[q])
  BY DEF Evolves, Phase
<1>2. TreeTypes'
  BY <1>1 DEF TreeTypes
<1>3. DOMAIN exec'[p].node = DOMAIN exec[p].node
  <2>1. exec[p] \in Executions /\ exec'[p] \in Executions
    BY <1>1, ExecutionFacts
  <2>2. exec'[p].def = exec[p].def
    BY DEF Evolves
  <2> QED
    BY <2>1, <2>2 DEF Executions
<1>4. ASSUME NEW a \in DOMAIN exec, NEW n \in Names,
             Below(a, n) \in DOMAIN exec, exec'[Below(a, n)].phase # "closed"
      PROVE  n \in DOMAIN exec'[a].node /\ exec'[a].node[n] = "child"
  <2>1. exec[Below(a, n)].phase # "closed"
    BY <1>1, <1>4
  <2>2. n \in DOMAIN exec[a].node /\ exec[a].node[n] = "child"
    BY <1>4, <2>1 DEF Awaited, Phase, Node
  <2>3. CASE a # p
    BY <1>1, <2>2, <2>3
  <2>4. CASE a = p
    BY <1>3, <1>4, <2>1, <2>2, <2>4 DEF Evolves, Phase
  <2> QED
    BY <2>3, <2>4
<1>5. Awaited'
  <2>1. \A a \in DOMAIN exec', n \in Names :
            Below(a, n) \in DOMAIN exec' /\ exec'[Below(a, n)].phase # "closed"
                => n \in DOMAIN exec'[a].node /\ exec'[a].node[n] = "child"
    BY <1>1, <1>4
  <2> QED
    BY <2>1 DEF Awaited, Phase, Node, Below
<1>6. ASSUME NEW q \in DOMAIN exec
      PROVE  Coherent(exec'[q])
  BY <1>1 DEF Evolves, Closing
<1>7. ASSUME NEW a \in DOMAIN exec, NEW b \in DOMAIN exec, IsStrictPrefix(a, b),
             exec'[a].phase \in Reporting, exec'[b].phase # "closed"
      PROVE  \E r \in DOMAIN exec : IsPrefix(a, r) /\ IsStrictPrefix(r, b) /\ Leaves(exec'[r])
  <2>0. /\ exec[b].phase # "closed"
        /\ \A q \in DOMAIN exec : Left(q) => Leaves(exec[q])
        /\ a \in Seq(Names) /\ b \in Seq(Names) /\ DOMAIN exec \subseteq Seq(Names)
    BY <1>1, <1>7, RunningFacts DEF TreeTypes
  <2>1. CASE exec[a].phase \in Reporting
    <3>1. Parted(a, b)
      BY <1>7, <2>0, <2>1 DEF Closing, Phase
    <3>2. PICK r \in DOMAIN exec : IsPrefix(a, r) /\ IsStrictPrefix(r, b) /\ Left(r)
      BY <3>1 DEF Parted
    <3> QED
      BY <1>1, <2>0, <3>2
  <2>2. CASE exec[a].phase \notin Reporting
    <3>1. a = p
      BY <1>1, <1>7, <2>2
    <3>2. CASE Leaves(exec'[a])
      BY <1>7, <2>0, <3>2, WayDown, PrefixFacts
    <3>3. CASE ~Leaves(exec'[a])
      <4>1. NoneActive(exec'[a])
        BY <1>6, <1>7, <3>3 DEF Coherent
      <4>2. PICK n \in Names : /\ Below(a, n) = SubSeq(b, 1, Len(a) + 1)
                               /\ Below(a, n) = b \/ IsStrictPrefix(Below(a, n), b)
        BY <1>7, <2>0, WayDown
      <4>3. Below(a, n) \in DOMAIN exec
        <5>1. Len(a) + 1 \in 0 .. Len(b)
          BY <1>7, <2>0, WayDown
        <5> QED
          BY <4>2, <5>1 DEF TreeTypes
      <4>4. exec'[Below(a, n)].phase = "closed"
        BY <1>4, <4>1, <4>3 DEF NoneActive, Active
      <4>5. Below(a, n) # p
        BY <2>0, <3>1, Deeper
      <4>6. exec[Below(a, n)].phase = "closed"
        BY <1>1, <4>3, <4>4, <4>5
      <4>7. Parted(Below(a, n), b)
        BY <2>0, <4>2, <4>3, <4>6 DEF Closing, Phase, Reporting, Ended
      <4>8. PICK r \in DOMAIN exec : IsPrefix(Below(a, n), r) /\ IsStrictPrefix(r, b) /\ Left(r)
        BY <4>7 DEF Parted
      <4>9. IsPrefix(a, r)
        BY <2>0, <4>8, PrefixFacts
      <4> QED
        BY <1>1, <2>0, <4>8, <4>9
    <3> QED
      BY <3>2, <3>3
  <2> QED
    BY <2>1, <2>2
<1>8. Free(exec'[<<>>])
  <2>1. <<>> \in DOMAIN exec
    BY DEF TreeTypes
  <2>2. Free(exec[<<>>])
    BY DEF Closing
  <2> QED
    BY <1>1, <2>1, <2>2 DEF Evolves
<1>9. Closing'
  <2>1. \A q \in DOMAIN exec' : Coherent(exec'[q])
    BY <1>1, <1>6
  <2>2. \A a, b \in DOMAIN exec' :
            IsStrictPrefix(a, b) /\ exec'[a].phase \in Reporting /\ exec'[b].phase # "closed" =>
                \E r \in DOMAIN exec' : IsPrefix(a, r) /\ IsStrictPrefix(r, b) /\ Leaves(exec'[r])
    BY <1>1, <1>7
  <2> QED
    BY <1>8, <2>1, <2>2, ClosingNext
<1> QED
  BY <1>2, <1>5, <1>9

LEMMA FreshFacts ==
    ASSUME NEW d \in DOMAIN Documents
    PROVE  /\ Fresh(d) \in Executions /\ Coherent(Fresh(d))
           /\ Fresh(d).phase = "running" /\ Fresh(d).result = "none"
<1> DEFINE f == [n \in Ids(d) |-> "new"]
<1>1. f \in [Ids(d) -> Statuses] /\ f \in Nodes
  <2>1. f \in [Ids(d) -> Statuses]
    BY DEF Statuses
  <2> QED
    BY <2>1 DEF Nodes
<1>2. \A n \in DOMAIN f : f[n] = "new"
  OBVIOUS
<1> HIDE DEF f
<1>3. /\ Fresh(d).def = d /\ Fresh(d).phase = "running" /\ Fresh(d).returned = FALSE
      /\ Fresh(d).result = "none" /\ Fresh(d).node = f
      /\ Fresh(d) \in [def : DOMAIN Documents, phase : Phases, returned : BOOLEAN,
                       raised : {"none", "failure", "other"}, result : Results, node : Nodes]
  BY <1>1 DEF Fresh, f, Phases, Results
<1>4. Fresh(d) \in Executions
  BY <1>1, <1>3 DEF Executions
<1>5. Coherent(Fresh(d))
  BY <1>2, <1>3 DEF Coherent, Reporting, Ended
<1> QED
  BY <1>3, <1>4, <1>5

LEMMA ChildStarts ==
    ASSUME TreeTypes, Awaited, Closing, NEW p \in DOMAIN exec, NEW n \in DOMAIN exec[p].node,
           StartChild(p, n)
    PROVE  /\ TreeTypes' /\ Awaited' /\ Closing'
           /\ exec'[<<>>] = exec[<<>>] /\ UNCHANGED <<events, adrift, lost>>
<1> DEFINE c == Below(p, n)
           F == Fresh(Kind(p, n).ref)
<1>1. /\ p \in Seq(Names) /\ n \in Names
      /\ \A q \in DOMAIN exec : q \in Seq(Names) /\ exec[q] \in Executions
      /\ <<>> \in DOMAIN exec
  BY ExecutionFacts DEF TreeTypes
<1>2. c \in Seq(Names) /\ c # <<>> /\ c \notin DOMAIN exec /\ c # p /\ Len(c) = Len(p) + 1
  <2>1. c \notin DOMAIN exec
    BY DEF StartChild
  <2>2. Len(c) = Len(p) + 1
    BY <1>1 DEF Below
  <2> QED
    BY <1>1, <2>1, <2>2, Deeper
<1>3. /\ F \in Executions /\ Coherent(F) /\ F.phase = "running" /\ F.result = "none"
  <2>1. Kind(p, n).ref \in DOMAIN Documents
    BY DEF StartChild, Closing, Coherent, Node, Kind
  <2> QED
    BY <2>1, FreshFacts
<1>4. exec' = [q \in DOMAIN exec \cup {c} |-> IF q = c THEN F ELSE exec[q]]
  BY DEF StartChild
<1> HIDE DEF F
<1>5. /\ DOMAIN exec' = DOMAIN exec \cup {c} /\ exec'[c] = F
      /\ \A q \in DOMAIN exec : exec'[q] = exec[q]
      /\ exec' = [q \in DOMAIN exec' |-> exec'[q]]
  BY <1>2, <1>4
<1>6. UNCHANGED <<events, adrift, lost>>
  BY DEF StartChild, NoPosts
<1>7. TreeTypes'
  <2>1. exec' \in [DOMAIN exec' -> Executions]
    BY <1>1, <1>3, <1>5
  <2>2. \A k \in 0 .. Len(c) : SubSeq(c, 1, k) \in DOMAIN exec'
    <3>1. TAKE k \in 0 .. Len(c)
    <3>2. CASE k = Len(c)
      BY <1>2, <1>5, <3>2, SubSeqFull
    <3>3. CASE k # Len(c)
      <4>1. k \in 0 .. Len(p) /\ Len(p) \in Nat
        BY <1>1, <1>2, <3>3
      <4>2. SubSeq(c, 1, k) = SubSeq(p, 1, k)
        BY <1>1, <4>1 DEF Below
      <4> QED
        BY <1>5, <4>1, <4>2 DEF TreeTypes
    <3> QED
      BY <3>2, <3>3
  <2>3. \A q \in DOMAIN exec' : \A k \in 0 .. Len(q) : SubSeq(q, 1, k) \in DOMAIN exec'
    BY <1>5, <2>2 DEF TreeTypes
  <2>4. /\ <<>> \in DOMAIN exec' /\ DOMAIN exec' \subseteq Seq(Names)
        /\ lost' \in Nat /\ events' \in Seq(TreeEvents) /\ adrift' \subseteq TreeEvents
    BY <1>1, <1>2, <1>5, <1>6 DEF TreeTypes
  <2> QED
    BY <2>1, <2>3, <2>4 DEF TreeTypes
<1>8. Awaited'
  <2>1. ASSUME NEW a \in DOMAIN exec', NEW m \in Names,
               Below(a, m) \in DOMAIN exec', exec'[Below(a, m)].phase # "closed"
        PROVE  m \in DOMAIN exec'[a].node /\ exec'[a].node[m] = "child"
    <3>0. a \in Seq(Names)
      BY <1>1, <1>2, <1>5
    <3>1. CASE Below(a, m) = c
      <4>1. a = p /\ m = n
        BY <1>1, <3>0, <3>1, Deeper
      <4> QED
        BY <1>5, <4>1 DEF StartChild, Node
    <3>2. CASE Below(a, m) # c
      <4>1. Below(a, m) \in DOMAIN exec
        BY <1>5, <2>1, <3>2
      <4>2. a \in DOMAIN exec
        <5>1. SubSeq(Below(a, m), 1, Len(a)) = a /\ Len(a) \in 0 .. Len(Below(a, m))
          BY <3>0 DEF Below
        <5> QED
          BY <4>1, <5>1 DEF TreeTypes
      <4> QED
        BY <1>5, <2>1, <4>1, <4>2 DEF Awaited, Phase, Node
    <3> QED
      BY <3>1, <3>2
  <2> QED
    BY <2>1 DEF Awaited, Phase, Node, Below
<1>9. Closing'
  <2>1. \A q \in DOMAIN exec' : Coherent(exec'[q])
    BY <1>3, <1>5 DEF Closing
  <2>2. ASSUME NEW a \in DOMAIN exec', NEW b \in DOMAIN exec', IsStrictPrefix(a, b),
               exec'[a].phase \in Reporting, exec'[b].phase # "closed"
        PROVE  \E r \in DOMAIN exec' : IsPrefix(a, r) /\ IsStrictPrefix(r, b) /\ Leaves(exec'[r])
    <3>0. a \in Seq(Names) /\ b \in Seq(Names)
      BY <1>1, <1>2, <1>5
    <3>1. /\ a \in DOMAIN exec /\ exec[a].phase \in Reporting
          /\ exec[p].phase = "running" /\ "running" \notin Reporting
      BY <1>3, <1>5, <2>2 DEF Reporting, Ended, StartChild, Phase
    <3>2. CASE b = c
      <4>1. a = p \/ IsStrictPrefix(a, p)
        BY <1>1, <2>2, <3>0, <3>2, WayUp
      <4>2. Parted(a, p)
        BY <3>1, <4>1 DEF Closing, Phase
      <4>3. PICK r \in DOMAIN exec : IsPrefix(a, r) /\ IsStrictPrefix(r, p) /\ Left(r)
        BY <4>2 DEF Parted
      <4>4. IsStrictPrefix(r, c)
        BY <1>1, <4>3, PrefixFacts
      <4> QED
        BY <1>5, <3>2, <4>3, <4>4, RunningFacts
    <3>3. CASE b # c
      <4>1. b \in DOMAIN exec /\ exec[b].phase # "closed"
        BY <1>5, <2>2, <3>3
      <4>2. Parted(a, b)
        BY <2>2, <3>1, <4>1 DEF Closing, Phase
      <4> QED
        BY <1>5, <4>2, RunningFacts DEF Parted
    <3> QED
      BY <3>2, <3>3
  <2>3. Free(exec'[<<>>])
    BY <1>1, <1>5 DEF Closing
  <2> QED
    BY <2>1, <2>2, <2>3, ClosingNext
<1> QED
  BY <1>1, <1>5, <1>6, <1>7, <1>8, <1>9

-----------------------------------------------------------------------------
(* The invariant about the log, under each kind of step.                   *)
LEMMA Appended ==
    ASSUME events \in Seq(TreeEvents), NEW e \in TreeEvents, events' = Append(events, e)
    PROVE  /\ events' \in Seq(TreeEvents)
           /\ Len(events) + 1 \notin DOMAIN events
           /\ DOMAIN events' = DOMAIN events \cup {Len(events) + 1}
           /\ \A i \in DOMAIN events : events'[i] = events[i]
           /\ events'[Len(events) + 1] = e
<1>1. Len(events) \in Nat /\ DOMAIN events = 1 .. Len(events)
  OBVIOUS
<1>2. events' \in Seq(TreeEvents) /\ Len(events') = Len(events) + 1
  OBVIOUS
<1>3. DOMAIN events' = 1 .. Len(events) + 1
  BY <1>2
<1>4. /\ \A i \in DOMAIN events : events'[i] = events[i]
      /\ events'[Len(events) + 1] = e
  BY <1>1
<1> QED
  BY <1>1, <1>2, <1>3, <1>4

LEMMA CalmTells ==
    ASSUME TreeTypes, Tells, Calm
    PROVE  Tells' /\ events' \in Seq(TreeEvents) /\ lost' \in Nat /\ adrift' \subseteq TreeEvents
<1>1. events \in Seq(TreeEvents) /\ adrift \subseteq TreeEvents /\ CalmEvents \subseteq TreeEvents
  BY DEF TreeTypes, CalmEvents
<1> DEFINE Longer ==
        /\ events' \in Seq(TreeEvents)
        /\ DOMAIN events \subseteq DOMAIN events'
        /\ \A i \in DOMAIN events : events'[i] = events[i]
        /\ \A i \in DOMAIN events' \ DOMAIN events : events'[i] \in CalmEvents
<1>2. Longer
  <2>1. CASE events' = events
    BY <1>1, <2>1
  <2>2. ASSUME NEW e \in CalmEvents, events' = Append(events, e)
        PROVE  Longer
    BY <1>1, <2>2, Appended
  <2> QED
    BY <2>1, <2>2 DEF Calm, CalmLog
<1>3. Reports' = Reports
  BY <1>2 DEF Reports, CalmEvents
<1>4. \A i \in Reports : events'[i] = events[i]
  BY <1>2 DEF Reports
<1>5. Phase(<<>>) \in Ended =>
          /\ Phase(<<>>)' \in Ended
          /\ Told(<<>>)' = Told(<<>>)
          /\ \A n \in Told(<<>>) : StatusEvent(<<>>, n)' = StatusEvent(<<>>, n)
  BY DEF Calm, Told, StatusEvent, Node, Phase
<1>6. ASSUME NEW e, TrueEvent(e)
      PROVE  TrueEvent(e)'
  <2>1. /\ e.node = "" /\ e.type = "run_succeeded" => exec'[<<>>].returned
        /\ e.node = "" /\ e.type = "run_failed" => exec'[<<>>].result = "failed"
    BY <1>6 DEF TrueEvent, Calm
  <2>2. e.type \in NodeEvents => /\ Phase(<<>>)' \in Ended
                                 /\ e.node \in Told(<<>>)'
                                 /\ e = StatusEvent(<<>>, e.node)'
    BY <1>5, <1>6 DEF TrueEvent
  <2> QED
    BY <2>1, <2>2 DEF TrueEvent
<1>7. \A e \in CalmEvents : TrueEvent(e)'
  BY DEF TrueEvent, CalmEvents
<1>8. adrift' \subseteq adrift \cup CalmEvents
  BY DEF Calm, CalmLog
<1>9. AllTrue'
  <2>1. Range(events') \cup adrift' \subseteq Range(events) \cup adrift \cup CalmEvents
    BY <1>2, <1>8 DEF Range
  <2> QED
    BY <1>6, <1>7, <2>1 DEF Tells, AllTrue
<1>10. EndSaid'
  <2>1. ASSUME lost' = 0
        PROVE  \A e \in adrift' : e.node # ""
    BY <1>8, <2>1 DEF Tells, EndSaid, Calm, CalmLog, CalmEvents
  <2>2. ASSUME lost' = 0
        PROVE  IF exec'[<<>>].phase \in Over
               THEN \E i \in Reports' :
                       /\ Reports' = {i}
                       /\ events'[i].type = IF exec'[<<>>].result = "succeeded" THEN "run_succeeded"
                                                                             ELSE "run_failed"
               ELSE Reports' = {}
    <3>1. IF Phase(<<>>) \in Over
          THEN \E i \in Reports :
                  /\ Reports = {i}
                  /\ events[i].type = IF exec[<<>>].result = "succeeded" THEN "run_succeeded"
                                                                       ELSE "run_failed"
          ELSE Reports = {}
      BY <2>2 DEF Tells, EndSaid, Calm, CalmLog
    <3>2. /\ exec'[<<>>].result = exec[<<>>].result
          /\ exec'[<<>>].phase \in Over <=> Phase(<<>>) \in Over
      BY DEF Calm
    <3> QED
      BY <1>3, <1>4, <3>1, <3>2
  <2> QED
    BY <2>1, <2>2 DEF EndSaid, Phase
<1>11. NodesSaid'
  <2>1. ASSUME lost' = 0, Phase(<<>>)' \in Ended
        PROVE  \A n \in Told(<<>>)' : \E i \in DOMAIN events' : events'[i] = StatusEvent(<<>>, n)'
    <3>1. lost = 0 /\ Phase(<<>>) \in Ended
      BY <2>1 DEF Calm, CalmLog, Phase
    <3> QED
      BY <1>2, <1>5, <3>1 DEF Tells, NodesSaid
  <2> QED
    BY <2>1 DEF NodesSaid
<1> QED
  BY <1>1, <1>2, <1>8, <1>9, <1>10, <1>11 DEF Tells, Calm, CalmLog

(* What a worker that was given up on publishes is true still. *)
LEMMA LateTells ==
    ASSUME TreeTypes, Tells, NEW e \in adrift, LateEvent(e)
    PROVE  Tells' /\ events' \in Seq(TreeEvents) /\ lost' \in Nat /\ adrift' \subseteq TreeEvents
<1>1. /\ events \in Seq(TreeEvents) /\ e \in TreeEvents /\ adrift \subseteq TreeEvents
      /\ exec' = exec /\ lost' = lost /\ adrift' \subseteq adrift
  BY DEF TreeTypes, LateEvent
<1> DEFINE Longer ==
        /\ events' \in Seq(TreeEvents)
        /\ DOMAIN events \subseteq DOMAIN events'
        /\ \A i \in DOMAIN events : events'[i] = events[i]
        /\ \A i \in DOMAIN events' \ DOMAIN events : events'[i] = e
<1>2. Longer
  <2>1. CASE events' = events
    BY <1>1, <2>1
  <2>2. CASE events' = Append(events, e)
    BY <1>1, <2>2, Appended
  <2> QED
    BY <2>1, <2>2 DEF LateEvent
<1>3. TrueEvent(e) /\ (lost = 0 => e.node # "")
  BY DEF Tells, AllTrue, EndSaid
<1>4. AllTrue'
  <2>1. Range(events') \cup adrift' \subseteq Range(events) \cup adrift
    BY <1>1, <1>2 DEF Range
  <2>2. \A x : TrueEvent(x) => TrueEvent(x)'
    BY <1>1 DEF TrueEvent, Told, StatusEvent, Phase, Node
  <2> QED
    BY <2>1, <2>2 DEF Tells, AllTrue
<1>5. lost = 0 => Reports' = Reports /\ \A i \in Reports : events'[i] = events[i]
  BY <1>2, <1>3 DEF Reports
<1>6. EndSaid'
  BY <1>1, <1>5 DEF Tells, EndSaid, Phase
<1>7. NodesSaid'
  <2>1. lost = 0 /\ Phase(<<>>) \in Ended =>
            \A n \in Told(<<>>) : \E i \in DOMAIN events' : events'[i] = StatusEvent(<<>>, n)
    BY <1>2 DEF Tells, NodesSaid
  <2> QED
    BY <1>1, <2>1 DEF NodesSaid, Told, StatusEvent, Phase, Node
<1> QED
  BY <1>1, <1>2, <1>4, <1>6, <1>7 DEF Tells, TreeTypes

LEMMA RunReports ==
    ASSUME TreeTypes, Closing, Tells, ReportSuccess(<<>>) \/ ReportFailure(<<>>)
    PROVE  Tells' /\ events' \in Seq(TreeEvents) /\ lost' \in Nat /\ adrift' \subseteq TreeEvents
<1> DEFINE y == exec[<<>>]
           ok == Event("run_succeeded", "")
           ko == Event("run_failed", "")
<1>1. /\ events \in Seq(TreeEvents) /\ lost \in Nat /\ <<>> \in DOMAIN exec
      /\ adrift \subseteq TreeEvents /\ y \in Executions
  BY ExecutionFacts DEF TreeTypes
<1>2. /\ y.phase \in {"succeeding", "failing"} /\ Phase(<<>>) = y.phase
      /\ y.result = "none" /\ (y.phase = "succeeding" => y.returned)
  <2>1. y.phase \in {"succeeding", "failing"} /\ Phase(<<>>) = y.phase
    BY DEF ReportSuccess, ReportFailure, Phase
  <2> QED
    BY <1>1, <2>1 DEF Closing, Coherent, Ended
<1>3. /\ \A a \in Range(events) \cup adrift : TrueEvent(a) /\ a.type \notin NodeEvents
      /\ lost = 0 => Reports = {} /\ \A a \in adrift : a.node # ""
  <2>1. Phase(<<>>) \notin Over /\ Phase(<<>>) \notin Ended
    BY <1>2 DEF Over, Ended
  <2> QED
    BY <2>1 DEF Tells, AllTrue, EndSaid, TrueEvent
<1>4. /\ ok \in TreeEvents /\ ok.type = "run_succeeded" /\ ok.node = ""
      /\ ko \in TreeEvents /\ ko.type = "run_failed" /\ ko.node = ""
  BY DEF Event, TreeEvents, NodeEvents
<1> HIDE DEF ok, ko
(* What the step does to the log. *)
<1> DEFINE Says(e) ==
        /\ \/ events' = events /\ lost' = lost + 1 /\ adrift' \subseteq adrift \cup {e}
           \/ events' = Append(events, e) /\ lost' \in {lost, lost + 1} /\ adrift' = adrift
<1>5. ASSUME NEW e \in {ok, ko}, Says(e)
      PROVE  /\ events' \in Seq(TreeEvents) /\ lost' \in Nat /\ adrift' \subseteq TreeEvents
             /\ Range(events') \cup adrift' \subseteq Range(events) \cup adrift \cup {e}
             /\ lost' = 0 => /\ \A a \in adrift' : a.node # ""
                             /\ \E i \in Reports' : Reports' = {i} /\ events'[i] = e
  <2>1. lost' \in Nat /\ (lost' = 0 => lost = 0 /\ adrift' = adrift /\ events' = Append(events, e))
    BY <1>1, <1>5
  <2>2. /\ e \in TreeEvents /\ e.node = "" /\ e.type \in {"run_succeeded", "run_failed"}
        /\ adrift' \subseteq adrift \cup {e}
    BY <1>4, <1>5
  <2>3. CASE events' = events /\ lost' = lost + 1
    <3>0. lost' # 0
      BY <1>1, <2>3
    <3>1. adrift' \subseteq TreeEvents
      BY <1>1, <2>2
    <3>2. Range(events') \cup adrift' \subseteq Range(events) \cup adrift \cup {e}
      BY <2>2, <2>3
    <3> HIDE DEF Says
    <3> QED
      BY Zenon, <1>1, <2>1, <2>3, <3>0, <3>1, <3>2
  <2>4. CASE events' = Append(events, e)
    <3> DEFINE k == Len(events) + 1
    <3>1. /\ events' \in Seq(TreeEvents) /\ k \notin DOMAIN events
          /\ DOMAIN events' = DOMAIN events \cup {k}
          /\ \A i \in DOMAIN events : events'[i] = events[i]
          /\ events'[k] = e
      BY <1>1, <2>4, <2>2, Appended
    <3> HIDE DEF k
    <3>2. Reports' = Reports \cup {k}
      BY <2>2, <3>1 DEF Reports
    <3>3. lost' = 0 => Reports' = {k} /\ \A a \in adrift' : a.node # ""
      BY <1>3, <2>1, <3>2
    <3>4. Range(events') \subseteq Range(events) \cup {e}
      BY <3>1 DEF Range
    <3>5. adrift' \subseteq TreeEvents
      BY <1>1, <2>2
    <3> QED
      BY <2>1, <2>2, <3>1, <3>3, <3>4, <3>5
  <2> QED
    BY <1>5, <2>3, <2>4
(* ... and to the run. *)
<1>6. ASSUME NEW e \in {ok, ko}, NEW ph \in {"failing", "recording"},
             exec'[<<>>].phase = ph, exec'[<<>>].returned = y.returned,
             \/ ph = "recording" /\ e = ok /\ y.returned /\ exec'[<<>>].result = "succeeded"
             \/ ph = "recording" /\ e = ko /\ exec'[<<>>].result = "failed"
             \/ ph = "failing" /\ e = ok /\ y.returned /\ exec'[<<>>].result = "none" /\ lost' # 0,
             Says(e)
      PROVE  Tells' /\ events' \in Seq(TreeEvents) /\ lost' \in Nat /\ adrift' \subseteq TreeEvents
  <2>1. /\ events' \in Seq(TreeEvents) /\ lost' \in Nat /\ adrift' \subseteq TreeEvents
        /\ Range(events') \cup adrift' \subseteq Range(events) \cup adrift \cup {e}
        /\ lost' = 0 => /\ \A a \in adrift' : a.node # ""
                        /\ \E i \in Reports' : Reports' = {i} /\ events'[i] = e
    <3>1. Says(e)
      BY <1>6
    <3> HIDE DEF Says
    <3> QED
      BY <1>5, <1>6, <3>1
  <2> HIDE DEF Says
  <2>2. ASSUME NEW a, a = e \/ (TrueEvent(a) /\ a.type \notin NodeEvents)
        PROVE  TrueEvent(a)'
    <3>1. a.type \notin NodeEvents
      BY <1>4, <2>2 DEF NodeEvents
    <3>2. a.node = "" /\ a.type = "run_succeeded" => exec'[<<>>].returned
      BY <1>4, <1>6, <2>2 DEF TrueEvent
    <3>3. a.node = "" /\ a.type = "run_failed" => exec'[<<>>].result = "failed"
      BY <1>2, <1>4, <1>6, <2>2 DEF TrueEvent
    <3> QED
      BY <3>1, <3>2, <3>3 DEF TrueEvent
  <2>3. AllTrue'
    <3>1. \A a \in Range(events') \cup adrift' : TrueEvent(a)'
      BY <1>3, <2>1, <2>2
    <3> QED
      BY <3>1 DEF AllTrue
  <2>4. EndSaid'
    BY <1>4, <1>6, <2>1 DEF EndSaid, Phase, Over, Ended
  <2>5. NodesSaid'
    BY <1>6 DEF NodesSaid, Phase, Ended
  <2> QED
    BY <2>1, <2>3, <2>4, <2>5 DEF Tells
<1>7. ASSUME NEW e \in {ok, ko}, Publish(<<>>, e) \/ PostRaises(<<>>, e)
      PROVE  Says(e)
  BY <1>7 DEF Publish, PostRaises, Logged, About
<1> HIDE DEF Says
<1>8. CASE ReportSuccess(<<>>)
  <2>1. CASE /\ exec' = [exec EXCEPT ![<<>>].phase = "recording", ![<<>>].result = "succeeded"]
             /\ Publish(<<>>, ok)
    <3>1. /\ exec'[<<>>].phase = "recording" /\ exec'[<<>>].returned = y.returned
          /\ exec'[<<>>].result = "succeeded" /\ y.returned
      <4>1. exec'[<<>>] = [y EXCEPT !.phase = "recording", !.result = "succeeded"]
        BY <1>1, <2>1
      <4>2. y.returned
        BY <1>2, <1>8 DEF ReportSuccess
      <4> HIDE DEF y
      <4> QED
        BY <1>1, <4>1, <4>2 DEF Executions
    <3> QED
      BY <1>6, <1>7, <2>1, <3>1
  <2>2. CASE /\ exec' = [exec EXCEPT ![<<>>].phase = "failing", ![<<>>].raised = "failure"]
             /\ PostRaises(<<>>, ok)
    <3>1. /\ exec'[<<>>].phase = "failing" /\ exec'[<<>>].returned = y.returned
          /\ exec'[<<>>].result = "none" /\ y.returned
      <4>1. exec'[<<>>] = [y EXCEPT !.phase = "failing", !.raised = "failure"]
        BY <1>1, <2>2
      <4>2. y.returned
        BY <1>2, <1>8 DEF ReportSuccess
      <4> HIDE DEF y
      <4> QED
        BY <1>1, <1>2, <4>1, <4>2 DEF Executions
    <3>2. lost' # 0
      BY <1>1, <2>2 DEF PostRaises
    <3> QED
      BY <1>6, <1>7, <2>2, <3>1, <3>2
  <2> QED
    BY <1>8, <2>1, <2>2 DEF ReportSuccess, ok
<1>9. CASE ReportFailure(<<>>)
  <2>1. Publish(<<>>, ko) \/ PostRaises(<<>>, ko)
    BY <1>9 DEF ReportFailure, ko
  <2>2. /\ exec'[<<>>].phase = "recording" /\ exec'[<<>>].returned = y.returned
        /\ exec'[<<>>].result = "failed"
    <3>1. \/ exec' = [exec EXCEPT ![<<>>].phase = "recording", ![<<>>].result = "failed"]
          \/ exec' = [exec EXCEPT ![<<>>].phase = "recording", ![<<>>].result = "failed",
                                  ![<<>>].raised = "failure"]
      BY <1>9 DEF ReportFailure
    <3>2. \/ exec'[<<>>] = [y EXCEPT !.phase = "recording", !.result = "failed"]
          \/ exec'[<<>>] = [y EXCEPT !.phase = "recording", !.result = "failed",
                                     !.raised = "failure"]
      BY <1>1, <3>1
    <3> HIDE DEF y
    <3> QED
      BY <1>1, <3>2 DEF Executions
  <2> QED
    BY <1>6, <1>7, <2>1, <2>2
<1> QED
  BY <1>8, <1>9

LEMMA OrdersCover ==
    ASSUME NEW S, IsFiniteSet(S), NEW s \in SetToSeqs(S)
    PROVE  /\ s \in Seq(S) /\ DOMAIN s = 1 .. Len(s) /\ Len(s) \in Nat
           /\ \A n \in S : \E i \in DOMAIN s : s[i] = n
<1> DEFINE c == Cardinality(S)
<1>1. c \in Nat
  BY FS_CardinalityType
<1>2. s \in [1 .. c -> S] /\ \A i, j \in 1 .. c : i # j => s[i] # s[j]
  BY DEF SetToSeqs
<1>3. s \in Injection(1 .. c, S)
  BY <1>2 DEF Injection, IsInjective
<1>4. Cardinality(1 .. c) = c
  BY <1>1, FS_Interval
<1>5. s \in Surjection(1 .. c, S)
  BY <1>3, <1>4, FS_Injection
<1>6. \A n \in S : \E i \in 1 .. c : s[i] = n
  BY <1>5 DEF Surjection
<1> HIDE DEF c
<1>7. s \in Seq(S) /\ Len(s) = c
  BY <1>1, <1>2
<1> QED
  BY <1>1, <1>2, <1>6, <1>7

LEMMA RunRecords ==
    ASSUME TreeTypes, Closing, Tells, Record(<<>>)
    PROVE  Tells' /\ events' \in Seq(TreeEvents) /\ lost' \in Nat /\ adrift' \subseteq TreeEvents
<1> DEFINE y == exec[<<>>]
<1>1. /\ events \in Seq(TreeEvents) /\ lost \in Nat /\ <<>> \in DOMAIN exec
      /\ adrift \subseteq TreeEvents
      /\ y \in Executions /\ DOMAIN y.node \subseteq Names /\ DOMAIN y.node = Ids(y.def)
      /\ y.def \in DOMAIN Documents
  BY ExecutionFacts DEF TreeTypes
<1>2. /\ exec'[<<>>].phase \in Ended /\ exec'[<<>>].returned = y.returned
      /\ exec'[<<>>].result = y.result /\ exec'[<<>>].node = Torn(<<>>)
  <2> DEFINE ph == IF y.raised = "other" THEN "stuck" ELSE "closed"
  <2>1. exec'[<<>>] = [y EXCEPT !.phase = ph, !.node = Torn(<<>>)] /\ ph \in Ended
    BY <1>1 DEF Record, Ended
  <2> HIDE DEF y, ph
  <2> QED
    BY <1>1, <2>1 DEF Executions
<1>3. y.phase = "recording" /\ Phase(<<>>) \in Over /\ Phase(<<>>) \notin Ended
  BY DEF Record, Phase, Over, Ended
<1>3b. y.returned => Torn(<<>>) = y.node
  <2>1. HAVE y.returned
  <2>2. \A n \in DOMAIN y.node : y.node[n] \in Settled
    BY <1>1, <2>1 DEF Closing, Coherent
  <2>3. \A n \in DOMAIN y.node : y.node[n] \notin Active
    BY <2>2 DEF Settled, Active
  <2>4. y.node = [n \in DOMAIN y.node |-> y.node[n]]
    BY <1>1 DEF Executions
  <2> QED
    BY <2>3, <2>4 DEF Torn, Node
<1>5. /\ Told(<<>>)' = Told(<<>>) /\ Told(<<>>) \subseteq Names /\ IsFiniteSet(Told(<<>>))
      /\ \A n \in Told(<<>>) : StatusEvent(<<>>, n)' = StatusEvent(<<>>, n)
  <2>1. Told(<<>>)' = Told(<<>>) /\ Told(<<>>) \subseteq Ids(y.def)
    BY <1>1, <1>2, <1>3b DEF Told, Node
  <2>2. \A n \in Told(<<>>) : StatusEvent(<<>>, n)' = StatusEvent(<<>>, n)
    BY <1>2, <1>3b DEF Told, StatusEvent, Node
  <2> QED
    BY <1>1, <2>1, <2>2, NamesFacts, FS_Subset
<1>6. PICK S \in SUBSET Told(<<>>) :
          /\ lost' \in {lost, lost + 1} /\ (lost' = 0 => S = Told(<<>>))
          /\ \E T \in {{}, Told(<<>>) \ S} :
                 adrift' = adrift \cup AllLate(<<>>) \cup {StatusEvent(<<>>, n) : n \in T}
          /\ \E s \in SetToSeqs(S) :
                 events' = events \o [i \in DOMAIN s |-> StatusEvent(<<>>, s[i])]
  <2>1. PICK S \in SUBSET Told(<<>>) :
            /\ \/ S = Told(<<>>) /\ lost' = lost
               \/ S # Told(<<>>) /\ lost' = lost + 1
            /\ \E T \in {{}, Told(<<>>) \ S} :
                   adrift' = adrift \cup AllLate(<<>>) \cup {StatusEvent(<<>>, n) : n \in T}
            /\ \E s \in SetToSeqs(S) :
                   events' = events \o [i \in DOMAIN s |-> StatusEvent(<<>>, s[i])]
    BY DEF Record, About
  <2>2. lost' \in {lost, lost + 1} /\ (lost' = 0 => S = Told(<<>>))
    BY <1>1, <2>1
  <2> QED
    BY <2>1, <2>2
<1>6s. PICK s \in SetToSeqs(S) :
           events' = events \o [i \in DOMAIN s |-> StatusEvent(<<>>, s[i])]
  BY <1>6
<1>7. /\ s \in Seq(S) /\ DOMAIN s = 1 .. Len(s) /\ Len(s) \in Nat
      /\ \A n \in S : \E i \in DOMAIN s : s[i] = n
      /\ \A i \in DOMAIN s : s[i] \in S
  <2>1. IsFiniteSet(S)
    BY <1>5, FS_Subset
  <2>2. /\ s \in Seq(S) /\ DOMAIN s = 1 .. Len(s) /\ Len(s) \in Nat
        /\ \A n \in S : \E i \in DOMAIN s : s[i] = n
    BY <2>1, OrdersCover
  <2> QED
    BY <2>2, ElementOfSeq
<1>8. \A n \in Names : /\ StatusEvent(<<>>, n) \in TreeEvents
                       /\ StatusEvent(<<>>, n).node = n
                       /\ StatusEvent(<<>>, n).type \in NodeEvents
  BY DEF StatusEvent, Event, TreeEvents, NodeEvents
<1> DEFINE t == [i \in DOMAIN s |-> StatusEvent(<<>>, s[i])]
           l == Len(events)
<1>9. /\ t \in Seq(TreeEvents) /\ DOMAIN t = DOMAIN s /\ Len(t) = Len(s)
      /\ \A i \in DOMAIN s : t[i] = StatusEvent(<<>>, s[i])
  <2>1. \A i \in 1 .. Len(s) : StatusEvent(<<>>, s[i]) \in TreeEvents
    BY <1>5, <1>7, <1>8
  <2>2. t \in [1 .. Len(s) -> TreeEvents]
    BY <1>7, <2>1
  <2> QED
    BY <1>7, <2>2
<1>10. events' = events \o t
  BY <1>6s
<1> HIDE DEF t
<1>11. /\ l \in Nat /\ DOMAIN events = 1 .. l
       /\ events' \in Seq(TreeEvents)
       /\ \A i \in DOMAIN events : i \in DOMAIN events' /\ events'[i] = events[i]
       /\ \A i \in DOMAIN s : l + i \in DOMAIN events' /\ events'[l + i] = t[i]
       /\ \A i \in DOMAIN events' :
             i \notin DOMAIN events => \E j \in DOMAIN s : i = l + j
  <2>1. l \in Nat /\ DOMAIN events = 1 .. l
    BY <1>1
  <2>2. /\ events' \in Seq(TreeEvents) /\ Len(events') = l + Len(s)
        /\ \A i \in 1 .. l + Len(s) : events'[i] = IF i <= l THEN events[i] ELSE t[i - l]
    BY <1>1, <1>9, <1>10, ConcatProperties
  <2>3. DOMAIN events' = 1 .. l + Len(s)
    BY <2>2
  <2> HIDE DEF l
  <2>4. \A i \in DOMAIN events : i \in DOMAIN events' /\ events'[i] = events[i]
    BY <1>7, <2>1, <2>2, <2>3
  <2>5. \A i \in DOMAIN s : l + i \in DOMAIN events' /\ events'[l + i] = t[i]
    <3>1. TAKE i \in DOMAIN s
    <3>2. i \in 1 .. Len(s) /\ l + i \in 1 .. l + Len(s) /\ ~(l + i <= l) /\ (l + i) - l = i
      BY <1>7, <2>1
    <3> QED
      BY <2>2, <2>3, <3>2
  <2>6. \A i \in DOMAIN events' : i \notin DOMAIN events => \E j \in DOMAIN s : i = l + j
    <3>1. TAKE i \in DOMAIN events'
    <3>2. HAVE i \notin DOMAIN events
    <3>3. i - l \in 1 .. Len(s) /\ i = l + (i - l)
      BY <1>7, <2>1, <2>3, <3>1, <3>2
    <3> QED
      BY <1>7, <3>3
  <2> QED
    BY <2>1, <2>2, <2>4, <2>5, <2>6
<1> HIDE DEF l
<1>12. \A i \in DOMAIN events' :
           \/ i \in DOMAIN events /\ events'[i] = events[i]
           \/ \E n \in S : /\ events'[i] = StatusEvent(<<>>, n)
                           /\ events'[i].node = n /\ events'[i].node # ""
  <2>1. \A n \in S : StatusEvent(<<>>, n).node = n /\ n # ""
    BY <1>5, <1>8, NoEmptyName
  <2>2. \A j \in DOMAIN s : events'[l + j] = StatusEvent(<<>>, s[j]) /\ s[j] \in S
    BY <1>7, <1>9, <1>11
  <2>3. TAKE i \in DOMAIN events'
  <2>4. CASE i \in DOMAIN events
    BY <1>11, <2>4
  <2>5. CASE i \notin DOMAIN events
    <3>1. PICK j \in DOMAIN s : i = l + j
      BY <1>11, <2>5
    <3>2. s[j] \in S /\ events'[i] = StatusEvent(<<>>, s[j])
      BY <2>2, <3>1
    <3> QED
      BY <2>1, <3>2
  <2> QED
    BY <2>4, <2>5
<1>13. Reports' = Reports /\ \A i \in Reports : events'[i] = events[i]
  BY <1>11, <1>12 DEF Reports
<1>14. adrift' \subseteq adrift \cup CalmEvents \cup {StatusEvent(<<>>, n) : n \in Told(<<>>)}
  <2>1. AllLate(<<>>) \subseteq CalmEvents
    BY <1>1, LateIsCalm DEF AllLate
  <2>2. PICK T \in {{}, Told(<<>>) \ S} :
            adrift' = adrift \cup AllLate(<<>>) \cup {StatusEvent(<<>>, n) : n \in T}
    BY <1>6
  <2>3. T \subseteq Told(<<>>)
    BY <2>2
  <2> QED
    BY <2>1, <2>2, <2>3
<1>15. AllTrue'
  <2>1. ASSUME NEW e, TrueEvent(e)
        PROVE  TrueEvent(e)'
    BY <1>2, <1>3, <2>1 DEF TrueEvent
  <2>2. ASSUME NEW n \in Told(<<>>), NEW e, e = StatusEvent(<<>>, n)
        PROVE  TrueEvent(e)'
    <3>1. /\ e.node = n /\ n # "" /\ e.type \in NodeEvents
          /\ e = StatusEvent(<<>>, n)' /\ n \in Told(<<>>)'
      BY <1>5, <1>8, <2>2, NoEmptyName
    <3> QED
      BY <1>2, <3>1 DEF TrueEvent, Phase
  <2>3. Range(events') \subseteq Range(events) \cup {StatusEvent(<<>>, n) : n \in Told(<<>>)}
    BY <1>12 DEF Range
  <2>4. \A e \in CalmEvents : TrueEvent(e)'
    BY DEF TrueEvent, CalmEvents
  <2>5. \A e \in Range(events') \cup adrift' :
            e \in Range(events) \cup adrift \cup CalmEvents \/ \E n \in Told(<<>>) : e = StatusEvent(<<>>, n)
    BY <1>14, <2>3
  <2> QED
    BY <2>1, <2>2, <2>4, <2>5 DEF Tells, AllTrue
<1>16. EndSaid'
  <2>1. lost' = 0 => lost = 0
    BY <1>1, <1>6
  <2>2. lost = 0 => /\ \A e \in adrift : e.node # ""
                    /\ \E i \in Reports :
                          /\ Reports = {i}
                          /\ events[i].type = IF y.result = "succeeded" THEN "run_succeeded"
                                                                       ELSE "run_failed"
    BY <1>3 DEF Tells, EndSaid, Phase
  <2>3. lost = 0 => \A e \in adrift' : e.node # ""
    <3>1. \A n \in Told(<<>>) : StatusEvent(<<>>, n).node # ""
      BY <1>5, <1>8, NoEmptyName
    <3> QED
      BY <1>14, <2>2, <3>1 DEF CalmEvents
  <2> QED
    BY <1>2, <1>13, <2>1, <2>2, <2>3 DEF EndSaid, Phase, Over
<1>17. NodesSaid'
  <2>1. ASSUME lost' = 0, NEW n \in Told(<<>>)
        PROVE  \E i \in DOMAIN events' : events'[i] = StatusEvent(<<>>, n)
    <3>1. PICK j \in DOMAIN s : s[j] = n
      BY <1>6, <1>7, <2>1
    <3> QED
      BY <1>9, <1>11, <3>1
  <2>2. lost' = 0 => \A n \in Told(<<>>)' :
            \E i \in DOMAIN events' : events'[i] = StatusEvent(<<>>, n)'
    BY <1>5, <2>1
  <2> QED
    BY <2>2 DEF NodesSaid
<1>18. adrift' \subseteq TreeEvents
  BY <1>1, <1>5, <1>8, <1>14 DEF CalmEvents
<1> QED
  BY <1>1, <1>6, <1>11, <1>15, <1>16, <1>17, <1>18 DEF Tells

-----------------------------------------------------------------------------
(* Every step evolves one execution or starts one, and but for the three   *)
(* steps by which the run itself reports, and for late events, it is calm. *)
TreeInv == TreeTypes /\ Awaited /\ Closing /\ Tells

LEMMA OthersAreCalm ==
    ASSUME TreeTypes, Closing, NEW p \in DOMAIN exec, Evolves(p), CalmLog,
           \/ p # <<>>
           \/ /\ exec'[p].result = exec[p].result
              /\ \/ exec'[p].phase = exec[p].phase /\ exec'[p].returned = exec[p].returned
                 \/ {exec'[p].phase, Phase(p)} \cap Over = {}
    PROVE  Calm
<1>1. <<>> \in DOMAIN exec /\ Ended \subseteq Over
  BY DEF TreeTypes, Over
<1>2. CASE p # <<>>
  <2>1. exec'[<<>>] = exec[<<>>]
    BY <1>1, <1>2 DEF Evolves
  <2> QED
    BY <2>1 DEF Calm, Phase
<1>3. CASE p = <<>>
  <2>1. exec[p].returned => exec'[p].returned /\ exec'[p].node = exec[p].node
    BY DEF Evolves
  <2>2. /\ exec'[p].phase \in Over <=> Phase(p) \in Over
        /\ exec'[p].phase \in Ended <=> Phase(p) \in Ended
    BY <1>1, <1>3 DEF Phase
  <2>3. Phase(p) \in Ended => exec'[p].returned = exec[p].returned
    BY <1>1, <1>3
  <2> QED
    BY <1>3, <2>1, <2>2, <2>3 DEF Calm
<1> QED
  BY <1>2, <1>3

(* A report about another path leaves no event. *)
LEMMA ChildReportsCalm ==
    ASSUME TreeTypes, Closing, NEW p \in DOMAIN exec, p # <<>>,
           ReportSuccess(p) \/ ReportFailure(p) \/ Record(p)
    PROVE  Calm
<1>1. Evolves(p) /\ lost \in Nat
  BY ReportsEvolve DEF TreeTypes
<1>2. events' = events /\ lost' \in {lost, lost + 1}
  BY DEF ReportSuccess, ReportFailure, Record, Publish, PostRaises, Logged
<1>3. adrift' \subseteq adrift
  BY DEF ReportSuccess, ReportFailure, Record, Publish, PostRaises, AllLate, Late, About
<1> QED
  BY <1>1, <1>2, <1>3, OthersAreCalm DEF CalmLog

LEMMA SameExecutions ==
    ASSUME Awaited, Closing, exec' = exec
    PROVE  Awaited' /\ Closing'
<1>1. Awaited'
  BY DEF Awaited, Phase, Node, Below
<1>2. Closing'
  <2>1. \A q \in DOMAIN exec' : Coherent(exec'[q])
    BY DEF Closing
  <2>2. \A a, b \in DOMAIN exec' :
            IsStrictPrefix(a, b) /\ exec'[a].phase \in Reporting /\ exec'[b].phase # "closed" =>
                \E r \in DOMAIN exec' : IsPrefix(a, r) /\ IsStrictPrefix(r, b) /\ Leaves(exec'[r])
    BY DEF Closing, Parted, Phase, Left, Leaves, Interrupted, Node
  <2>3. Free(exec'[<<>>])
    BY DEF Closing
  <2> QED
    BY <2>1, <2>2, <2>3, ClosingNext
<1> QED
  BY <1>1, <1>2

LEMMA TreeStep ==
    ASSUME TreeInv, TreeNext
    PROVE  TreeInv'
<1>1. ASSUME NEW p \in DOMAIN exec, Evolves(p), Calm
      PROVE  TreeInv'
  <2>1. Tells' /\ events' \in Seq(TreeEvents) /\ lost' \in Nat /\ adrift' \subseteq TreeEvents
    BY <1>1, CalmTells DEF TreeInv
  <2>2. TreeTypes' /\ Awaited' /\ Closing'
    BY <1>1, <2>1, EvolvesStays DEF TreeInv
  <2> QED
    BY <2>1, <2>2 DEF TreeInv
<1>2. ASSUME NEW p \in DOMAIN exec,
             \/ Refuse(p) \/ Return(p) \/ Raise(p) \/ TimeOut(p) \/ Cancel(p) \/ Halt(p)
             \/ Terminate(p)
      PROVE  TreeInv'
  <2>1. CalmLog
    BY <1>2, PhasesCalm DEF TreeInv
  <2>2. /\ Evolves(p)
        /\ p = <<>> => /\ exec'[p].result = exec[p].result
                       /\ {exec'[p].phase, Phase(p)} \cap Over = {}
    BY <1>2, PhasesEvolve DEF TreeInv
  <2>3. Calm
    BY <2>1, <2>2, OthersAreCalm DEF TreeInv
  <2> QED
    BY <1>1, <2>2, <2>3
<1>3. ASSUME NEW p \in DOMAIN exec, OpenBatch(p)
      PROVE  TreeInv'
  <2>1. CalmLog
    BY <1>3, PhasesCalm DEF TreeInv
  <2>2. /\ Evolves(p)
        /\ exec'[p].result = exec[p].result /\ {exec'[p].phase, Phase(p)} \cap Over = {}
    BY <1>3, BatchEvolves DEF TreeInv, OpenBatch, Over, Ended
  <2>3. Calm
    BY <2>1, <2>2, OthersAreCalm DEF TreeInv
  <2> QED
    BY <1>1, <2>2, <2>3
<1>4. ASSUME NEW p \in DOMAIN exec, ReportSuccess(p) \/ ReportFailure(p) \/ Record(p)
      PROVE  TreeInv'
  <2>1. Evolves(p)
    BY <1>4, ReportsEvolve DEF TreeInv
  <2>2. CASE p # <<>>
    BY <1>1, <1>4, <2>1, <2>2, ChildReportsCalm DEF TreeInv
  <2>3. CASE p = <<>>
    <3>1. Tells' /\ events' \in Seq(TreeEvents) /\ lost' \in Nat /\ adrift' \subseteq TreeEvents
      BY <1>4, <2>3, RunReports, RunRecords DEF TreeInv
    <3>2. TreeTypes' /\ Awaited' /\ Closing'
      BY <2>1, <3>1, EvolvesStays DEF TreeInv
    <3> QED
      BY <3>1, <3>2 DEF TreeInv
  <2> QED
    BY <2>2, <2>3
<1>5. ASSUME NEW p \in DOMAIN exec, NEW n \in DOMAIN exec[p].node,
             \/ NodeReturns(p, n) \/ NodeRaises(p, n) \/ Prepare(p, n) \/ GateEnds(p, n)
             \/ PipelineEnds(p, n) \/ Load(p, n) \/ ChildEnds(p, n)
      PROVE  TreeInv'
  <2>1. /\ Evolves(p)
        /\ exec'[p].phase = exec[p].phase /\ exec'[p].result = exec[p].result
        /\ exec'[p].returned = exec[p].returned
        /\ CalmLog
    BY <1>5, NodesEvolve DEF TreeInv
  <2>2. Calm
    BY <2>1, OthersAreCalm DEF TreeInv
  <2> QED
    BY <1>1, <2>1, <2>2
<1>6. ASSUME NEW p \in DOMAIN exec, NEW n \in DOMAIN exec[p].node, StartChild(p, n)
      PROVE  TreeInv'
  <2>1. /\ TreeTypes' /\ Awaited' /\ Closing'
        /\ exec'[<<>>] = exec[<<>>] /\ UNCHANGED <<events, adrift, lost>>
    BY <1>6, ChildStarts DEF TreeInv
  <2>2. Calm
    BY <2>1 DEF TreeInv, TreeTypes, Calm, CalmLog, Phase
  <2> QED
    BY <2>1, <2>2, CalmTells DEF TreeInv
<1>7. ASSUME NEW e \in adrift, LateEvent(e)
      PROVE  TreeInv'
  <2>1. Tells' /\ events' \in Seq(TreeEvents) /\ lost' \in Nat /\ adrift' \subseteq TreeEvents
    BY <1>7, LateTells DEF TreeInv
  <2>2. exec' = exec
    BY <1>7 DEF LateEvent
  <2>3. TreeTypes'
    BY <2>1, <2>2 DEF TreeInv, TreeTypes
  <2> QED
    BY <2>1, <2>2, <2>3, SameExecutions DEF TreeInv
<1> QED
  BY <1>2, <1>3, <1>4, <1>5, <1>6, <1>7 DEF TreeNext

LEMMA TreeStarts == TreeInit => TreeInv
<1> SUFFICES ASSUME TreeInit
             PROVE  TreeInv
  OBVIOUS
<1>1. PICK d \in Started : exec = [p \in {<<>>} |-> Fresh(d)]
  BY DEF TreeInit
<1>2. d \in DOMAIN Documents /\ events = <<>> /\ adrift = {} /\ lost = 0
  BY TreeAssumption DEF TreeInit
<1>3. /\ DOMAIN exec = {<<>>} /\ exec[<<>>] = Fresh(d) /\ exec \in [DOMAIN exec -> Executions]
      /\ Coherent(exec[<<>>]) /\ exec[<<>>].phase = "running" /\ exec[<<>>].result = "none"
  BY <1>1, <1>2, FreshFacts
<1>4. TreeTypes
  <2>1. \A k \in 0 .. Len(<<>>) : SubSeq(<<>>, 1, k) = <<>>
    BY SubSeqEmpty
  <2> QED
    BY <1>2, <1>3, <2>1 DEF TreeTypes
<1>5. Awaited
  <2>1. \A n \in Names : Below(<<>>, n) # <<>>
    BY Deeper, EmptySeq
  <2> QED
    BY <1>3, <2>1 DEF Awaited
<1>6. Closing
  BY <1>3 DEF Closing, Phase, Reporting, Ended, Free
<1>7. Tells
  <2>1. Range(events) = {} /\ Reports = {}
    BY <1>2 DEF Range, Reports
  <2> QED
    BY <1>2, <1>3, <2>1 DEF Tells, AllTrue, EndSaid, NodesSaid, Phase, Over, Ended
<1> QED
  BY <1>4, <1>5, <1>6, <1>7 DEF TreeInv

LEMMA TreeInvTells == TreeInv => OutcomeTold
<1> SUFFICES ASSUME TreeInv
             PROVE  OutcomeTold
  OBVIOUS
<1> DEFINE run == exec[<<>>]
<1>1. ASSUME NEW p \in DOMAIN exec, Phase(p) \in Reporting
      PROVE  /\ Idle(p) \/ Left(p)
             /\ \A q \in DOMAIN exec : IsStrictPrefix(p, q) /\ Phase(q) # "closed" =>
                   \E r \in DOMAIN exec : IsPrefix(p, r) /\ IsStrictPrefix(r, q) /\ Left(r)
  <2>1. Idle(p) \/ Left(p)
    <3>1. NoneActive(exec[p]) \/ Leaves(exec[p])
      BY <1>1 DEF TreeInv, Closing, Coherent, Phase
    <3> QED
      BY <3>1, RunningFacts DEF TreeInv
  <2> QED
    BY <1>1, <2>1 DEF TreeInv, Closing, Parted
<1>2. \A i \in DOMAIN events : TrueEvent(events[i])
  BY DEF TreeInv, Tells, AllTrue, Range
<1>3. \A i \in Reports :
          /\ events[i].type = "run_succeeded" => run.returned
          /\ events[i].type = "run_failed" => run.result # "succeeded"
  BY <1>2 DEF Reports, TrueEvent
<1>4. \A i \in DOMAIN events : events[i].type \in NodeEvents =>
          /\ events[i] = StatusEvent(<<>>, events[i].node)
          /\ events[i].node \in Told(<<>>)
  BY <1>2 DEF TrueEvent
<1>5. run.phase \in Ended /\ lost = 0 =>
          \E i \in Reports :
              /\ Reports = {i}
              /\ events[i].type = IF run.result = "succeeded" THEN "run_succeeded" ELSE "run_failed"
  BY DEF TreeInv, Tells, EndSaid, Phase, Over
<1>6. ASSUME run.phase \in Ended, lost = 0
      PROVE  {n \in DOMAIN run.node : \E i \in DOMAIN events : events[i] = StatusEvent(<<>>, n)}
                 = Told(<<>>)
  <2>1. Told(<<>>) \subseteq DOMAIN run.node
    BY DEF Told
  <2>2. \A n \in Told(<<>>) : \E i \in DOMAIN events : events[i] = StatusEvent(<<>>, n)
    BY <1>6 DEF TreeInv, Tells, NodesSaid, Phase
  <2>3. \A n, i : i \in DOMAIN events /\ events[i] = StatusEvent(<<>>, n) => n \in Told(<<>>)
    <3>1. \A n : StatusEvent(<<>>, n).type \in NodeEvents /\ StatusEvent(<<>>, n).node = n
      BY DEF StatusEvent, Event, NodeEvents
    <3> QED
      BY <1>4, <3>1
  <2> QED
    BY <2>1, <2>2, <2>3
<1> QED
  BY <1>1, <1>3, <1>4, <1>5, <1>6 DEF OutcomeTold, Told, Node, NodeEvents

(* What has ended is told, and is over (OutcomeTold), whatever workflows   *)
(* include each other, however deep, however many posts are lost, and      *)
(* whatever workers that were given up on publish afterwards: an execution *)
(* reports its end only when it awaits no node and no descendant can still *)
(* act, save below one that left its children, and the run's log says of   *)
(* it and of its nodes what is true.  What children the run has to cancel, *)
(* and what their posts come to, is in the induction: an execution that is *)
(* not closed has a node of its parent waiting for it, and what may still  *)
(* be published says nothing about how the run or a node of it ended that  *)
(* is not true.                                                            *)
THEOREM EndsAreTold == TreeSpec => []OutcomeTold
<1>1. ASSUME TreeInv, UNCHANGED treeVars
      PROVE  TreeInv'
  <2>1. exec' = exec /\ events' = events /\ adrift' = adrift /\ lost' = lost
    BY <1>1 DEF treeVars
  <2>2. TreeTypes'
    BY <1>1, <2>1 DEF TreeInv, TreeTypes
  <2>3. Awaited' /\ Closing'
    BY <1>1, <2>1, SameExecutions DEF TreeInv
  <2>4. Calm
    BY <1>1, <2>1 DEF TreeInv, TreeTypes, Calm, CalmLog, Phase
  <2> QED
    BY <1>1, <2>2, <2>3, <2>4, CalmTells DEF TreeInv
<1>2. TreeInv /\ [TreeNext]_treeVars => TreeInv'
  BY <1>1, TreeStep
<1> QED
  BY <1>2, TreeStarts, TreeInvTells, PTL DEF TreeSpec
=============================================================================
