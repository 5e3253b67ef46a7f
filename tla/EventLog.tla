------------------------------ MODULE EventLog ------------------------------
(***************************************************************************)
(* The event log of one run: emit_event (apps/api/app/main.py) over        *)
(* PostgresStore.append_event, and the clients of GET /runs/{id}/events    *)
(* that follow it by cursor (stream_run_events over get_events).           *)
(*                                                                         *)
(* An append is one INSERT in a transaction of its own: the BIGSERIAL id   *)
(* is drawn when the statement executes, the row is visible from the       *)
(* commit, and handlers run on different connections of the pool.  An      *)
(* event is identified by its id; its content is the writer's.             *)
(***************************************************************************)
EXTENDS Naturals, Sequences, SequencesExt, FiniteSetsExt

CONSTANTS
    Writers,      \* calls of emit_event
    Keys, NoKey,  \* event keys, and none
    Clients,      \* followers of the stream
    PageSize,     \* events per tick (200)
    MaxIdle,      \* idle ticks before the stream closes (300)
    MaxDrops      \* bound: connections lost per client

ASSUME LogAssumption == /\ NoKey \notin Keys
                        /\ {PageSize, MaxIdle} \subseteq Nat \ {0}
                        /\ MaxDrops \in Nat

VARIABLES
    key,        \* the event key each writer appends under
    append,     \* the writer's INSERT
    id,         \* the id it drew, then the id of the event it returned
    next,       \* the sequence run_events_id_seq
    log,        \* committed rows, as writers
    late,       \* auxiliary: rows committed after a row with a higher id
    stream,     \* each client's connection
    cursor,     \* the generator's cursor
    page,       \* fetched events not yielded yet
    idle,       \* idle_ticks
    received,   \* ids the client has received, over all its connections
    drops

vars == <<key, append, id, next, log, late, stream, cursor, page, idle, received, drops>>
writerVars == <<key, append, id, next, log, late>>
clientVars == <<stream, cursor, page, idle, received, drops>>

(* Rows are writers, ids are drawn from the sequence. *)
TypeOK ==
    /\ key \in [Writers -> Keys \cup {NoKey}]
    /\ append \in [Writers -> {"new", "inserted", "selecting", "done", "aborted"}]
    /\ id \in [Writers -> 0 .. next]
    /\ next \in Nat
    /\ late \subseteq log /\ log \subseteq Writers
    /\ stream \in [Clients -> {"open", "closed"}]
    /\ cursor \in [Clients -> 0 .. next]
    /\ page \in [Clients -> Seq(Nat)]
    /\ \A c \in Clients : Len(page[c]) <= PageSize
    /\ idle \in [Clients -> 0 .. MaxIdle]
    /\ received \in [Clients -> Seq(Nat)]
    /\ drops \in [Clients -> 0 .. MaxDrops]

Visible == {id[w] : w \in log}

Init ==
    /\ key \in [Writers -> Keys \cup {NoKey}]
    /\ append = [w \in Writers |-> "new"]
    /\ id = [w \in Writers |-> 0]
    /\ next = 0
    /\ log = {}
    /\ late = {}
    /\ stream = [c \in Clients |-> "open"]
    /\ cursor = [c \in Clients |-> 0]
    /\ page = [c \in Clients |-> <<>>]
    /\ idle = [c \in Clients |-> 0]
    /\ received = [c \in Clients |-> <<>>]
    /\ drops = [c \in Clients |-> 0]

-----------------------------------------------------------------------------
(* append_event. *)

SameKey(w) == {x \in Writers \ {w} : key[w] # NoKey /\ key[x] = key[w]}

(* The INSERT takes the next id, whether or not it keeps its row. *)
Draw(w) == next' = next + 1 /\ id' = [id EXCEPT ![w] = next']

(* Mutant: the unique index over (run_id, event_key) is missing.           *)
InsertAlways(w) ==
    /\ append[w] = "new"
    /\ append' = [append EXCEPT ![w] = "inserted"]
    /\ Draw(w)
    /\ UNCHANGED <<key, log, late, clientVars>>

(* No row has the event's key.  An INSERT under the same key that has not  *)
(* committed yet blocks this one until it is decided.                      *)
Insert(w) ==
    /\ append[w] = "new"
    /\ \A x \in SameKey(w) : x \notin log /\ append[x] # "inserted"
    /\ append' = [append EXCEPT ![w] = "inserted"]
    /\ Draw(w)
    /\ UNCHANGED <<key, log, late, clientVars>>

(* ON CONFLICT DO NOTHING: nothing is returned. *)
Conflict(w) ==
    /\ append[w] = "new"
    /\ SameKey(w) \cap log # {}
    /\ append' = [append EXCEPT ![w] = "selecting"]
    /\ Draw(w)
    /\ UNCHANGED <<key, log, late, clientVars>>

Commit(w) ==
    /\ append[w] = "inserted"
    /\ append' = [append EXCEPT ![w] = "done"]
    /\ log' = log \cup {w}
    /\ late' = IF \E x \in log : id[x] > id[w] THEN late \cup {w} ELSE late
    /\ UNCHANGED <<key, id, next, clientVars>>

(* The connection is lost before the commit: emit_event raises. *)
Abort(w) ==
    /\ append[w] = "inserted"
    /\ append' = [append EXCEPT ![w] = "aborted"]
    /\ UNCHANGED <<key, id, next, log, late, clientVars>>

(* The event already stored under the key is returned. *)
Select(w) ==
    /\ append[w] = "selecting"
    /\ append' = [append EXCEPT ![w] = "done"]
    /\ id' = [id EXCEPT ![w] = Max({id[x] : x \in SameKey(w) \cap log})]
    /\ UNCHANGED <<key, next, log, late, clientVars>>

-----------------------------------------------------------------------------
(* stream_run_events. *)

(* Mutant: WHERE id >= $2.                                                 *)
AfterOrAt(c) == {i \in Visible : i >= cursor[c]}

(* get_events: WHERE id > cursor (every row, when there is no cursor). *)
After(c) == {i \in Visible : i > cursor[c]}

(* ORDER BY id ASC LIMIT PageSize: the smallest of the ids, in order. *)
Ascending(s) == \A i, j \in DOMAIN s : i < j => s[i] < s[j]

Pages(ids) ==
    {s \in UNION {[1 .. k -> ids] : k \in 1 .. PageSize} :
        /\ Ascending(s)
        /\ \A x \in ids \ ToSet(s) : Len(s) = PageSize /\ Last(s) < x}

(* The next page. *)
Fetch(c) ==
    /\ stream[c] = "open"
    /\ page[c] = <<>>
    /\ After(c) # {}
    /\ \E rows \in Pages(After(c)) : page' = [page EXCEPT ![c] = rows]
    /\ UNCHANGED <<writerVars, stream, cursor, idle, received, drops>>

(* One frame; after the last one of the page the cursor moves to it. *)
Yield(c) ==
    /\ stream[c] = "open"
    /\ page[c] # <<>>
    /\ received' = [received EXCEPT ![c] = Append(@, Head(page[c]))]
    /\ page' = [page EXCEPT ![c] = Tail(@)]
    /\ IF Len(page[c]) = 1
       THEN /\ cursor' = [cursor EXCEPT ![c] = Head(page[c])]
            /\ idle' = [idle EXCEPT ![c] = 0]
       ELSE UNCHANGED <<cursor, idle>>
    /\ UNCHANGED <<writerVars, stream, drops>>

(* Nothing new; the generator ends after MaxIdle such ticks in a row. *)
Idle(c) ==
    /\ stream[c] = "open"
    /\ page[c] = <<>>
    /\ After(c) = {}
    /\ idle' = [idle EXCEPT ![c] = @ + 1]
    /\ stream' = [stream EXCEPT ![c] = IF idle'[c] < MaxIdle THEN "open" ELSE "closed"]
    /\ UNCHANGED <<writerVars, cursor, page, received, drops>>

(* The connection is lost, with the frames not delivered yet. *)
Drop(c) ==
    /\ stream[c] = "open"
    /\ drops[c] < MaxDrops
    /\ drops' = [drops EXCEPT ![c] = @ + 1]
    /\ stream' = [stream EXCEPT ![c] = "closed"]
    /\ page' = [page EXCEPT ![c] = <<>>]
    /\ UNCHANGED <<writerVars, cursor, idle, received>>

LastReceived(c) == IF received[c] = <<>> THEN 0 ELSE Last(received[c])

(* Mutant: the stream resumes at the end of the log.                       *)
ReconnectAtEnd(c) ==
    /\ stream[c] = "closed"
    /\ stream' = [stream EXCEPT ![c] = "open"]
    /\ cursor' = [cursor EXCEPT ![c] = Max(Visible \cup {0})]
    /\ idle' = [idle EXCEPT ![c] = 0]
    /\ UNCHANGED <<writerVars, page, received, drops>>

(* The client comes back with Last-Event-ID, the id of its last frame. *)
Reconnect(c) ==
    /\ stream[c] = "closed"
    /\ stream' = [stream EXCEPT ![c] = "open"]
    /\ cursor' = [cursor EXCEPT ![c] = LastReceived(c)]
    /\ idle' = [idle EXCEPT ![c] = 0]
    /\ UNCHANGED <<writerVars, page, received, drops>>

-----------------------------------------------------------------------------
Write(w) == Insert(w) \/ Conflict(w) \/ Commit(w) \/ Abort(w) \/ Select(w)

Follow(c) == Fetch(c) \/ Yield(c) \/ Reconnect(c)

Next == \/ \E w \in Writers : Write(w)
        \/ \E c \in Clients : Follow(c) \/ Idle(c) \/ Drop(c)

(* Transactions are decided, the generator is resumed, and the client      *)
(* reconnects whenever its stream is closed.                               *)
Fairness == /\ \A w \in Writers : WF_vars(Write(w))
            /\ \A c \in Clients : WF_vars(Follow(c))

Spec == Init /\ [][Next]_vars /\ Fairness

-----------------------------------------------------------------------------
(* An event key names one row, and every append under it returns that row, *)
(* however the appends interleave or roll back.                            *)
KeyedOnce ==
    \A w \in Writers : \A x \in SameKey(w) :
        append[w] = "done" /\ append[x] = "done" =>
            id[w] = id[x] /\ ~ {w, x} \subseteq log

(* A client receives frames in the order of their ids, none of them twice, *)
(* also over lost connections in the middle of a page.                     *)
ReceivedInOrder ==
    \A c \in Clients : \A i \in 2 .. Len(received[c]) : received[c][i - 1] < received[c][i]

(* A client has every event up to the last one it received, except rows    *)
(* that became visible after a row with a higher id.                       *)
NothingPassedOver ==
    \A c \in Clients : \A w \in log \ late :
        id[w] <= LastReceived(c) => id[w] \in ToSet(received[c])

(* Every event that was committed in order reaches every client.           *)
EventsArrive ==
    \A c \in Clients : <>[](\A w \in log \ late : id[w] \in ToSet(received[c]))
=============================================================================
