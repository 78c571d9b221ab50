------------------------------- MODULE Recorder -------------------------------
(***************************************************************************)
(* The data path of one cluster's event recorder                           *)
(* (internal/history/recorder.go): the streams that list and watch the     *)
(* Kubernetes Event API, the bounded channel of write items, the writer    *)
(* that batches rows and resume points, and the SQLite tables it fills.    *)
(*                                                                         *)
(* A Kubernetes Event object is known by its uid.  The API server's        *)
(* history is `log': entry i is the change with resourceVersion i.  A row  *)
(* is the version (resourceVersion) of an event that it carries; count and *)
(* last_seen grow with it.  The coverage sessions, the recorder's status   *)
(* and its clock are in RecorderCoverage.                                  *)
(***************************************************************************)
EXTENDS Integers, Sequences, FiniteSets

CONSTANTS
    Uids,           \* Event objects that may come to exist
    Namespaces,     \* the cluster's namespaces
    Cluster,        \* the stream of the whole cluster (namespace "" in the code)
    NsOf,           \* the namespace of each event
    Warnings,       \* the events of type Warning
    Apis,           \* the API versions the probe may settle on
    QueueCap,       \* capacity of the write channel (4096)
    FlushRows,      \* batch size that triggers a flush (500)
    MaxPendingRows, \* backlog bound while the database rejects writes (50000)
    MaxRV,          \* bound: changes the API server makes
    MaxFaults,      \* bound: crashes, stops, broken streams and rejected writes
    MaxReplans      \* bound: clock jumps and permissions lost while a plan runs

Streams == Namespaces \cup {Cluster}

ASSUME RecorderAssumption ==
    /\ Cluster \notin Namespaces
    /\ NsOf \in [Uids -> Namespaces]
    /\ Warnings \subseteq Uids
    /\ Apis # {}
    /\ QueueCap \in Nat \ {0}
    /\ FlushRows \in Nat \ {0}
    /\ MaxPendingRows \in Nat
    /\ MaxRV \in Nat
    /\ MaxFaults \in Nat
    /\ MaxReplans \in Nat

VARIABLES
    log,       \* API server: the changes made, by resourceVersion
    obj,       \* API server: version of each event it still holds, 0 if none
    compacted, \* API server: watches from before this resourceVersion expire
    run,       \* Recorder.Run: "down", "probe", "plan" or "closing"
    cancel,    \* why the plan's context was cancelled: "none", "resync", "stop"
    api,       \* plan.api
    plan,      \* plan.namespaces
    pc,        \* where each stream is
    rv,        \* each stream's rv variable
    todo,      \* rows a listing has still to enqueue (version, 0 if none)
    queue,     \* r.writes
    rows,      \* the writer's pending rows (version, 0 if none)
    states,    \* the writer's pending resume points (Absent if none)
    lastFlush, \* how the writer's last flush went (failing in the code): "ok", "failed"
    stored,    \* table events: version stored for each event, 0 if none
    saved,     \* table watch_state (Absent if no row)
    excused,   \* ghost: changes the recorder could not or chose not to store
    dropped,   \* ghost: changes lost with a backlog the writer gave up on
    faults,    \* faults so far
    replans    \* clock jumps and denials so far

apiVars    == <<log, obj, compacted>>
streamVars == <<run, cancel, api, plan, pc, rv, todo>>
writerVars == <<queue, rows, states, lastFlush>>
storeVars  == <<stored, saved>>
ghostVars  == <<excused, dropped>>
bounds     == <<faults, replans>>
vars == <<log, obj, compacted, run, cancel, api, plan, pc, rv, todo, queue, rows,
          states, lastFlush, stored, saved, excused, dropped, faults, replans>>

-------------------------------------------------------------------------------
\* A stream sees the events of its namespace; the cluster-wide one sees all.
Sees(s, u) == s = Cluster \/ NsOf[u] = s

Entry     == [uid : Uids, op : {"put", "del"}]
RowItem   == [kind : {"row"}, uid : Uids, ver : Nat \ {0}]
StateItem == [kind : {"state"}, stream : Streams, api : Apis, rv : Nat]
Absent    == -1   \* the resourceVersion of a resume point that is not there
Point     == [api : Apis, rv : Nat \cup {Absent}]

\* The changes to events that stream s must have handed over to be at point r.
Claimed(s, r) == {i \in 1..Len(log) : i <= r /\ log[i].op = "put" /\ Sees(s, log[i].uid)}

NoRows   == [u \in Uids |-> 0]
NoPoint  == [api |-> CHOOSE a \in Apis : TRUE, rv |-> Absent]
NoStates == [s \in Streams |-> NoPoint]
Idle     == [s \in Streams |-> "idle"]

Row(u, v)         == [kind |-> "row", uid |-> u, ver |-> v]
State(s, a, r)    == [kind |-> "state", stream |-> s, api |-> a, rv |-> r]
Pending(r)        == {u \in Uids : r[u] # 0}
Queued(u)         == {k \in 1..Len(queue) : queue[k].kind = "row" /\ queue[k].uid = u}
CanEnqueue        == Len(queue) < QueueCap

\* Change i is in the store, in the writer's batch or on its way to it.
Secured(i) ==
    LET u == log[i].uid IN
    \/ stored[u] >= i
    \/ rows[u] >= i
    \/ \E k \in Queued(u) : queue[k].ver >= i

Init ==
    /\ log = <<>> /\ obj = NoRows /\ compacted = 0
    /\ run = "down" /\ cancel = "none" /\ api = NoPoint.api /\ plan = {}
    /\ pc = Idle /\ rv = [s \in Streams |-> 0] /\ todo = [s \in Streams |-> NoRows]
    /\ queue = <<>> /\ rows = NoRows /\ states = NoStates /\ lastFlush = "ok"
    /\ stored = NoRows /\ saved = NoStates
    /\ excused = {} /\ dropped = {} /\ faults = 0 /\ replans = 0

-------------------------------------------------------------------------------
(* The API server: an event is created or updated (its series count grows), *)
(* expires, and old history is compacted.  A uid is never used again.      *)

ApiPut(u) ==
    /\ Len(log) < MaxRV
    /\ \A i \in 1..Len(log) : log[i] # [uid |-> u, op |-> "del"]
    /\ log' = Append(log, [uid |-> u, op |-> "put"])
    /\ obj' = [obj EXCEPT ![u] = Len(log) + 1]
    /\ UNCHANGED <<compacted, streamVars, writerVars, storeVars, ghostVars, bounds>>

ApiDelete(u) ==
    /\ Len(log) < MaxRV /\ obj[u] # 0
    /\ log' = Append(log, [uid |-> u, op |-> "del"])
    /\ obj' = [obj EXCEPT ![u] = 0]
    /\ UNCHANGED <<compacted, streamVars, writerVars, storeVars, ghostVars, bounds>>

ApiCompact ==
    /\ compacted < Len(log)
    /\ compacted' = Len(log)
    /\ UNCHANGED <<log, obj, streamVars, writerVars, storeVars, ghostVars, bounds>>

-------------------------------------------------------------------------------
(* Run, probe and runPlan.                                                 *)

\* The manager starts a recorder: a fresh channel and writer.
Start ==
    /\ run = "down"
    /\ run' = "probe"
    /\ UNCHANGED <<apiVars, cancel, api, plan, pc, rv, todo, writerVars, storeVars, ghostVars, bounds>>

\* probe settles on an API and on the cluster or the namespaces it may list;
\* runPlan starts one stream for each.
Probe(a, p) ==
    /\ run = "probe" /\ cancel = "none"
    /\ run' = "plan" /\ api' = a /\ plan' = p
    /\ pc' = [s \in Streams |-> IF s \in p THEN "load" ELSE "idle"]
    /\ UNCHANGED <<apiVars, cancel, rv, todo, writerVars, storeVars, ghostVars, bounds>>

\* A clock jump: runPlan cancels every stream of the plan.
Resync ==
    /\ run = "plan" /\ cancel = "none" /\ replans < MaxReplans
    /\ cancel' = "resync" /\ replans' = replans + 1
    /\ UNCHANGED <<apiVars, run, api, plan, pc, rv, todo, writerVars, storeVars, ghostVars, faults>>

\* Run's context ends (halt in the manager).
Stop ==
    /\ run \in {"probe", "plan"} /\ cancel # "stop" /\ faults < MaxFaults
    /\ cancel' = "stop" /\ faults' = faults + 1
    /\ UNCHANGED <<apiVars, run, api, plan, pc, rv, todo, writerVars, storeVars, ghostVars, replans>>
\* Mutant of Calling: the watch loop does not select on ctx.Done.
CallingDeafWatch(s) ==
    \/ pc[s] \in {"list", "open"}
    \/ pc[s] = "rows" /\ todo[s] # NoRows

\* The stream is in a call to the API: between the pages of a listing, opening
\* a watch or reading from it.  Enqueuing a row or a resume point is no such call.
Calling(s) ==
    \/ pc[s] \in {"list", "open", "watching"}
    \/ pc[s] = "rows" /\ todo[s] # NoRows

\* A stream returns nil once its context is cancelled, wherever it next looks.
StreamStop(s) ==
    /\ cancel # "none" /\ (pc[s] = "load" \/ Calling(s))
    /\ pc' = [pc EXCEPT ![s] = "stopped"]
    /\ todo' = [todo EXCEPT ![s] = NoRows]
    /\ UNCHANGED <<apiVars, run, cancel, api, plan, rv, writerVars, storeVars, ghostVars, bounds>>

\* A stream returns the permission error (RBAC changed under it).
StreamDenied(s) ==
    /\ Calling(s) /\ replans < MaxReplans
    /\ pc' = [pc EXCEPT ![s] = "denied"]
    /\ todo' = [todo EXCEPT ![s] = NoRows]
    /\ replans' = replans + 1
    /\ UNCHANGED <<apiVars, run, cancel, api, plan, rv, writerVars, storeVars, ghostVars, faults>>

\* Every stream has returned: runPlan does, and Run probes again (after
\* DeniedRetry if they were all denied) unless its own context has ended.
PlanEnd ==
    /\ run = "plan" /\ \A s \in plan : pc[s] \in {"stopped", "denied"}
    /\ cancel # "stop"
    /\ run' = "probe" /\ cancel' = "none" /\ plan' = {} /\ pc' = Idle
    /\ rv' = [s \in Streams |-> 0]
    /\ UNCHANGED <<apiVars, api, todo, writerVars, storeVars, ghostVars, bounds>>

\* Run leaves its loop and closes the channel.
RunExit ==
    /\ cancel = "stop"
    /\ run = "probe" \/ (run = "plan" /\ \A s \in plan : pc[s] \in {"stopped", "denied"})
    /\ run' = "closing" /\ cancel' = "none" /\ plan' = {} /\ pc' = Idle
    /\ rv' = [s \in Streams |-> 0]
    /\ UNCHANGED <<apiVars, api, todo, writerVars, storeVars, ghostVars, bounds>>

-------------------------------------------------------------------------------
(* stream, relist and watch.                                               *)
\* stream resumes from the stored resume point if it is for this API, and
\* lists otherwise, or when the point cannot be read.
StreamLoad(s) ==
    /\ pc[s] = "load"
    /\ \/ /\ saved[s].rv # Absent /\ saved[s].api = api
          /\ pc' = [pc EXCEPT ![s] = "open"]
          /\ rv' = [rv EXCEPT ![s] = saved[s].rv]
          /\ UNCHANGED faults
       \/ /\ saved[s].rv = Absent \/ saved[s].api # api
          /\ pc' = [pc EXCEPT ![s] = "list"]
          /\ UNCHANGED <<rv, faults>>
       \/ /\ saved[s].rv # Absent /\ faults < MaxFaults
          /\ pc' = [pc EXCEPT ![s] = "list"]
          /\ faults' = faults + 1
          /\ UNCHANGED rv
    /\ UNCHANGED <<apiVars, run, cancel, api, plan, todo, writerVars, storeVars, ghostVars, replans>>

\* relist: the API answers with what it holds now.  A change to an event that
\* has expired meanwhile can no longer be had, unless it was received before.
Relist(s) ==
    /\ pc[s] = "list"
    /\ pc' = [pc EXCEPT ![s] = "rows"]
    /\ rv' = [rv EXCEPT ![s] = Len(log)]
    /\ todo' = [todo EXCEPT ![s] = [u \in Uids |-> IF Sees(s, u) THEN obj[u] ELSE 0]]
    /\ excused' = excused \cup
         {i \in Claimed(s, Len(log)) : obj[log[i].uid] = 0 /\ ~Secured(i)}
    /\ UNCHANGED <<apiVars, run, cancel, api, plan, writerVars, storeVars, dropped, bounds>>

ListRow(s, u) ==
    /\ pc[s] = "rows" /\ todo[s][u] # 0 /\ CanEnqueue
    /\ queue' = Append(queue, Row(u, todo[s][u]))
    /\ todo' = [todo EXCEPT ![s][u] = 0]
    /\ UNCHANGED <<apiVars, run, cancel, api, plan, pc, rv, rows, states, lastFlush, storeVars, ghostVars, bounds>>

\* A later page of the listing fails: stream backs off and lists again.
ListFail(s) ==
    /\ pc[s] = "rows" /\ todo[s] # NoRows /\ faults < MaxFaults
    /\ pc' = [pc EXCEPT ![s] = "list"]
    /\ todo' = [todo EXCEPT ![s] = NoRows]
    /\ rv' = [rv EXCEPT ![s] = 0]
    /\ faults' = faults + 1
    /\ UNCHANGED <<apiVars, run, cancel, api, plan, writerVars, storeVars, ghostVars, replans>>
\* saveRV, at the end of a listing and after every change a watch delivers.
SaveRV(s) ==
    /\ pc[s] = "save" \/ (pc[s] = "rows" /\ todo[s] = NoRows)
    /\ CanEnqueue
    /\ queue' = Append(queue, State(s, api, rv[s]))
    /\ pc' = [pc EXCEPT ![s] = IF pc[s] = "rows" THEN "open" ELSE "watching"]
    /\ UNCHANGED <<apiVars, run, cancel, api, plan, rv, todo, rows, states, lastFlush, storeVars, ghostVars, bounds>>

WatchOpen(s) ==
    /\ pc[s] = "open" /\ rv[s] >= compacted
    /\ pc' = [pc EXCEPT ![s] = "watching"]
    /\ UNCHANGED <<apiVars, run, cancel, api, plan, rv, todo, writerVars, storeVars, ghostVars, bounds>>
\* Mutant of WatchExpired: the watch restarts from now instead of listing.
WatchExpiredFromNow(s) ==
    /\ pc[s] \in {"open", "watching"} /\ rv[s] < compacted
    /\ pc' = [pc EXCEPT ![s] = "open"]
    /\ rv' = [rv EXCEPT ![s] = Len(log)]
    /\ UNCHANGED <<apiVars, run, cancel, api, plan, todo, writerVars, storeVars, ghostVars, bounds>>

\* 410: the resume point was compacted away, so the stream lists again.
WatchExpired(s) ==
    /\ pc[s] \in {"open", "watching"} /\ rv[s] < compacted
    /\ pc' = [pc EXCEPT ![s] = "list"]
    /\ rv' = [rv EXCEPT ![s] = 0]
    /\ UNCHANGED <<apiVars, run, cancel, api, plan, todo, writerVars, storeVars, ghostVars, bounds>>

\* The watch closes or reports another error: the stream reopens it from rv.
WatchBreak(s) ==
    /\ pc[s] = "watching" /\ faults < MaxFaults
    /\ pc' = [pc EXCEPT ![s] = "open"]
    /\ faults' = faults + 1
    /\ UNCHANGED <<apiVars, run, cancel, api, plan, rv, todo, writerVars, storeVars, ghostVars, replans>>

\* The watch delivers change i, the first after rv that the stream sees.
Next1(s, i) ==
    /\ i > rv[s] /\ Sees(s, log[i].uid)
    /\ \A j \in 1..Len(log) : rv[s] < j /\ j < i => ~Sees(s, log[j].uid)

\* Added or Modified: the row is enqueued and its resume point after it.  While
\* the volume guard keeps Warnings only, any other row is left out.
WatchPut(s, i, warningsOnly) ==
    /\ pc[s] = "watching" /\ Next1(s, i) /\ log[i].op = "put"
    /\ rv' = [rv EXCEPT ![s] = i]
    /\ pc' = [pc EXCEPT ![s] = "save"]
    /\ IF warningsOnly /\ log[i].uid \notin Warnings
       THEN /\ excused' = IF Secured(i) THEN excused ELSE excused \cup {i}
            /\ UNCHANGED queue
       ELSE /\ CanEnqueue
            /\ queue' = Append(queue, Row(log[i].uid, i))
            /\ UNCHANGED excused
    /\ UNCHANGED <<apiVars, run, cancel, api, plan, todo, rows, states, lastFlush, storeVars, dropped, bounds>>

\* Deleted: the event expired on the server; history keeps it.
WatchDelete(s, i) ==
    /\ pc[s] = "watching" /\ Next1(s, i) /\ log[i].op = "del"
    /\ rv' = [rv EXCEPT ![s] = i]
    /\ UNCHANGED <<apiVars, run, cancel, api, plan, pc, todo, writerVars, storeVars, ghostVars, bounds>>

\* Bookmark: nothing the stream sees has happened up to the server's head.
WatchBookmark(s) ==
    /\ pc[s] = "watching" /\ rv[s] < Len(log)
    /\ \A j \in 1..Len(log) : rv[s] < j => ~Sees(s, log[j].uid)
    /\ rv' = [rv EXCEPT ![s] = Len(log)]
    /\ pc' = [pc EXCEPT ![s] = "save"]
    /\ UNCHANGED <<apiVars, run, cancel, api, plan, todo, writerVars, storeVars, ghostVars, bounds>>

-------------------------------------------------------------------------------
(* writer and Store.WriteBatch.                                            *)
\* Mutant of Upsert: the row replaces what is stored.
UpsertOverwrites(r) == [u \in Uids |-> IF r[u] # 0 THEN r[u] ELSE stored[u]]

\* WriteBatch upserts: a row never takes an event back to an older version.
Upsert(r) == [u \in Uids |-> IF r[u] > stored[u] THEN r[u] ELSE stored[u]]
SavePoints(st) == [s \in Streams |-> IF st[s].rv # Absent THEN st[s] ELSE saved[s]]

\* The changes of the events in a backlog that no earlier batch has stored.
Backlog(r) == {i \in 1..Len(log) : /\ log[i].op = "put"
                                   /\ r[log[i].uid] # 0 /\ stored[log[i].uid] < i}

\* The batch is committed, rows and resume points in one transaction.
FlushOK(r, st) ==
    /\ stored' = Upsert(r) /\ saved' = SavePoints(st)
    /\ rows' = NoRows /\ states' = NoStates /\ lastFlush' = "ok"
    /\ UNCHANGED <<dropped, faults>>
\* Mutant of FlushFail: the rejected rows are dropped, the resume points kept.
FlushFailForgets(r, st) ==
    /\ faults < MaxFaults /\ faults' = faults + 1
    /\ lastFlush' = "failed"
    /\ rows' = NoRows /\ states' = st
    /\ UNCHANGED <<storeVars, dropped>>

\* The batch is rejected and stays pending, unless the backlog is too large.
FlushFail(r, st) ==
    /\ faults < MaxFaults /\ faults' = faults + 1
    /\ lastFlush' = "failed"
    /\ IF Cardinality(Pending(r)) > MaxPendingRows
       THEN rows' = NoRows /\ states' = NoStates /\ dropped' = dropped \cup Backlog(r)
       ELSE rows' = r /\ states' = st /\ UNCHANGED dropped
    /\ UNCHANGED storeVars

Flush(r, st) == FlushOK(r, st) \/ FlushFail(r, st)

\* The writer takes an item into its batch and flushes a full one, unless the
\* database is failing: then only the ticker retries.
WriterTake ==
    /\ run # "down" /\ queue # <<>>
    /\ LET it == Head(queue)
           r  == IF it.kind = "row" THEN [rows EXCEPT ![it.uid] = it.ver] ELSE rows
           st == IF it.kind = "state"
                 THEN [states EXCEPT ![it.stream] = [api |-> it.api, rv |-> it.rv]]
                 ELSE states
       IN  IF Cardinality(Pending(r)) >= FlushRows /\ lastFlush = "ok"
           THEN Flush(r, st)
           ELSE /\ rows' = r /\ states' = st
                /\ UNCHANGED <<lastFlush, storeVars, dropped, faults>>
    /\ queue' = Tail(queue)
    /\ UNCHANGED <<apiVars, streamVars, excused, replans>>
\* Mutant of WriterTick: nothing retries once the database has failed.
WriterTickNoRetry ==
    /\ run # "down" /\ (rows # NoRows \/ states # NoStates) /\ lastFlush = "ok"
    /\ Flush(rows, states)
    /\ UNCHANGED <<apiVars, streamVars, queue, excused, replans>>

WriterTick ==
    /\ run # "down" /\ (rows # NoRows \/ states # NoStates)
    /\ Flush(rows, states)
    /\ UNCHANGED <<apiVars, streamVars, queue, excused, replans>>

\* The channel is closed and drained: one last flush, and Run returns.  What
\* that flush could not write is gone with the process.
WriterClose ==
    /\ run = "closing" /\ queue = <<>>
    /\ \/ stored' = Upsert(rows) /\ saved' = SavePoints(states) /\ UNCHANGED faults
       \/ /\ faults < MaxFaults /\ faults' = faults + 1
          /\ rows # NoRows \/ states # NoStates
          /\ UNCHANGED storeVars
    /\ run' = "down" /\ rows' = NoRows /\ states' = NoStates /\ lastFlush' = "ok"
    /\ UNCHANGED <<apiVars, cancel, api, plan, pc, rv, todo, queue, ghostVars, replans>>

\* The process dies: only the database survives.
Crash ==
    /\ run # "down" /\ faults < MaxFaults
    /\ faults' = faults + 1
    /\ run' = "down" /\ cancel' = "none" /\ plan' = {} /\ pc' = Idle
    /\ rv' = [s \in Streams |-> 0] /\ todo' = [s \in Streams |-> NoRows]
    /\ queue' = <<>> /\ rows' = NoRows /\ states' = NoStates /\ lastFlush' = "ok"
    /\ UNCHANGED <<apiVars, api, storeVars, ghostVars, replans>>

-------------------------------------------------------------------------------
Plans == {{Cluster}} \cup ((SUBSET Namespaces) \ {{}})

ApiStep == (\E u \in Uids : ApiPut(u) \/ ApiDelete(u)) \/ ApiCompact

StreamStep(s) ==
    \/ StreamStop(s) \/ StreamDenied(s) \/ StreamLoad(s)
    \/ Relist(s) \/ ListFail(s) \/ SaveRV(s)
    \/ \E u \in Uids : ListRow(s, u)
    \/ WatchOpen(s) \/ WatchExpired(s) \/ WatchBreak(s) \/ WatchBookmark(s)
    \/ \E i \in 1..Len(log) :
          WatchDelete(s, i) \/ \E w \in BOOLEAN : WatchPut(s, i, w)

RunStep ==
    \/ Start \/ Resync \/ Stop \/ PlanEnd \/ RunExit \/ Crash
    \/ \E a \in Apis, p \in Plans : Probe(a, p)

WriterStep == WriterTake \/ WriterTick \/ WriterClose

Next == ApiStep \/ RunStep \/ WriterStep \/ \E s \in Streams : StreamStep(s)

Spec == Init /\ [][Next]_vars

\* The steps a stream takes while the API answers.
StreamProgress(s) ==
    \/ StreamStop(s) \/ StreamLoad(s) \/ Relist(s) \/ SaveRV(s)
    \/ \E u \in Uids : ListRow(s, u)
    \/ WatchOpen(s) \/ WatchExpired(s)
    \/ \E i \in 1..Len(log) :
          WatchDelete(s, i) \/ \E w \in BOOLEAN : WatchPut(s, i, w)

-------------------------------------------------------------------------------
(* Properties.                                                             *)

Places == {"idle", "load", "list", "rows", "save", "open", "watching", "stopped", "denied"}

ApiTypeOK == log \in Seq(Entry) /\ obj \in [Uids -> Nat] /\ compacted \in Nat

StreamTypeOK ==
    /\ run \in {"down", "probe", "plan", "closing"}
    /\ cancel \in {"none", "resync", "stop"}
    /\ api \in Apis /\ plan \in SUBSET Streams
    /\ pc \in [Streams -> Places] /\ rv \in [Streams -> Nat]
    /\ todo \in [Streams -> [Uids -> Nat]]

WriterTypeOK ==
    /\ queue \in Seq(RowItem \cup StateItem)
    /\ rows \in [Uids -> Nat] /\ states \in [Streams -> Point] /\ lastFlush \in {"ok", "failed"}

StoreTypeOK == stored \in [Uids -> Nat] /\ saved \in [Streams -> Point]

CountTypeOK ==
    excused \in SUBSET Nat /\ dropped \in SUBSET Nat /\ faults \in Nat /\ replans \in Nat

TypeOK == ApiTypeOK /\ StreamTypeOK /\ WriterTypeOK /\ StoreTypeOK /\ CountTypeOK

\* The resume point in the database never runs ahead of the events it covers:
\* an event that the API announced by then is stored, unless it had expired
\* before a listing, was left out by the volume guard, or went with a backlog
\* the writer gave up on.  Whatever crashes, stops, resyncs and rejected writes
\* came before (writer, WriteBatch, saveRV).
ResumePointCovers ==
    \A s \in Streams : \A i \in Claimed(s, saved[s].rv) :
        stored[log[i].uid] # 0 \/ i \in excused \cup dropped

\* The inductive form of ResumePointCovers.  A resume point on its way to the
\* database is never ahead of the rows on their way: what the writer's pending
\* point passes is stored or in the same batch, what a queued point passes is
\* also queued before it, and what a stream's own rv passes is queued or still
\* to be enqueued by its listing.
Settled(i) == stored[log[i].uid] # 0 \/ i \in excused \cup dropped
Batched(i) == Settled(i) \/ rows[log[i].uid] # 0
RowBefore(k, u) == \E j \in 1..Len(queue) : j < k /\ queue[j].kind = "row" /\ queue[j].uid = u

BatchCovers == \A s \in Streams : \A i \in Claimed(s, states[s].rv) : Batched(i)
QueueCovers ==
    \A k \in 1..Len(queue) : queue[k].kind = "state" =>
        \A i \in Claimed(queue[k].stream, queue[k].rv) :
            Batched(i) \/ RowBefore(k, log[i].uid)
StreamCovered(s) ==
    pc[s] \in {"rows", "save", "open", "watching"} =>
        \A i \in Claimed(s, rv[s]) :
            \/ Batched(i) \/ RowBefore(Len(queue) + 1, log[i].uid)
            \/ pc[s] = "rows" /\ todo[s][log[i].uid] # 0
StreamCovers == \A s \in Streams : StreamCovered(s)
\* No resume point is from the future.
PointsPast ==
    /\ \A s \in Streams : rv[s] <= Len(log) /\ states[s].rv <= Len(log) /\ saved[s].rv <= Len(log)
    /\ \A k \in 1..Len(queue) : queue[k].kind = "state" => queue[k].rv <= Len(log)

PipelineCovers ==
    ResumePointCovers /\ BatchCovers /\ QueueCovers /\ StreamCovers /\ PointsPast

\* The same of every version: the stored row is at least as new as the last
\* update the resume point has passed (its count, series count and last_seen).
ResumePointExact ==
    \A s \in Streams : \A i \in Claimed(s, saved[s].rv) :
        stored[log[i].uid] >= i \/ i \in excused \cup dropped

\* A plan started again replays rows over newer ones that still wait in the batch
\* (ResumePointExact does not survive it); up to then the stored rows are exact,
\* whatever crashes, expires or is refused.
PointExactWithinPlan == replans = 0 => ResumePointExact

\* Replayed rows (a relist, a watch resumed from an older point) never take a
\* stored event back to an older version (the MAX of the upsert).
StoredNeverRegresses == [][\A u \in Uids : stored'[u] >= stored[u]]_vars

\* Every event the API announces is in the end stored, or accounted for: no
\* stream, channel or writer waits for ever on another, a denied plan is probed
\* again, and a crash or a restart recovers from the resume point.
EveryEventSettles ==
    \A i \in 1..MaxRV :
        (i <= Len(log) /\ log[i].op = "put")
            ~> (i <= Len(log) /\ (stored[log[i].uid] # 0 \/ i \in excused \cup dropped))

\* A stopped recorder returns, even with the channel full and the database
\* rejecting writes: halt in the manager waits for it.
StopReturns == (cancel = "stop") ~> (run = "down")
===============================================================================
