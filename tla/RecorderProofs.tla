---------------------------- MODULE RecorderProofs ----------------------------
(***************************************************************************)
(* Proofs about Recorder, for every set of events, namespaces and APIs and *)
(* every bound: the type invariant, and that the resume point in the       *)
(* database never passes an event that is neither stored nor accounted     *)
(* for, with its last update as long as no plan is started again.          *)
(***************************************************************************)
EXTENDS Recorder, TLAPS

\* The empty resume point is a resume point.
LEMMA NoPointType == NoPoint \in Point /\ NoPoint.api \in Apis /\ NoPoint.rv = Absent
  BY RecorderAssumption DEF NoPoint, Point, Absent

\* Initially every variable has its type.
LEMMA InitType == Init => TypeOK
  <1>. SUFFICES ASSUME Init PROVE TypeOK
    OBVIOUS
  <1>0. NoRows \in [Uids -> Nat] /\ NoStates \in [Streams -> Point]
    BY NoPointType DEF NoRows, NoStates
  <1>1. ApiTypeOK
    BY <1>0 DEF Init, ApiTypeOK
  <1>2. StreamTypeOK
    BY <1>0, NoPointType DEF Init, StreamTypeOK, Idle, Places
  <1>3. WriterTypeOK
    BY <1>0 DEF Init, WriterTypeOK
  <1>4. StoreTypeOK
    BY <1>0 DEF Init, StoreTypeOK
  <1>5. CountTypeOK
    BY DEF Init, CountTypeOK
  <1>. QED  BY <1>1, <1>2, <1>3, <1>4, <1>5 DEF TypeOK

\* An entry of the API server's log.
LEMMA LogEntry ==
  ASSUME TypeOK, NEW i \in 1..Len(log)
  PROVE  log[i].uid \in Uids /\ i \in Nat \ {0}
  <1>1. log[i] \in Entry
    BY DEF TypeOK, ApiTypeOK
  <1>. QED  BY <1>1 DEF Entry

\* A flush of a typed batch leaves the writer and the database typed.
LEMMA FlushType ==
  ASSUME TypeOK, NEW r \in [Uids -> Nat], NEW st \in [Streams -> Point], Flush(r, st)
  PROVE  /\ rows' \in [Uids -> Nat] /\ states' \in [Streams -> Point]
         /\ lastFlush' \in {"ok", "failed"}
         /\ stored' \in [Uids -> Nat] /\ saved' \in [Streams -> Point]
         /\ dropped' \in SUBSET Nat /\ faults' \in Nat
  <1>1. NoRows \in [Uids -> Nat] /\ NoStates \in [Streams -> Point]
    BY NoPointType DEF NoRows, NoStates
  <1>2. Upsert(r) \in [Uids -> Nat] /\ SavePoints(st) \in [Streams -> Point]
    BY DEF Upsert, SavePoints, TypeOK, StoreTypeOK
  <1>3. Backlog(r) \in SUBSET Nat
    BY DEF Backlog, TypeOK, ApiTypeOK
  <1>4. CASE FlushOK(r, st)
    BY <1>1, <1>2, <1>4 DEF FlushOK, TypeOK, CountTypeOK
  <1>5. CASE FlushFail(r, st)
    <2>1. \/ rows' = NoRows /\ states' = NoStates /\ dropped' = dropped \cup Backlog(r)
          \/ rows' = r /\ states' = st /\ dropped' = dropped
      BY <1>5 DEF FlushFail
    <2>2. lastFlush' = "failed" /\ stored' = stored /\ saved' = saved /\ faults' = faults + 1
      BY <1>5 DEF FlushFail, storeVars
    <2>3. rows' \in [Uids -> Nat] /\ states' \in [Streams -> Point]
      BY <1>1, <2>1
    <2>4. dropped' \in SUBSET Nat
      BY <1>3, <2>1 DEF TypeOK, CountTypeOK
    <2>5. stored' \in [Uids -> Nat] /\ saved' \in [Streams -> Point] /\ faults' \in Nat
      BY <2>2 DEF TypeOK, StoreTypeOK, CountTypeOK
    <2>. QED  BY <2>2, <2>3, <2>4, <2>5
  <1>. QED  BY <1>4, <1>5 DEF Flush

\* Every step keeps the types.
LEMMA NextType == TypeOK /\ [Next]_vars => TypeOK'
  <1>. SUFFICES ASSUME TypeOK, [Next]_vars PROVE TypeOK'
    OBVIOUS
  <1>0. NoRows \in [Uids -> Nat] /\ NoStates \in [Streams -> Point]
    BY NoPointType DEF NoRows, NoStates
  <1>1. ASSUME NEW u \in Uids, ApiPut(u) PROVE TypeOK'
    BY <1>0, <1>1 DEF ApiPut, TypeOK, ApiTypeOK, StreamTypeOK, WriterTypeOK, StoreTypeOK, CountTypeOK, apiVars, streamVars, writerVars, storeVars, ghostVars, bounds, Entry
  <1>2. ASSUME NEW u \in Uids, ApiDelete(u) PROVE TypeOK'
    BY <1>0, <1>2 DEF ApiDelete, TypeOK, ApiTypeOK, StreamTypeOK, WriterTypeOK, StoreTypeOK, CountTypeOK, apiVars, streamVars, writerVars, storeVars, ghostVars, bounds, Entry
  <1>3. CASE ApiCompact
    BY <1>0, <1>3 DEF ApiCompact, TypeOK, ApiTypeOK, StreamTypeOK, WriterTypeOK, StoreTypeOK, CountTypeOK, apiVars, streamVars, writerVars, storeVars, ghostVars, bounds
  <1>4. CASE Start
    BY <1>0, <1>4 DEF Start, TypeOK, ApiTypeOK, StreamTypeOK, WriterTypeOK, StoreTypeOK, CountTypeOK, apiVars, streamVars, writerVars, storeVars, ghostVars, bounds
  <1>5. ASSUME NEW a \in Apis, NEW p \in Plans, Probe(a, p) PROVE TypeOK'
    BY <1>0, <1>5 DEF Probe, TypeOK, ApiTypeOK, StreamTypeOK, WriterTypeOK, StoreTypeOK, CountTypeOK, apiVars, streamVars, writerVars, storeVars, ghostVars, bounds, Plans, Streams, Places
  <1>6. CASE Resync
    BY <1>0, <1>6 DEF Resync, TypeOK, ApiTypeOK, StreamTypeOK, WriterTypeOK, StoreTypeOK, CountTypeOK, apiVars, streamVars, writerVars, storeVars, ghostVars, bounds
  <1>7. CASE Stop
    BY <1>0, <1>7 DEF Stop, TypeOK, ApiTypeOK, StreamTypeOK, WriterTypeOK, StoreTypeOK, CountTypeOK, apiVars, streamVars, writerVars, storeVars, ghostVars, bounds
  <1>8. CASE PlanEnd
    BY <1>0, <1>8 DEF PlanEnd, TypeOK, ApiTypeOK, StreamTypeOK, WriterTypeOK, StoreTypeOK, CountTypeOK, apiVars, streamVars, writerVars, storeVars, ghostVars, bounds, Idle, Places
  <1>9. CASE RunExit
    BY <1>0, <1>9 DEF RunExit, TypeOK, ApiTypeOK, StreamTypeOK, WriterTypeOK, StoreTypeOK, CountTypeOK, apiVars, streamVars, writerVars, storeVars, ghostVars, bounds, Idle, Places
  <1>10. CASE Crash
    BY <1>0, <1>10 DEF Crash, TypeOK, ApiTypeOK, StreamTypeOK, WriterTypeOK, StoreTypeOK, CountTypeOK, apiVars, streamVars, writerVars, storeVars, ghostVars, bounds, Idle, Places
  <1>11. ASSUME NEW s \in Streams, StreamStop(s) PROVE TypeOK'
    BY <1>0, <1>11 DEF StreamStop, TypeOK, ApiTypeOK, StreamTypeOK, WriterTypeOK, StoreTypeOK, CountTypeOK, apiVars, streamVars, writerVars, storeVars, ghostVars, bounds, Places
  <1>12. ASSUME NEW s \in Streams, StreamDenied(s) PROVE TypeOK'
    BY <1>0, <1>12 DEF StreamDenied, TypeOK, ApiTypeOK, StreamTypeOK, WriterTypeOK, StoreTypeOK, CountTypeOK, apiVars, streamVars, writerVars, storeVars, ghostVars, bounds, Places
  <1>13. ASSUME NEW s \in Streams, StreamLoad(s) PROVE TypeOK'
    <2>1. saved[s].rv # Absent => saved[s].rv \in Nat
      BY DEF TypeOK, StoreTypeOK, Point, Absent
    <2>2. pc' \in [Streams -> Places] /\ rv' \in [Streams -> Nat] /\ faults' \in Nat
      BY <1>13, <2>1 DEF StreamLoad, TypeOK, StreamTypeOK, CountTypeOK, Places
    <2>3. StreamTypeOK'
      BY <1>13, <2>2 DEF StreamLoad, TypeOK, StreamTypeOK
    <2>. QED  BY <1>13, <2>2, <2>3 DEF StreamLoad, TypeOK, ApiTypeOK, StreamTypeOK, WriterTypeOK, StoreTypeOK, CountTypeOK, apiVars, streamVars, writerVars, storeVars, ghostVars, bounds
  <1>14. ASSUME NEW s \in Streams, Relist(s) PROVE TypeOK'
    <2>1. todo' \in [Streams -> [Uids -> Nat]]
      <3>1. [u \in Uids |-> IF Sees(s, u) THEN obj[u] ELSE 0] \in [Uids -> Nat]
        BY DEF TypeOK, ApiTypeOK
      <3>. QED  BY <1>14, <3>1 DEF Relist, TypeOK, StreamTypeOK
    <2>2. excused' \in SUBSET Nat
      <3>1. Claimed(s, Len(log)) \in SUBSET Nat
        BY DEF Claimed
      <3>2. excused' \subseteq excused \cup Claimed(s, Len(log))
        BY <1>14 DEF Relist
      <3>. QED  BY <3>1, <3>2 DEF TypeOK, CountTypeOK
    <2>3. pc' \in [Streams -> Places] /\ rv' \in [Streams -> Nat]
      BY <1>14 DEF Relist, TypeOK, StreamTypeOK, ApiTypeOK, Places
    <2>. QED  BY <1>14, <2>1, <2>2, <2>3 DEF Relist, TypeOK, ApiTypeOK, StreamTypeOK, WriterTypeOK, StoreTypeOK, CountTypeOK, apiVars, streamVars, writerVars, storeVars, ghostVars, bounds
  <1>15. ASSUME NEW s \in Streams, NEW u \in Uids, ListRow(s, u) PROVE TypeOK'
    <2>1. todo' \in [Streams -> [Uids -> Nat]] /\ todo[s][u] \in Nat
      BY <1>15 DEF ListRow, TypeOK, StreamTypeOK
    <2>2. Row(u, todo[s][u]) \in RowItem
      BY <1>15, <2>1 DEF ListRow, Row, RowItem
    <2>3. queue' \in Seq(RowItem \cup StateItem)
      BY <1>15, <2>2 DEF ListRow, TypeOK, WriterTypeOK
    <2>. QED  BY <1>15, <2>1, <2>3 DEF ListRow, TypeOK, ApiTypeOK, StreamTypeOK, WriterTypeOK, StoreTypeOK, CountTypeOK, apiVars, streamVars, writerVars, storeVars, ghostVars, bounds
  <1>16. ASSUME NEW s \in Streams, ListFail(s) PROVE TypeOK'
    <2>1. todo' \in [Streams -> [Uids -> Nat]]
      BY <1>0, <1>16 DEF ListFail, TypeOK, StreamTypeOK
    <2>2. pc' \in [Streams -> Places] /\ rv' \in [Streams -> Nat]
      BY <1>16 DEF ListFail, TypeOK, StreamTypeOK, Places
    <2>3. /\ faults' = faults + 1
          /\ UNCHANGED <<apiVars, run, cancel, api, plan, writerVars, storeVars, ghostVars, replans>>
      BY <1>16 DEF ListFail
    <2>. QED  BY <2>1, <2>2, <2>3 DEF TypeOK, ApiTypeOK, StreamTypeOK, WriterTypeOK, StoreTypeOK, CountTypeOK, apiVars, streamVars, writerVars, storeVars, ghostVars, bounds
  <1>17. ASSUME NEW s \in Streams, SaveRV(s) PROVE TypeOK'
    BY <1>0, <1>17 DEF SaveRV, TypeOK, ApiTypeOK, StreamTypeOK, WriterTypeOK, StoreTypeOK, CountTypeOK, apiVars, streamVars, writerVars, storeVars, ghostVars, bounds, Places, State, StateItem
  <1>18. ASSUME NEW s \in Streams, WatchOpen(s) PROVE TypeOK'
    BY <1>0, <1>18 DEF WatchOpen, TypeOK, ApiTypeOK, StreamTypeOK, WriterTypeOK, StoreTypeOK, CountTypeOK, apiVars, streamVars, writerVars, storeVars, ghostVars, bounds, Places
  <1>19. ASSUME NEW s \in Streams, WatchExpired(s) PROVE TypeOK'
    BY <1>0, <1>19 DEF WatchExpired, TypeOK, ApiTypeOK, StreamTypeOK, WriterTypeOK, StoreTypeOK, CountTypeOK, apiVars, streamVars, writerVars, storeVars, ghostVars, bounds, Places
  <1>20. ASSUME NEW s \in Streams, WatchBreak(s) PROVE TypeOK'
    BY <1>0, <1>20 DEF WatchBreak, TypeOK, ApiTypeOK, StreamTypeOK, WriterTypeOK, StoreTypeOK, CountTypeOK, apiVars, streamVars, writerVars, storeVars, ghostVars, bounds, Places
  <1>21. ASSUME NEW s \in Streams, WatchBookmark(s) PROVE TypeOK'
    BY <1>0, <1>21 DEF WatchBookmark, TypeOK, ApiTypeOK, StreamTypeOK, WriterTypeOK, StoreTypeOK, CountTypeOK, apiVars, streamVars, writerVars, storeVars, ghostVars, bounds, Places
  <1>22. ASSUME NEW s \in Streams, NEW i \in 1..Len(log), WatchDelete(s, i) PROVE TypeOK'
    BY <1>0, <1>22 DEF WatchDelete, TypeOK, ApiTypeOK, StreamTypeOK, WriterTypeOK, StoreTypeOK, CountTypeOK, apiVars, streamVars, writerVars, storeVars, ghostVars, bounds, Places
  <1>23. ASSUME NEW s \in Streams, NEW i \in 1..Len(log), NEW w \in BOOLEAN, WatchPut(s, i, w) PROVE TypeOK'
    <2>1. log[i].uid \in Uids /\ i \in Nat \ {0}
      BY LogEntry
    <2>2. Row(log[i].uid, i) \in RowItem
      BY <2>1 DEF Row, RowItem
    <2>3. queue' \in Seq(RowItem \cup StateItem)
      <3>1. queue' = queue \/ queue' = Append(queue, Row(log[i].uid, i))
        BY <1>23 DEF WatchPut
      <3>. QED  BY <2>2, <3>1 DEF TypeOK, WriterTypeOK
    <2>4. excused' \in SUBSET Nat
      <3>1. excused' = excused \/ excused' = excused \cup {i}
        BY <1>23 DEF WatchPut
      <3>. QED  BY <2>1, <3>1 DEF TypeOK, CountTypeOK
    <2>5. pc' \in [Streams -> Places] /\ rv' \in [Streams -> Nat]
      BY <1>23 DEF WatchPut, TypeOK, StreamTypeOK, Places
    <2>. QED  BY <1>23, <2>3, <2>4, <2>5 DEF WatchPut, TypeOK, ApiTypeOK, StreamTypeOK, WriterTypeOK, StoreTypeOK, CountTypeOK, apiVars, streamVars, writerVars, storeVars, ghostVars, bounds
  <1>24. CASE WriterTick
    BY <1>24, FlushType DEF WriterTick, TypeOK, ApiTypeOK, StreamTypeOK, WriterTypeOK, StoreTypeOK, CountTypeOK, apiVars, streamVars, writerVars, storeVars, ghostVars, bounds
  <1>25. CASE WriterTake
    <2>. DEFINE it == Head(queue)
                r  == IF it.kind = "row" THEN [rows EXCEPT ![it.uid] = it.ver] ELSE rows
                st == IF it.kind = "state"
                      THEN [states EXCEPT ![it.stream] = [api |-> it.api, rv |-> it.rv]]
                      ELSE states
    <2>1. it \in RowItem \cup StateItem /\ queue' \in Seq(RowItem \cup StateItem)
      BY <1>25 DEF WriterTake, TypeOK, WriterTypeOK
    <2>2. r \in [Uids -> Nat]
      BY <2>1 DEF RowItem, StateItem, TypeOK, WriterTypeOK
    <2>3. st \in [Streams -> Point]
      BY <2>1 DEF RowItem, StateItem, Point, TypeOK, WriterTypeOK
    <2>4. \/ Flush(r, st)
          \/ rows' = r /\ states' = st /\ UNCHANGED <<lastFlush, storeVars, dropped, faults>>
      BY <1>25 DEF WriterTake
    <2>. HIDE DEF r, st
    <2>5. CASE Flush(r, st)
      BY <1>25, <2>1, <2>2, <2>3, <2>5, FlushType DEF WriterTake, TypeOK, ApiTypeOK, StreamTypeOK, WriterTypeOK, StoreTypeOK, CountTypeOK, apiVars, streamVars, writerVars, storeVars, ghostVars, bounds
    <2>6. CASE rows' = r /\ states' = st /\ UNCHANGED <<lastFlush, storeVars, dropped, faults>>
      BY <1>25, <2>1, <2>2, <2>3, <2>6 DEF WriterTake, TypeOK, ApiTypeOK, StreamTypeOK, WriterTypeOK, StoreTypeOK, CountTypeOK, apiVars, streamVars, writerVars, storeVars, ghostVars, bounds
    <2>. QED  BY <2>4, <2>5, <2>6
  <1>26. CASE WriterClose
    <2>1. Upsert(rows) \in [Uids -> Nat] /\ SavePoints(states) \in [Streams -> Point]
      BY DEF Upsert, SavePoints, TypeOK, WriterTypeOK, StoreTypeOK
    <2>2. stored' \in [Uids -> Nat] /\ saved' \in [Streams -> Point] /\ faults' \in Nat
      BY <1>26, <2>1 DEF WriterClose, TypeOK, StoreTypeOK, CountTypeOK, storeVars
    <2>. QED  BY <1>0, <1>26, <2>2 DEF WriterClose, TypeOK, ApiTypeOK, StreamTypeOK, WriterTypeOK, StoreTypeOK, CountTypeOK, apiVars, streamVars, writerVars, storeVars, ghostVars, bounds
  <1>27. CASE UNCHANGED vars
    BY <1>27 DEF vars, TypeOK, ApiTypeOK, StreamTypeOK, WriterTypeOK, StoreTypeOK, CountTypeOK
  <1>. QED
    BY <1>1, <1>2, <1>3, <1>4, <1>5, <1>6, <1>7, <1>8, <1>9, <1>10, <1>11, <1>12, <1>13, <1>14, <1>15, <1>16, <1>17, <1>18, <1>19, <1>20, <1>21, <1>22, <1>23, <1>24, <1>25, <1>26, <1>27
    DEF Next, ApiStep, RunStep, WriterStep, StreamStep

\* The type invariant: every variable of the recorder keeps its type.
THEOREM TypeCorrect == Spec => []TypeOK
  <1>1. Init => TypeOK
    BY InitType
  <1>2. TypeOK /\ [Next]_vars => TypeOK'
    BY NextType
  <1>. QED  BY <1>1, <1>2, PTL DEF Spec

-------------------------------------------------------------------------------
(* The resume point covers what it passes.                                 *)

\* Streams only exist while a plan runs.
RunIdle == run # "plan" => pc = Idle

IndInv == TypeOK /\ RunIdle /\ PipelineCovers

\* Nothing is claimed before the first change.
LEMMA NothingClaimed ==
  ASSUME NEW s, NEW r \in Int, r <= 0
  PROVE  Claimed(s, r) = {}
  BY DEF Claimed

LEMMA NextRunIdle == TypeOK /\ RunIdle /\ [Next]_vars => RunIdle'
  <1>. SUFFICES ASSUME TypeOK, RunIdle, [Next]_vars PROVE RunIdle'
    OBVIOUS
  <1>. USE DEF apiVars, streamVars, writerVars, storeVars, ghostVars, bounds
  <1>1. CASE ApiStep \/ WriterStep
    BY <1>1 DEF ApiStep, WriterStep, ApiPut, ApiDelete, ApiCompact, WriterTake, WriterTick,
                WriterClose, RunIdle
  <1>2. CASE RunStep
    BY <1>2 DEF RunStep, Start, Resync, Stop, PlanEnd, RunExit, Crash, Probe, RunIdle
  <1>3. ASSUME NEW s \in Streams, StreamStep(s) PROVE RunIdle'
    <2>1. run' = run /\ pc[s] # "idle"
      BY <1>3 DEF StreamStep, StreamStop, StreamDenied, StreamLoad, Relist, ListFail, SaveRV,
                  ListRow, WatchOpen, WatchExpired, WatchBreak, WatchBookmark, WatchDelete,
                  WatchPut, Calling
    <2>2. pc # Idle
      BY <2>1 DEF Idle
    <2>. QED  BY <2>1, <2>2 DEF RunIdle
  <1>4. CASE UNCHANGED vars
    BY <1>4 DEF vars, RunIdle
  <1>. QED  BY <1>1, <1>2, <1>3, <1>4 DEF Next

LEMMA InitCovers == Init => PipelineCovers
  <1>. SUFFICES ASSUME Init PROVE PipelineCovers
    OBVIOUS
  <1>1. log = <<>> /\ queue = <<>> /\ pc = Idle /\ saved = NoStates /\ states = NoStates
        /\ rv = [s \in Streams |-> 0] /\ Len(log) = 0 /\ Len(queue) = 0
    BY DEF Init
  <1>2. \A s \in Streams : states[s].rv = -1 /\ saved[s].rv = -1
    BY <1>1, NoPointType DEF NoStates, Absent
  <1>3. ResumePointCovers /\ BatchCovers
    BY <1>1, <1>2 DEF ResumePointCovers, BatchCovers, Claimed
  <1>4. QueueCovers
    BY <1>1 DEF QueueCovers
  <1>5. StreamCovers
    BY <1>1 DEF StreamCovers, StreamCovered, Idle
  <1>6. PointsPast
    BY <1>1, <1>2 DEF PointsPast
  <1>. QED  BY <1>3, <1>4, <1>5, <1>6 DEF PipelineCovers

\* A step that touches neither the writer nor the database, and only adds to
\* the changes accounted for, keeps what is already on its way covered.
LEMMA PipelineFrame ==
  ASSUME IndInv, UNCHANGED <<log, queue, rows, states, stored, saved>>,
         excused \subseteq excused', dropped \subseteq dropped'
  PROVE  /\ ResumePointCovers' /\ BatchCovers' /\ QueueCovers'
         /\ \A i \in 1..Len(log) : (Batched(i) => Batched(i)')
         /\ \A k \in Nat, u \in Uids : RowBefore(k, u)' = RowBefore(k, u)
         /\ \A s \in Streams, r \in Int : Claimed(s, r)' = Claimed(s, r)
  <1>1. \A s \in Streams, r \in Int : Claimed(s, r)' = Claimed(s, r)
    BY DEF Claimed
  <1>2. \A i \in 1..Len(log) : (Settled(i) => Settled(i)') /\ (Batched(i) => Batched(i)')
    BY DEF Settled, Batched
  <1>3. \A k \in Nat, u \in Uids : RowBefore(k, u)' = RowBefore(k, u)
    BY DEF RowBefore
  <1>4. ResumePointCovers'
    BY DEF IndInv, PipelineCovers, ResumePointCovers, Claimed
  <1>5. BatchCovers'
    BY DEF IndInv, PipelineCovers, BatchCovers, Batched, Settled, Claimed
  <1>6. QueueCovers'
    BY DEF IndInv, PipelineCovers, QueueCovers, Batched, Settled, Claimed, RowBefore
  <1>. QED  BY <1>1, <1>2, <1>3, <1>4, <1>5, <1>6

\* Such a step keeps covered every stream it does not move.
LEMMA StreamFrame ==
  ASSUME IndInv, UNCHANGED <<log, queue, rows, states, stored, saved>>,
         excused \subseteq excused', dropped \subseteq dropped',
         NEW s \in Streams, pc'[s] = pc[s], rv'[s] = rv[s], todo'[s] = todo[s]
  PROVE  StreamCovered(s)'
  <1>1. StreamCovered(s)
    BY DEF IndInv, PipelineCovers, StreamCovers
  <1>. QED  BY <1>1 DEF StreamCovered, Batched, Settled, Claimed, RowBefore

\* The steps of a stream, of Run and of the API that touch neither the writer
\* nor the database: what is left to show is the stream that moves.
LEMMA MoveCovers ==
  ASSUME IndInv, UNCHANGED <<log, queue, rows, states, stored, saved>>,
         excused \subseteq excused', dropped \subseteq dropped',
         \A s \in Streams : /\ rv'[s] <= Len(log)
                            /\ \/ pc'[s] = pc[s] /\ rv'[s] = rv[s] /\ todo'[s] = todo[s]
                               \/ StreamCovered(s)'
  PROVE  PipelineCovers'
  <1>1. ResumePointCovers' /\ BatchCovers' /\ QueueCovers'
    BY PipelineFrame
  <1>2. StreamCovers'
    <2>1. ASSUME NEW s \in Streams PROVE StreamCovered(s)'
      BY StreamFrame
    <2>. QED  BY <2>1 DEF StreamCovers
  <1>3. PointsPast'
    BY DEF IndInv, PipelineCovers, PointsPast
  <1>. QED  BY <1>1, <1>2, <1>3 DEF PipelineCovers

\* An appended item does not hide the rows queued before it.
LEMMA AppendRows ==
  ASSUME TypeOK, NEW it \in RowItem \cup StateItem, queue' = Append(queue, it)
  PROVE  /\ queue' \in Seq(RowItem \cup StateItem) /\ Len(queue') = Len(queue) + 1
         /\ \A k \in 1..Len(queue) : queue'[k] = queue[k]
         /\ queue'[Len(queue) + 1] = it
         /\ \A k \in Nat, u \in Uids : RowBefore(k, u) => RowBefore(k, u)'
  <1>1. /\ queue' \in Seq(RowItem \cup StateItem) /\ Len(queue') = Len(queue) + 1
        /\ \A k \in 1..Len(queue) : queue'[k] = queue[k]
        /\ queue'[Len(queue) + 1] = it
    BY DEF TypeOK, WriterTypeOK
  <1>2. Len(queue) \in Nat
    BY DEF TypeOK, WriterTypeOK
  <1>. QED  BY <1>1, <1>2 DEF RowBefore

\* A row anywhere in the queue is still there when an item is appended, and so
\* is an appended row.
LEMMA AppendQueued ==
  ASSUME TypeOK, NEW it \in RowItem \cup StateItem, queue' = Append(queue, it)
  PROVE  /\ \A u : RowBefore(Len(queue) + 1, u) => RowBefore(Len(queue) + 1, u)'
         /\ it.kind = "row" => RowBefore(Len(queue) + 1, it.uid)'
  <1>1. /\ Len(queue') = Len(queue) + 1 /\ queue'[Len(queue) + 1] = it
        /\ \A k \in 1..Len(queue) : queue'[k] = queue[k]
        /\ Len(queue) \in Nat
    BY DEF TypeOK, WriterTypeOK
  <1>2. \A u : (\E k \in 1..Len(queue') : queue'[k].kind = "row" /\ queue'[k].uid = u)
                  => RowBefore(Len(queue) + 1, u)'
    BY <1>1 DEF RowBefore
  <1>3. ASSUME NEW u, RowBefore(Len(queue) + 1, u) PROVE RowBefore(Len(queue) + 1, u)'
    <2>1. PICK k \in 1..Len(queue) : queue[k].kind = "row" /\ queue[k].uid = u
      BY <1>3 DEF RowBefore
    <2>2. k \in 1..Len(queue') /\ queue'[k] = queue[k]
      BY <1>1
    <2>. QED  BY <1>2, <2>1, <2>2
  <1>4. ASSUME it.kind = "row" PROVE RowBefore(Len(queue) + 1, it.uid)'
    <2>1. Len(queue) + 1 \in 1..Len(queue')
      BY <1>1
    <2>. QED  BY <1>1, <1>2, <1>4, <2>1
  <1>. QED  BY <1>3, <1>4

\* Enqueuing an item keeps the pipeline covered if a resume point is enqueued
\* only behind the rows it passes, and the stream that enqueues stays covered.
LEMMA EnqueueCovers ==
  ASSUME IndInv, NEW it \in RowItem \cup StateItem, queue' = Append(queue, it),
         UNCHANGED <<log, rows, states, stored, saved, excused, dropped>>,
         it.kind = "state" =>
            /\ it.rv <= Len(log)
            /\ \A i \in Claimed(it.stream, it.rv) :
                  Batched(i) \/ RowBefore(Len(queue) + 1, log[i].uid),
         \A s \in Streams : /\ rv'[s] <= Len(log)
                            /\ \/ pc'[s] = pc[s] /\ rv'[s] = rv[s] /\ todo'[s] = todo[s]
                               \/ StreamCovered(s)'
  PROVE  PipelineCovers'
  <1>0. Len(queue) \in Nat /\ Len(log) \in Nat
    BY DEF IndInv, TypeOK, WriterTypeOK, ApiTypeOK
  <1>1. /\ Len(queue') = Len(queue) + 1
        /\ \A k \in 1..Len(queue) : queue'[k] = queue[k]
        /\ queue'[Len(queue) + 1] = it
        /\ \A k \in Nat, u \in Uids : RowBefore(k, u) => RowBefore(k, u)'
    BY AppendRows DEF IndInv
  <1>2. ResumePointCovers' /\ BatchCovers'
    BY DEF IndInv, PipelineCovers, ResumePointCovers, BatchCovers, Batched, Settled, Claimed
  <1>3. \A i \in 1..Len(log) : Batched(i)' = Batched(i)
    BY DEF Batched, Settled
  <1>4. \A s, r : Claimed(s, r)' = Claimed(s, r)
    BY DEF Claimed
  <1>5. QueueCovers'
    <2>1. SUFFICES ASSUME NEW k \in 1..Len(queue'), queue'[k].kind = "state",
                          NEW i \in Claimed(queue[k].stream, queue[k].rv)'
                   PROVE  (Batched(i) \/ RowBefore(k, log[i].uid))'
      BY DEF QueueCovers
    <2>2. i \in 1..Len(log) /\ i \in Claimed(queue'[k].stream, queue'[k].rv)
      BY <2>1 DEF Claimed
    <2>3. log[i].uid \in Uids
      BY <2>2, LogEntry DEF IndInv
    <2>4. Batched(i) \/ RowBefore(k, log[i].uid)
      <3>1. CASE k \in 1..Len(queue)
        BY <1>1, <2>1, <2>2, <3>1 DEF IndInv, PipelineCovers, QueueCovers
      <3>2. CASE k = Len(queue) + 1
        BY <1>1, <2>1, <2>2, <3>2
      <3>. QED  BY <1>0, <1>1, <3>1, <3>2
    <2>5. log'[i].uid = log[i].uid /\ k \in Nat
      OBVIOUS
    <2>. QED  BY <1>1, <1>3, <2>2, <2>3, <2>4, <2>5
  <1>6. StreamCovers'
    <2>1. ASSUME NEW s \in Streams, pc'[s] = pc[s], rv'[s] = rv[s], todo'[s] = todo[s]
          PROVE  StreamCovered(s)'
      <3>1. SUFFICES ASSUME pc[s] \in {"rows", "save", "open", "watching"},
                            NEW i \in Claimed(s, rv[s])
                     PROVE  \/ Batched(i)' \/ RowBefore(Len(queue) + 1, log[i].uid)'
                            \/ pc[s] = "rows" /\ todo[s][log[i].uid] # 0
        BY <1>4, <2>1 DEF StreamCovered
      <3>2. i \in 1..Len(log) /\ log[i].uid \in Uids
        BY LogEntry DEF Claimed, IndInv
      <3>3. \/ Batched(i) \/ RowBefore(Len(queue) + 1, log[i].uid)
            \/ pc[s] = "rows" /\ todo[s][log[i].uid] # 0
        BY <3>1 DEF IndInv, PipelineCovers, StreamCovers, StreamCovered
      <3>4. RowBefore(Len(queue) + 1, log[i].uid) => RowBefore(Len(queue) + 1, log[i].uid)'
        <4>1. \A u : RowBefore(Len(queue) + 1, u) => RowBefore(Len(queue) + 1, u)'
          BY AppendQueued DEF IndInv
        <4>. QED  BY <4>1
      <3>. QED  BY <1>3, <3>2, <3>3, <3>4
    <2>. QED  BY <2>1 DEF StreamCovers
  <1>7. PointsPast'
    BY <1>0, <1>1 DEF IndInv, PipelineCovers, PointsPast
  <1>. QED  BY <1>2, <1>5, <1>6, <1>7 DEF PipelineCovers

\* The API server's log only grows, and no resume point is past its end.
LEMMA ApiCovers ==
  ASSUME IndInv, NEW e \in Entry, log' = Append(log, e),
         UNCHANGED <<pc, rv, todo, queue, rows, states, stored, saved, excused, dropped>>
  PROVE  PipelineCovers'
  <1>0. Len(log) \in Nat /\ Len(log') = Len(log) + 1 /\ \A i \in 1..Len(log) : log'[i] = log[i]
    BY DEF IndInv, TypeOK, ApiTypeOK
  <1>1. ASSUME NEW s, NEW r \in Int, r <= Len(log) PROVE Claimed(s, r)' = Claimed(s, r)
    BY <1>0, <1>1 DEF Claimed
  <1>2. \A i \in 1..Len(log) : Settled(i)' = Settled(i) /\ Batched(i)' = Batched(i)
    BY <1>0 DEF Settled, Batched
  <1>3. \A k, u : RowBefore(k, u)' = RowBefore(k, u)
    BY DEF RowBefore
  <1>4. \A s \in Streams : rv[s] \in Int /\ states[s].rv \in Int /\ saved[s].rv \in Int
    BY DEF IndInv, TypeOK, StreamTypeOK, WriterTypeOK, StoreTypeOK, Point, Absent
  <1>5. \A k \in 1..Len(queue) : queue[k].kind = "state" => queue[k].rv \in Int
    BY DEF IndInv, TypeOK, WriterTypeOK, RowItem, StateItem
  <1>6. PointsPast'
    BY <1>0, <1>4, <1>5 DEF IndInv, PipelineCovers, PointsPast
  <1>7. ResumePointCovers'
    BY <1>0, <1>1, <1>2, <1>4 DEF IndInv, PipelineCovers, PointsPast, ResumePointCovers, Claimed
  <1>8. BatchCovers'
    BY <1>0, <1>1, <1>2, <1>4 DEF IndInv, PipelineCovers, PointsPast, BatchCovers, Claimed
  <1>9. QueueCovers'
    BY <1>0, <1>1, <1>2, <1>3, <1>5 DEF IndInv, PipelineCovers, PointsPast, QueueCovers, Claimed
  <1>10. StreamCovers'
    BY <1>0, <1>1, <1>2, <1>3, <1>4
    DEF IndInv, PipelineCovers, PointsPast, StreamCovers, StreamCovered, Claimed
  <1>. QED  BY <1>6, <1>7, <1>8, <1>9, <1>10 DEF PipelineCovers

\* A flush, successful or not, settles or keeps what its batch holds.
LEMMA FlushCovers ==
  ASSUME IndInv, NEW r \in [Uids -> Nat], NEW st \in [Streams -> Point], Flush(r, st),
         UNCHANGED <<log, excused>>,
         \A s \in Streams : st[s].rv <= Len(log),
         \A s \in Streams : \A i \in Claimed(s, st[s].rv) :
            Settled(i) \/ r[log[i].uid] # 0
  PROVE  /\ ResumePointCovers' /\ BatchCovers'
         /\ \A i \in 1..Len(log) : log[i].op = "put" /\ (Settled(i) \/ r[log[i].uid] # 0)
                                      => Batched(i)'
         /\ \A s \in Streams : states'[s].rv <= Len(log) /\ saved'[s].rv <= Len(log)
  <1>0. /\ \A i \in 1..Len(log) : log[i].uid \in Uids /\ i \in Nat \ {0}
        /\ \A s \in Streams : st[s].rv \in Int /\ saved[s].rv \in Int /\ saved[s].rv <= Len(log)
        /\ Len(log) \in Nat /\ stored \in [Uids -> Nat] /\ Absent \in Int /\ Absent < 0
    BY LogEntry DEF IndInv, PipelineCovers, PointsPast, TypeOK, StoreTypeOK, ApiTypeOK, Point, Absent
  <1>1. \A s, n : Claimed(s, n)' = Claimed(s, n)
    BY DEF Claimed
  <1>2. \A s \in Streams : Claimed(s, NoStates[s].rv) = {} /\ NoStates[s].rv <= Len(log)
    BY <1>0, NoPointType DEF NoStates, Claimed
  <1>3. CASE FlushOK(r, st)
    <2>1. stored' = Upsert(r) /\ saved' = SavePoints(st) /\ states' = NoStates /\ dropped' = dropped
      BY <1>3 DEF FlushOK
    <2>2. \A i \in 1..Len(log) : Settled(i) \/ r[log[i].uid] # 0 => Settled(i)'
      BY <1>0, <2>1 DEF Settled, Upsert
    <2>3. ResumePointCovers'
      BY <1>0, <1>1, <2>1, <2>2
      DEF ResumePointCovers, IndInv, PipelineCovers, SavePoints, Settled, Claimed
    <2>4. BatchCovers'
      BY <1>1, <1>2, <2>1 DEF BatchCovers
    <2>5. \A s \in Streams : states'[s].rv <= Len(log) /\ saved'[s].rv <= Len(log)
      BY <1>0, <1>2, <2>1 DEF SavePoints
    <2>6. \A i \in 1..Len(log) : Settled(i) \/ r[log[i].uid] # 0 => Batched(i)'
      BY <2>2 DEF Batched
    <2>. QED  BY <2>3, <2>4, <2>5, <2>6
  <1>4. CASE FlushFail(r, st)
    <2>1. /\ stored' = stored /\ saved' = saved
          /\ \/ states' = NoStates /\ dropped' = dropped \cup Backlog(r)
             \/ rows' = r /\ states' = st /\ dropped' = dropped
      BY <1>4 DEF FlushFail, storeVars
    <2>2. \A i \in 1..Len(log) : Settled(i) => Settled(i)'
      BY <2>1 DEF Settled
    <2>3. ResumePointCovers'
      BY <1>1, <2>1, <2>2 DEF ResumePointCovers, IndInv, PipelineCovers, Settled, Claimed
    <2>4. \A i \in 1..Len(log) : log[i].op = "put" /\ (Settled(i) \/ r[log[i].uid] # 0)
                                    => Batched(i)'
      <3>1. SUFFICES ASSUME NEW i \in 1..Len(log), log[i].op = "put",
                            Settled(i) \/ r[log[i].uid] # 0
                     PROVE  Batched(i)'
        OBVIOUS
      <3>2. CASE Settled(i)
        BY <2>2, <3>2 DEF Batched
      <3>3. CASE r[log[i].uid] # 0 /\ states' = NoStates /\ dropped' = dropped \cup Backlog(r)
        <4>1. stored[log[i].uid] \in Nat /\ i \in Nat \ {0}
          BY <1>0
        <4>2. stored[log[i].uid] # 0 \/ i \in Backlog(r)
          BY <3>1, <3>3, <4>1 DEF Backlog
        <4>. QED  BY <2>1, <3>3, <4>2 DEF Batched, Settled
      <3>4. CASE r[log[i].uid] # 0 /\ rows' = r
        BY <3>4 DEF Batched
      <3>. QED  BY <2>1, <3>1, <3>2, <3>3, <3>4
    <2>5. BatchCovers'
      BY <1>1, <1>2, <2>1, <2>4 DEF BatchCovers, Claimed
    <2>6. \A s \in Streams : states'[s].rv <= Len(log) /\ saved'[s].rv <= Len(log)
      BY <1>0, <1>2, <2>1
    <2>. QED  BY <2>3, <2>4, <2>5, <2>6
  <1>. QED  BY <1>3, <1>4 DEF Flush

\* The writer's step: with what it holds and what is still queued, everything a
\* later resume point passes is in its new batch or in the queue before it.
LEMMA WriterCovers ==
  ASSUME IndInv, NEW r \in [Uids -> Nat],
         UNCHANGED <<log, excused, pc, rv, todo>>,
         ResumePointCovers', BatchCovers',
         \A s \in Streams : states'[s].rv <= Len(log) /\ saved'[s].rv <= Len(log),
         \A i \in 1..Len(log) : log[i].op = "put" /\ (Settled(i) \/ r[log[i].uid] # 0)
                                   => Batched(i)',
         \A u \in Uids : rows[u] # 0 => r[u] # 0,
         \/ queue' = queue
         \/ /\ queue # <<>> /\ queue' = Tail(queue)
            /\ Head(queue).kind = "row" => r[Head(queue).uid] # 0
  PROVE  PipelineCovers'
  <1>0. /\ \A i \in 1..Len(log) : log[i].uid \in Uids
        /\ \A s, n : Claimed(s, n)' = Claimed(s, n)
        /\ \A s, n : \A i \in Claimed(s, n) : i \in 1..Len(log) /\ log[i].op = "put"
        /\ \A i \in 1..Len(log) : log'[i] = log[i]
    BY LogEntry DEF IndInv, Claimed
  <1>1. \A i \in 1..Len(log) : log[i].op = "put" /\ Batched(i) => Batched(i)'
    BY <1>0 DEF Batched
  <1>2. CASE queue' = queue
    <2>1. \A k, u : RowBefore(k, u)' = RowBefore(k, u)
      BY <1>2 DEF RowBefore
    <2>2. QueueCovers'
      BY <1>0, <1>1, <1>2, <2>1 DEF QueueCovers, IndInv, PipelineCovers
    <2>3. StreamCovers'
      BY <1>0, <1>1, <1>2, <2>1 DEF StreamCovers, StreamCovered, IndInv, PipelineCovers
    <2>4. PointsPast'
      BY <1>2 DEF PointsPast, IndInv, PipelineCovers
    <2>. QED  BY <2>2, <2>3, <2>4 DEF PipelineCovers
  <1>3. CASE /\ queue # <<>> /\ queue' = Tail(queue)
             /\ Head(queue).kind = "row" => r[Head(queue).uid] # 0
    <2>1. /\ Len(queue) \in Nat \ {0} /\ Len(queue') = Len(queue) - 1
          /\ \A k \in 1..Len(queue') : queue'[k] = queue[k + 1] /\ k + 1 \in 1..Len(queue)
          /\ Head(queue) = queue[1]
      BY <1>3 DEF IndInv, TypeOK, WriterTypeOK
    <2>2. ASSUME NEW k \in 1..Len(queue), NEW i \in 1..Len(log), log[i].op = "put",
                 RowBefore(k + 1, log[i].uid)
          PROVE  Batched(i)' \/ RowBefore(k, log[i].uid)'
      <3>1. PICK j \in 1..Len(queue) : /\ j < k + 1
                                       /\ queue[j].kind = "row" /\ queue[j].uid = log[i].uid
        BY <2>2 DEF RowBefore
      <3>2. CASE j = 1
        BY <1>0, <1>3, <2>1, <2>2, <3>1, <3>2
      <3>3. CASE j # 1
        <4>1. j - 1 \in 1..Len(queue') /\ j - 1 < k /\ queue'[j - 1] = queue[j]
          BY <2>1, <3>1, <3>3
        <4>. QED  BY <3>1, <4>1 DEF RowBefore
      <3>. QED  BY <3>2, <3>3
    <2>3. QueueCovers'
      <3>1. SUFFICES ASSUME NEW k \in 1..Len(queue'), queue'[k].kind = "state",
                            NEW i \in Claimed(queue[k].stream, queue[k].rv)'
                     PROVE  (Batched(i) \/ RowBefore(k, log[i].uid))'
        BY DEF QueueCovers
      <3>2. k + 1 \in 1..Len(queue) /\ k \in 1..Len(queue) /\ queue'[k] = queue[k + 1]
        BY <2>1
      <3>3. i \in Claimed(queue[k + 1].stream, queue[k + 1].rv)
        BY <1>0, <3>1, <3>2 DEF Claimed
      <3>4. Batched(i) \/ RowBefore(k + 1, log[i].uid)
        BY <3>1, <3>2, <3>3 DEF QueueCovers, IndInv, PipelineCovers
      <3>. QED  BY <1>0, <1>1, <2>2, <3>2, <3>3, <3>4
    <2>4. StreamCovers'
      <3>1. SUFFICES ASSUME NEW s \in Streams, pc[s] \in {"rows", "save", "open", "watching"},
                            NEW i \in Claimed(s, rv[s])
                     PROVE  \/ Batched(i)' \/ RowBefore(Len(queue) + 1, log[i].uid)'
                            \/ pc[s] = "rows" /\ todo[s][log[i].uid] # 0
        BY <1>0 DEF StreamCovers, StreamCovered
      <3>2. \/ Batched(i) \/ RowBefore(Len(queue) + 1, log[i].uid)
            \/ pc[s] = "rows" /\ todo[s][log[i].uid] # 0
        BY <3>1 DEF StreamCovers, StreamCovered, IndInv, PipelineCovers
      <3>3. PICK n \in 1..Len(queue) : n = Len(queue) /\ n = Len(queue') + 1
        BY <2>1
      <3>4. RowBefore(n, log[i].uid)' => RowBefore(Len(queue) + 1, log[i].uid)'
        BY <2>1, <3>3 DEF RowBefore
      <3>. QED  BY <1>0, <1>1, <2>2, <3>1, <3>2, <3>3, <3>4
    <2>5. PointsPast'
      BY <2>1 DEF PointsPast, IndInv, PipelineCovers
    <2>. QED  BY <2>3, <2>4, <2>5 DEF PipelineCovers
  <1>. QED  BY <1>2, <1>3

\* Every step keeps the pipeline covered: one case per action.
LEMMA NextCovers == IndInv /\ [Next]_vars => PipelineCovers'
  <1>. SUFFICES ASSUME IndInv, [Next]_vars PROVE PipelineCovers'
    OBVIOUS
  <1>. USE DEF apiVars, streamVars, writerVars, storeVars, ghostVars, bounds
  <1>0. /\ \A s \in Streams : rv[s] \in Nat /\ rv[s] <= Len(log) /\ 0 <= Len(log)
        /\ \A s \in Streams : saved[s].rv \in Int /\ saved[s].rv <= Len(log)
        /\ \A i \in 1..Len(log) : log[i].uid \in Uids /\ i \in Nat \ {0} /\ i <= Len(log)
        /\ Len(log) \in Nat /\ Len(queue) \in Nat
        /\ pc \in [Streams -> Places] /\ rv \in [Streams -> Nat]
        /\ todo \in [Streams -> [Uids -> Nat]] /\ api \in Apis
    BY LogEntry DEF IndInv, PipelineCovers, PointsPast, TypeOK, ApiTypeOK, StreamTypeOK,
                    WriterTypeOK, StoreTypeOK, Point, Absent
  <1>1. ASSUME NEW u \in Uids, ApiPut(u) PROVE PipelineCovers'
    BY <1>1, ApiCovers DEF ApiPut, Entry
  <1>2. ASSUME NEW u \in Uids, ApiDelete(u) PROVE PipelineCovers'
    BY <1>2, ApiCovers DEF ApiDelete, Entry
  <1>3. CASE ApiCompact \/ Start \/ Resync \/ Stop
    BY <1>0, <1>3, MoveCovers DEF ApiCompact, Start, Resync, Stop
  <1>4. ASSUME NEW a \in Apis, NEW p \in Plans, Probe(a, p) PROVE PipelineCovers'
    <2>1. \A s \in Streams : StreamCovered(s)'
      BY <1>4 DEF Probe, StreamCovered
    <2>. QED  BY <1>0, <1>4, <2>1, MoveCovers DEF Probe
  <1>5. CASE PlanEnd \/ RunExit
    <2>1. \A s \in Streams : StreamCovered(s)' /\ rv'[s] <= Len(log)
      BY <1>0, <1>5 DEF PlanEnd, RunExit, StreamCovered, Idle
    <2>. QED  BY <1>5, <2>1, MoveCovers DEF PlanEnd, RunExit
  <1>6. ASSUME NEW s \in Streams, StreamStop(s) \/ StreamDenied(s) \/ ListFail(s) \/ WatchExpired(s)
        PROVE  PipelineCovers'
    <2>1. pc'[s] \in {"stopped", "denied", "list"} /\ rv'[s] <= Len(log)
      BY <1>0, <1>6 DEF StreamStop, StreamDenied, ListFail, WatchExpired
    <2>2. \A q \in Streams \ {s} : pc'[q] = pc[q] /\ rv'[q] = rv[q] /\ todo'[q] = todo[q]
      BY <1>0, <1>6 DEF StreamStop, StreamDenied, ListFail, WatchExpired
    <2>3. StreamCovered(s)'
      BY <2>1 DEF StreamCovered
    <2>4. UNCHANGED <<log, queue, rows, states, stored, saved, excused, dropped>>
      BY <1>6 DEF StreamStop, StreamDenied, ListFail, WatchExpired
    <2>. QED  BY <1>0, <2>1, <2>2, <2>3, <2>4, MoveCovers
  <1>7. ASSUME NEW s \in Streams, StreamLoad(s) PROVE PipelineCovers'
    <2>1. \/ pc'[s] = "open" /\ rv'[s] = saved[s].rv
          \/ pc'[s] = "list" /\ rv'[s] = rv[s]
      BY <1>0, <1>7 DEF StreamLoad
    <2>2. \A q \in Streams \ {s} : pc'[q] = pc[q] /\ rv'[q] = rv[q] /\ todo'[q] = todo[q]
      BY <1>0, <1>7 DEF StreamLoad
    <2>3. UNCHANGED <<log, queue, rows, states, stored, saved, excused, dropped>>
      BY <1>7 DEF StreamLoad
    <2>4. StreamCovered(s)'
      BY <2>1, <2>3
      DEF StreamCovered, IndInv, PipelineCovers, ResumePointCovers, Batched, Settled, Claimed
    <2>. QED  BY <1>0, <2>1, <2>2, <2>3, <2>4, MoveCovers
  <1>8. ASSUME NEW s \in Streams, WatchOpen(s) \/ WatchBreak(s) PROVE PipelineCovers'
    <2>1. /\ pc[s] \in {"open", "watching"} /\ pc'[s] \in {"open", "watching"}
          /\ rv' = rv /\ todo' = todo
          /\ \A q \in Streams \ {s} : pc'[q] = pc[q]
      BY <1>0, <1>8 DEF WatchOpen, WatchBreak
    <2>2. UNCHANGED <<log, queue, rows, states, stored, saved, excused, dropped>>
      BY <1>8 DEF WatchOpen, WatchBreak
    <2>3. StreamCovered(s)'
      BY <2>1, <2>2 DEF StreamCovered, StreamCovers, IndInv, PipelineCovers, Batched, Settled,
                        Claimed, RowBefore
    <2>. QED  BY <1>0, <2>1, <2>2, <2>3, MoveCovers
  <1>9. ASSUME NEW s \in Streams, NEW i \in 1..Len(log), WatchDelete(s, i) PROVE PipelineCovers'
    <2>1. /\ pc[s] = "watching" /\ pc' = pc /\ todo' = todo /\ rv'[s] = i
          /\ \A q \in Streams \ {s} : rv'[q] = rv[q]
      BY <1>0, <1>9 DEF WatchDelete
    <2>2. UNCHANGED <<log, queue, rows, states, stored, saved, excused, dropped>>
      BY <1>9 DEF WatchDelete
    <2>3. Claimed(s, i) \subseteq Claimed(s, rv[s])
      <3>1. SUFFICES ASSUME NEW j \in 1..Len(log), j <= i, log[j].op = "put", Sees(s, log[j].uid)
                     PROVE  j <= rv[s]
        BY DEF Claimed
      <3>2. log[i].op = "del" /\ (rv[s] < j /\ j < i => ~Sees(s, log[j].uid))
        BY <1>9 DEF WatchDelete, Next1
      <3>3. j # i
        BY <3>1, <3>2
      <3>. QED  BY <1>0, <3>1, <3>2, <3>3
    <2>4. StreamCovered(s)'
      BY <2>1, <2>2, <2>3 DEF StreamCovered, StreamCovers, IndInv, PipelineCovers, Batched, Settled, Claimed, RowBefore
    <2>. QED  BY <1>0, <2>1, <2>2, <2>4, MoveCovers
  <1>10. ASSUME NEW s \in Streams, WatchBookmark(s) PROVE PipelineCovers'
    <2>1. /\ pc[s] = "watching" /\ pc'[s] = "save" /\ todo' = todo /\ rv'[s] = Len(log)
          /\ \A q \in Streams \ {s} : rv'[q] = rv[q] /\ pc'[q] = pc[q]
      BY <1>0, <1>10 DEF WatchBookmark
    <2>2. UNCHANGED <<log, queue, rows, states, stored, saved, excused, dropped>>
      BY <1>10 DEF WatchBookmark
    <2>3. Claimed(s, Len(log)) \subseteq Claimed(s, rv[s])
      BY <1>0, <1>10 DEF WatchBookmark, Claimed
    <2>4. StreamCovered(s)'
      BY <2>1, <2>2, <2>3 DEF StreamCovered, StreamCovers, IndInv, PipelineCovers, Batched, Settled, Claimed, RowBefore
    <2>. QED  BY <1>0, <2>1, <2>2, <2>4, MoveCovers
  <1>11. ASSUME NEW s \in Streams, Relist(s) PROVE PipelineCovers'
    <2>1. /\ pc'[s] = "rows" /\ rv'[s] = Len(log)
          /\ todo'[s] = [u \in Uids |-> IF Sees(s, u) THEN obj[u] ELSE 0]
          /\ \A q \in Streams \ {s} : rv'[q] = rv[q] /\ pc'[q] = pc[q] /\ todo'[q] = todo[q]
      BY <1>0, <1>11 DEF Relist
    <2>2. UNCHANGED <<log, queue, rows, states, stored, saved, dropped>> /\ excused \subseteq excused'
      BY <1>11 DEF Relist
    <2>3. \A i \in Claimed(s, Len(log)) : \/ obj[log[i].uid] # 0 \/ i \in excused' \/ Secured(i)
      BY <1>11 DEF Relist
    <2>4. ASSUME NEW i \in Claimed(s, Len(log))
          PROVE  \/ Batched(i)' \/ RowBefore(Len(queue) + 1, log[i].uid)'
                 \/ todo'[s][log[i].uid] # 0
      <3>1. i \in 1..Len(log) /\ log[i].uid \in Uids /\ i \in Nat \ {0} /\ Sees(s, log[i].uid)
        BY <1>0 DEF Claimed
      <3>2. CASE obj[log[i].uid] # 0
        BY <2>1, <3>1, <3>2
      <3>3. CASE i \in excused'
        BY <3>3 DEF Batched, Settled
      <3>4. CASE Secured(i)
        <4>1. stored[log[i].uid] \in Nat /\ rows[log[i].uid] \in Nat
          BY <3>1 DEF IndInv, TypeOK, StoreTypeOK, WriterTypeOK
        <4>2. \/ stored[log[i].uid] # 0 \/ rows[log[i].uid] # 0
              \/ \E k \in 1..Len(queue) : queue[k].kind = "row" /\ queue[k].uid = log[i].uid
          BY <3>1, <3>4, <4>1 DEF Secured, Queued
        <4>. QED  BY <1>0, <2>2, <4>2 DEF Batched, Settled, RowBefore
      <3>. QED  BY <2>3, <3>2, <3>3, <3>4
    <2>5. StreamCovered(s)'
      <3>1. \A i \in Claimed(s, rv[s])' : i \in Claimed(s, Len(log)) /\ log'[i] = log[i]
        BY <2>1, <2>2 DEF Claimed
      <3>. QED  BY <2>1, <2>2, <2>4, <3>1 DEF StreamCovered
    <2>. QED  BY <1>0, <2>1, <2>2, <2>5, MoveCovers
  <1>12. ASSUME NEW s \in Streams, NEW u \in Uids, ListRow(s, u) PROVE PipelineCovers'
    <2>. DEFINE it == Row(u, todo[s][u])
    <2>1. /\ it \in RowItem \cup StateItem /\ it.kind = "row" /\ it.uid = u
      BY <1>0, <1>12 DEF ListRow, Row, RowItem
    <2>2. /\ pc[s] = "rows" /\ pc' = pc /\ rv' = rv /\ queue' = Append(queue, it)
          /\ \A q \in Streams \ {s} : todo'[q] = todo[q]
          /\ \A v \in Uids : v # u => todo'[s][v] = todo[s][v]
      BY <1>0, <1>12 DEF ListRow
    <2>3. UNCHANGED <<log, rows, states, stored, saved, excused, dropped>>
      BY <1>12 DEF ListRow
    <2>. HIDE DEF it
    <2>4. /\ \A v : RowBefore(Len(queue) + 1, v) => RowBefore(Len(queue) + 1, v)'
          /\ RowBefore(Len(queue) + 1, u)'
      BY <2>1, <2>2, AppendQueued DEF IndInv
    <2>5. StreamCovered(s)'
      <3>1. SUFFICES ASSUME NEW i \in Claimed(s, rv[s])
                     PROVE  \/ Batched(i)' \/ RowBefore(Len(queue) + 1, log[i].uid)'
                            \/ todo'[s][log[i].uid] # 0
        BY <2>2, <2>3 DEF StreamCovered, Claimed
      <3>2. i \in 1..Len(log) /\ log[i].uid \in Uids
        BY <1>0 DEF Claimed
      <3>3. \/ Batched(i) \/ RowBefore(Len(queue) + 1, log[i].uid) \/ todo[s][log[i].uid] # 0
        BY <2>2 DEF StreamCovered, StreamCovers, IndInv, PipelineCovers
      <3>4. CASE log[i].uid = u
        BY <2>3, <2>4, <3>4
      <3>5. CASE log[i].uid # u
        <4>1. Batched(i) => Batched(i)'
          BY <2>3 DEF Batched, Settled
        <4>2. RowBefore(Len(queue) + 1, log[i].uid) => RowBefore(Len(queue) + 1, log[i].uid)'
          BY <2>3, <2>4
        <4>. QED  BY <2>2, <3>2, <3>3, <3>5, <4>1, <4>2
      <3>. QED  BY <3>4, <3>5
    <2>. QED  BY <1>0, <2>1, <2>2, <2>3, <2>5, EnqueueCovers
  <1>13. ASSUME NEW s \in Streams, SaveRV(s) PROVE PipelineCovers'
    <2>. DEFINE it == State(s, api, rv[s])
    <2>1. /\ it \in RowItem \cup StateItem /\ it.kind = "state" /\ it.stream = s /\ it.rv = rv[s]
      BY <1>0 DEF State, StateItem
    <2>2. /\ pc[s] = "save" \/ (pc[s] = "rows" /\ todo[s] = NoRows)
          /\ pc'[s] \in {"open", "watching"} /\ rv' = rv /\ todo' = todo
          /\ queue' = Append(queue, it)
          /\ \A q \in Streams \ {s} : pc'[q] = pc[q]
      BY <1>0, <1>13 DEF SaveRV
    <2>3. UNCHANGED <<log, rows, states, stored, saved, excused, dropped>>
      BY <1>13 DEF SaveRV
    <2>. HIDE DEF it
    <2>4. \A i \in Claimed(s, rv[s]) : Batched(i) \/ RowBefore(Len(queue) + 1, log[i].uid)
      BY <1>0, <2>2 DEF StreamCovered, StreamCovers, IndInv, PipelineCovers, NoRows, Claimed
    <2>5. \A v : RowBefore(Len(queue) + 1, v) => RowBefore(Len(queue) + 1, v)'
      BY <2>1, <2>2, AppendQueued DEF IndInv
    <2>6. StreamCovered(s)'
      BY <2>2, <2>3, <2>4, <2>5 DEF StreamCovered, Batched, Settled, Claimed
    <2>. QED  BY <1>0, <2>1, <2>2, <2>3, <2>4, <2>6, EnqueueCovers
  <1>14. ASSUME NEW s \in Streams, NEW i \in 1..Len(log), NEW w \in BOOLEAN, WatchPut(s, i, w)
         PROVE  PipelineCovers'
    <2>1. /\ pc[s] = "watching" /\ pc'[s] = "save" /\ rv'[s] = i /\ todo' = todo
          /\ \A q \in Streams \ {s} : pc'[q] = pc[q] /\ rv'[q] = rv[q]
      BY <1>0, <1>14 DEF WatchPut
    <2>2. UNCHANGED <<log, rows, states, stored, saved, dropped>>
      BY <1>14 DEF WatchPut
    <2>3. Claimed(s, i) \subseteq Claimed(s, rv[s]) \cup {i}
      <3>1. SUFFICES ASSUME NEW j \in 1..Len(log), j <= i, j # i, Sees(s, log[j].uid)
                     PROVE  j <= rv[s]
        BY DEF Claimed
      <3>2. rv[s] < j /\ j < i => ~Sees(s, log[j].uid)
        BY <1>14 DEF WatchPut, Next1
      <3>. QED  BY <1>0, <3>1, <3>2
    <2>4. \A j \in Claimed(s, rv[s]) : Batched(j) \/ RowBefore(Len(queue) + 1, log[j].uid)
      BY <2>1 DEF StreamCovered, StreamCovers, IndInv, PipelineCovers
    <2>5. CASE queue' = queue /\ ((excused' = excused /\ Secured(i)) \/ excused' = excused \cup {i})
      <3>1. excused \subseteq excused'
        BY <2>5
      <3>2. \A j \in 1..Len(log) : Batched(j) => Batched(j)'
        BY <2>2, <3>1 DEF Batched, Settled
      <3>3. \A k, u : RowBefore(k, u) => RowBefore(k, u)'
        BY <2>5 DEF RowBefore
      <3>4. Batched(i)' \/ RowBefore(Len(queue) + 1, log[i].uid)'
        <4>1. CASE i \in excused'
          BY <4>1 DEF Batched, Settled
        <4>2. CASE Secured(i)
          <5>1. stored[log[i].uid] \in Nat /\ rows[log[i].uid] \in Nat /\ i \in Nat \ {0}
            BY <1>0 DEF IndInv, TypeOK, StoreTypeOK, WriterTypeOK
          <5>2. \/ stored[log[i].uid] # 0 \/ rows[log[i].uid] # 0
                \/ \E k \in 1..Len(queue) : queue[k].kind = "row" /\ queue[k].uid = log[i].uid
            BY <4>2, <5>1 DEF Secured, Queued
          <5>. QED  BY <1>0, <2>2, <2>5, <5>2 DEF Batched, Settled, RowBefore
        <4>. QED  BY <2>5, <4>1, <4>2
      <3>5. StreamCovered(s)'
        <4>1. \A j \in Claimed(s, rv[s])' : /\ j \in 1..Len(log) /\ log'[j] = log[j]
                                            /\ j \in Claimed(s, rv[s]) \/ j = i
          BY <2>1, <2>2, <2>3 DEF Claimed
        <4>. QED  BY <2>4, <2>5, <3>2, <3>3, <3>4, <4>1 DEF StreamCovered
      <3>. QED  BY <1>0, <2>1, <2>2, <2>5, <3>1, <3>5, MoveCovers
    <2>6. CASE queue' = Append(queue, Row(log[i].uid, i)) /\ excused' = excused
      <3>. DEFINE it == Row(log[i].uid, i)
      <3>1. it \in RowItem \cup StateItem /\ it.kind = "row" /\ it.uid = log[i].uid
        BY <1>0 DEF Row, RowItem
      <3>2. queue' = Append(queue, it)
        BY <2>6
      <3>. HIDE DEF it
      <3>4. \A j \in 1..Len(log) : Batched(j) => Batched(j)'
        BY <2>2, <2>6 DEF Batched, Settled
      <3>7. /\ \A u : RowBefore(Len(queue) + 1, u) => RowBefore(Len(queue) + 1, u)'
            /\ RowBefore(Len(queue) + 1, log[i].uid)'
        <4>0. PICK v \in Uids : v = log[i].uid
          BY <1>0
        <4>1. RowBefore(Len(queue) + 1, v)'
          BY <3>1, <3>2, <4>0, AppendQueued DEF IndInv
        <4>2. \A u : RowBefore(Len(queue) + 1, u) => RowBefore(Len(queue) + 1, u)'
          BY <3>1, <3>2, AppendQueued DEF IndInv
        <4>. QED  BY <2>2, <4>0, <4>1, <4>2
      <3>9. StreamCovered(s)'
        <4>1. \A j \in Claimed(s, rv[s])' : /\ j \in 1..Len(log) /\ log'[j] = log[j]
                                            /\ j \in Claimed(s, rv[s]) \/ j = i
          BY <2>1, <2>2, <2>3 DEF Claimed
        <4>. QED  BY <2>2, <2>4, <3>4, <3>7, <4>1 DEF StreamCovered
      <3>. QED  BY <1>0, <2>1, <2>2, <2>6, <3>1, <3>2, <3>9, EnqueueCovers
    <2>. QED  BY <1>14, <2>5, <2>6 DEF WatchPut
  <1>15. CASE WriterTick
    <2>1. Flush(rows, states) /\ UNCHANGED <<log, excused, pc, rv, todo, queue>>
      BY <1>15 DEF WriterTick
    <2>2. rows \in [Uids -> Nat] /\ states \in [Streams -> Point]
      BY DEF IndInv, TypeOK, WriterTypeOK
    <2>3. /\ \A s \in Streams : states[s].rv <= Len(log)
          /\ \A s \in Streams : \A i \in Claimed(s, states[s].rv) :
                Settled(i) \/ rows[log[i].uid] # 0
      BY DEF IndInv, PipelineCovers, PointsPast, BatchCovers, Batched
    <2>4. /\ ResumePointCovers' /\ BatchCovers'
          /\ \A i \in 1..Len(log) : log[i].op = "put" /\ (Settled(i) \/ rows[log[i].uid] # 0)
                                       => Batched(i)'
          /\ \A s \in Streams : states'[s].rv <= Len(log) /\ saved'[s].rv <= Len(log)
      BY <2>1, <2>2, <2>3, FlushCovers
    <2>. QED  BY <2>1, <2>2, <2>4, WriterCovers
  <1>16. CASE WriterTake
    <2>. DEFINE it == Head(queue)
                r  == IF it.kind = "row" THEN [rows EXCEPT ![it.uid] = it.ver] ELSE rows
                st == IF it.kind = "state"
                      THEN [states EXCEPT ![it.stream] = [api |-> it.api, rv |-> it.rv]]
                      ELSE states
    <2>0. rows \in [Uids -> Nat] /\ states \in [Streams -> Point] /\ queue # <<>>
          /\ queue' = Tail(queue) /\ UNCHANGED <<log, excused, pc, rv, todo>>
      BY <1>16 DEF WriterTake, IndInv, TypeOK, WriterTypeOK
    <2>1. it \in RowItem \cup StateItem /\ it = queue[1] /\ 1 \in 1..Len(queue)
      BY <2>0 DEF IndInv, TypeOK, WriterTypeOK
    <2>2. r \in [Uids -> Nat] /\ st \in [Streams -> Point]
      BY <2>0, <2>1 DEF RowItem, StateItem, Point
    <2>3. \A u \in Uids : rows[u] # 0 => r[u] # 0
      BY <2>0, <2>1 DEF RowItem, StateItem
    <2>4. it.kind = "row" => r[it.uid] # 0
      BY <2>0, <2>1 DEF RowItem, StateItem
    <2>5. it.kind = "state" => \A i \in Claimed(it.stream, it.rv) : Batched(i)
      BY <2>1 DEF IndInv, PipelineCovers, QueueCovers, RowBefore
    <2>6. \A s \in Streams : st[s].rv <= Len(log)
      <3>1. it.kind = "state" => it.rv <= Len(log)
        BY <2>1 DEF IndInv, PipelineCovers, PointsPast
      <3>. QED  BY <2>0, <3>1 DEF IndInv, PipelineCovers, PointsPast
    <2>7. \A s \in Streams : \A i \in Claimed(s, st[s].rv) : Batched(i)
      <3>1. ASSUME NEW s \in Streams PROVE \A i \in Claimed(s, st[s].rv) : Batched(i)
        <4>1. \/ st[s] = states[s]
              \/ it.kind = "state" /\ it.stream = s /\ st[s].rv = it.rv
          BY <2>0
        <4>. QED  BY <2>5, <4>1 DEF IndInv, PipelineCovers, BatchCovers
      <3>. QED  BY <3>1
    <2>8. \/ Flush(r, st)
          \/ rows' = r /\ states' = st /\ UNCHANGED <<storeVars, dropped>>
      BY <1>16 DEF WriterTake
    <2>. HIDE DEF r, st, it
    <2>9. \A i \in 1..Len(log) : Batched(i) => Settled(i) \/ r[log[i].uid] # 0
      BY <1>0, <2>3 DEF Batched
    <2>10. \A s \in Streams : \A i \in Claimed(s, st[s].rv) : Settled(i) \/ r[log[i].uid] # 0
      BY <2>7, <2>9 DEF Claimed
    <2>11. /\ ResumePointCovers' /\ BatchCovers'
           /\ \A i \in 1..Len(log) : log[i].op = "put" /\ (Settled(i) \/ r[log[i].uid] # 0)
                                        => Batched(i)'
           /\ \A s \in Streams : states'[s].rv <= Len(log) /\ saved'[s].rv <= Len(log)
      <3>1. CASE Flush(r, st)
        BY <2>0, <2>2, <2>6, <2>10, <3>1, FlushCovers
      <3>2. CASE rows' = r /\ states' = st /\ UNCHANGED <<storeVars, dropped>>
        <4>1. ResumePointCovers'
          BY <2>0, <3>2 DEF IndInv, PipelineCovers, ResumePointCovers, Claimed
        <4>2. \A i \in 1..Len(log) : Settled(i) \/ r[log[i].uid] # 0 => Batched(i)'
          BY <2>0, <3>2 DEF Batched, Settled
        <4>3. BatchCovers'
          BY <2>0, <2>10, <3>2, <4>2 DEF BatchCovers, Claimed
        <4>. QED  BY <1>0, <2>6, <3>2, <4>1, <4>2, <4>3
      <3>. QED  BY <2>8, <3>1, <3>2
    <2>. QED  BY <2>0, <2>2, <2>3, <2>4, <2>11, WriterCovers DEF it
  <1>17. CASE WriterClose
    <2>1. /\ states' = NoStates /\ UNCHANGED <<log, excused, dropped, pc, rv, todo, queue>>
          /\ \/ stored' = Upsert(rows) /\ saved' = SavePoints(states)
             \/ UNCHANGED <<stored, saved>>
          /\ queue = <<>>
      BY <1>17 DEF WriterClose
    <2>2. pc' = Idle /\ rv' \in [Streams -> Nat]
      BY <1>0, <1>17 DEF WriterClose, IndInv, RunIdle
    <2>3. StreamCovers' /\ QueueCovers'
      BY <2>1, <2>2 DEF StreamCovers, StreamCovered, QueueCovers, Idle
    <2>4. \A s \in Streams : NoStates[s].rv = -1
      BY NoPointType DEF NoStates, Absent
    <2>5. BatchCovers'
      BY <2>1, <2>4 DEF BatchCovers, Claimed
    <2>6. \A i \in 1..Len(log) : Batched(i) /\ stored' = Upsert(rows) => Settled(i)'
      BY <1>0, <2>1 DEF Batched, Settled, Upsert, IndInv, TypeOK, StoreTypeOK, WriterTypeOK
    <2>7. \A i \in 1..Len(log) : Settled(i) /\ (stored' = Upsert(rows) \/ stored' = stored)
                                    => Settled(i)'
      BY <1>0, <2>1 DEF Settled, Upsert, IndInv, TypeOK, StoreTypeOK, WriterTypeOK
    <2>8. ResumePointCovers'
      BY <2>1, <2>6, <2>7
      DEF ResumePointCovers, BatchCovers, IndInv, PipelineCovers, SavePoints, Settled, Claimed
    <2>9. PointsPast'
      <3>1. \A s \in Streams : saved'[s] = saved[s] \/ saved'[s] = states[s]
        BY <2>1 DEF SavePoints
      <3>2. \A s \in Streams : saved[s].rv <= Len(log) /\ states[s].rv <= Len(log) /\ -1 <= Len(log)
        BY <1>0 DEF IndInv, PipelineCovers, PointsPast
      <3>3. \A s \in Streams : saved'[s].rv <= Len(log) /\ states'[s].rv <= Len(log) /\ rv'[s] <= Len(log)
        BY <1>0, <2>1, <2>4, <3>1, <3>2
      <3>. QED  BY <2>1, <3>3 DEF PointsPast
    <2>. QED  BY <2>3, <2>5, <2>8, <2>9 DEF PipelineCovers
  <1>18. CASE Crash
    <2>1. /\ UNCHANGED <<log, stored, saved, excused, dropped>>
          /\ states' = NoStates /\ queue' = <<>> /\ pc' = Idle /\ rv' = [s \in Streams |-> 0]
      BY <1>18 DEF Crash
    <2>2. \A s \in Streams : NoStates[s].rv = -1
      BY NoPointType DEF NoStates, Absent
    <2>3. StreamCovers' /\ QueueCovers'
      BY <2>1 DEF StreamCovers, StreamCovered, QueueCovers, Idle
    <2>4. BatchCovers'
      BY <2>1, <2>2 DEF BatchCovers, Claimed
    <2>5. ResumePointCovers'
      BY <2>1 DEF ResumePointCovers, IndInv, PipelineCovers, Claimed
    <2>6. PointsPast'
      BY <1>0, <2>1, <2>2 DEF PointsPast, IndInv, PipelineCovers
    <2>. QED  BY <2>3, <2>4, <2>5, <2>6 DEF PipelineCovers
  <1>19. CASE UNCHANGED vars
    BY <1>0, <1>19, MoveCovers DEF vars
  <1>. QED
    BY <1>1, <1>2, <1>3, <1>4, <1>5, <1>6, <1>7, <1>8, <1>9, <1>10, <1>11, <1>12, <1>13,
       <1>14, <1>15, <1>16, <1>17, <1>18, <1>19
    DEF Next, ApiStep, RunStep, WriterStep, StreamStep

\* The resume point in watch_state never passes an event that is neither stored
\* nor accounted for, in every behaviour and for every value of the constants.
THEOREM ResumePointSafe == Spec => []ResumePointCovers
  <1>1. Init => IndInv
    BY InitType, InitCovers DEF IndInv, RunIdle, Init
  <1>2. IndInv /\ [Next]_vars => IndInv'
    BY NextType, NextRunIdle, NextCovers DEF IndInv
  <1>3. IndInv => ResumePointCovers
    BY DEF IndInv, PipelineCovers
  <1>. QED  BY <1>1, <1>2, <1>3, PTL DEF Spec

\* The whole pipeline, from a stream's rv to the database, stays covered.
THEOREM PipelineSafe == Spec => []PipelineCovers
  <1>1. Init => IndInv
    BY InitType, InitCovers DEF IndInv, RunIdle, Init
  <1>2. IndInv /\ [Next]_vars => IndInv'
    BY NextType, NextRunIdle, NextCovers DEF IndInv
  <1>3. IndInv => PipelineCovers
    BY DEF IndInv
  <1>. QED  BY <1>1, <1>2, <1>3, PTL DEF Spec

\* A stored event never goes back to an older version.
THEOREM StoredMonotone == Spec => StoredNeverRegresses
  <1>1. ASSUME TypeOK, [Next]_vars PROVE \A u \in Uids : stored'[u] >= stored[u]
    <2>1. stored' = stored \/ (\E r \in [Uids -> Nat] : stored' = Upsert(r))
      <3>. USE DEF apiVars, streamVars, writerVars, storeVars, ghostVars, bounds
      <3>1. CASE ApiStep \/ RunStep \/ UNCHANGED vars
        BY <3>1 DEF ApiStep, ApiPut, ApiDelete, ApiCompact, RunStep, Start, Resync, Stop,
                    PlanEnd, RunExit, Crash, Probe, vars
      <3>2. ASSUME NEW s \in Streams, StreamStep(s) PROVE stored' = stored
        BY <3>2 DEF StreamStep, StreamStop, StreamDenied, StreamLoad, Relist, ListFail, SaveRV,
                    ListRow, WatchOpen, WatchExpired, WatchBreak, WatchBookmark, WatchDelete,
                    WatchPut
      <3>3. CASE WriterTick \/ WriterClose
        <4>1. rows \in [Uids -> Nat]
          BY <1>1 DEF TypeOK, WriterTypeOK
        <4>. QED  BY <3>3, <4>1 DEF WriterTick, WriterClose, Flush, FlushOK, FlushFail
      <3>4. CASE WriterTake
        <4>. DEFINE it == Head(queue)
                    r  == IF it.kind = "row" THEN [rows EXCEPT ![it.uid] = it.ver] ELSE rows
        <4>1. it \in RowItem \cup StateItem /\ rows \in [Uids -> Nat]
          <5>1. queue # <<>> /\ queue \in Seq(RowItem \cup StateItem) /\ rows \in [Uids -> Nat]
            BY <1>1, <3>4 DEF WriterTake, TypeOK, WriterTypeOK
          <5>. QED  BY <5>1
        <4>2. r \in [Uids -> Nat]
          BY <4>1 DEF RowItem, StateItem
        <4>3. stored' = stored \/ stored' = Upsert(r)
          BY <3>4 DEF WriterTake, Flush, FlushOK, FlushFail
        <4>. QED  BY <4>2, <4>3
      <3>. QED  BY <1>1, <3>1, <3>2, <3>3, <3>4 DEF Next, WriterStep
    <2>2. \A u \in Uids : stored[u] \in Nat
      BY <1>1 DEF TypeOK, StoreTypeOK
    <2>. QED  BY <2>1, <2>2 DEF Upsert
  <1>2. TypeOK /\ [Next]_vars => [\A u \in Uids : stored'[u] >= stored[u]]_vars
    BY <1>1
  <1>. QED  BY <1>2, TypeCorrect, PTL DEF Spec, StoredNeverRegresses

-------------------------------------------------------------------------------
(* Until a plan is started again, the stored rows are exact.               *)

\* The versions of an event on their way to the database; 0 stands for none.
InFlight(u) == {rows[u]} \cup {queue[k].ver : k \in Queued(u)}

\* The server holds no older version of the event than v.
Recent(u, v) == obj[u] = 0 \/ v <= obj[u]

\* What the server holds of an event is its last version.
LatestHeld ==
    \A u \in Uids :
        /\ obj[u] <= Len(log)
        /\ \A i \in 1..Len(log) : log[i].uid = u /\ log[i].op = "put" => Recent(u, i)

\* The versions of an event are on their way in their order.
InOrder ==
    \A u \in Uids :
        /\ \A v \in InFlight(u) : v <= Len(log) /\ Recent(u, v)
        /\ \A k \in Queued(u) : rows[u] <= queue[k].ver
        /\ \A j, k \in Queued(u) : j < k => queue[j].ver <= queue[k].ver

\* What the stream enqueues next of the event is not older than what is on its way.
Ahead(s, u) ==
    /\ pc[s] = "load" => InFlight(u) = {0}
    /\ pc[s] \in {"rows", "save", "open", "watching"} => \A v \in InFlight(u) : v <= rv[s]
    /\ pc[s] = "rows" /\ todo[s][u] # 0 =>
          todo[s][u] <= rv[s] /\ Recent(u, todo[s][u]) /\ \A v \in InFlight(u) : v <= todo[s][u]

\* Change i is stored or accounted for, by its own or by a later version.
Exactly(i) == stored[log[i].uid] >= i \/ i \in excused \cup dropped

\* Change i, or a later one of its event, is stored, in the batch or in the
\* queue before place k.
Reaches(k, i) ==
    \/ Exactly(i) \/ rows[log[i].uid] >= i
    \/ \E j \in Queued(log[i].uid) : j < k /\ queue[j].ver >= i

BatchExact == \A s \in Streams : \A i \in Claimed(s, states[s].rv) : Reaches(0, i)

QueueExact ==
    \A k \in 1..Len(queue) : queue[k].kind = "state" =>
        \A i \in Claimed(queue[k].stream, queue[k].rv) : Reaches(k, i)

\* A stream is ahead of what is on its way, and its point passes nothing that is not.
StreamExact(s) ==
    /\ \A u \in Uids : (Sees(s, u) => Ahead(s, u)) /\ (pc[s] = "rows" /\ todo[s][u] # 0 => Sees(s, u))
    /\ pc[s] \in {"rows", "save", "open", "watching"} =>
          \A i \in Claimed(s, rv[s]) :
              Reaches(Len(queue) + 1, i) \/ (pc[s] = "rows" /\ todo[s][log[i].uid] >= i)

\* A run has one plan, and a plan one stream for each event.
OnePlan ==
    /\ plan \in Plans \cup {{}} /\ (run = "plan" => plan # {})
    /\ cancel # "resync"
    /\ \A s \in Streams : /\ pc[s] # "idle" => s \in plan
                          /\ pc[s] # "denied" /\ (pc[s] = "stopped" => cancel = "stop")
    /\ run \in {"down", "probe"} => queue = <<>> /\ rows = NoRows

ExactInv ==
    /\ LatestHeld /\ InOrder /\ OnePlan
    /\ ResumePointExact /\ BatchExact /\ QueueExact /\ \A s \in Streams : StreamExact(s)

\* Two streams that are not idle share no event.
LEMMA Owner ==
  ASSUME OnePlan, NEW s \in Streams, NEW q \in Streams, NEW u \in Uids,
         pc[s] # "idle", pc[q] # "idle", Sees(s, u), Sees(q, u)
  PROVE  s = q
  <1>1. s \in plan /\ q \in plan /\ (plan = {Cluster} \/ plan \subseteq Namespaces)
    BY DEF OnePlan, Plans
  <1>2. Cluster \notin Namespaces
    BY RecorderAssumption
  <1>. QED  BY <1>1, <1>2 DEF Sees

\* The versions on their way are numbers, and rows of the queue are typed.
LEMMA FlightTypes ==
  ASSUME TypeOK, NEW u \in Uids
  PROVE  /\ rows[u] \in Nat /\ stored[u] \in Nat /\ obj[u] \in Nat
         /\ \A k \in Queued(u) : k \in 1..Len(queue) /\ queue[k].ver \in Nat /\ queue[k].kind = "row" /\ queue[k].uid = u
         /\ \A v \in InFlight(u) : v \in Nat
  <1>1. rows[u] \in Nat /\ stored[u] \in Nat /\ obj[u] \in Nat
    BY DEF TypeOK, WriterTypeOK, StoreTypeOK, ApiTypeOK
  <1>2. ASSUME NEW k \in Queued(u)
        PROVE  k \in 1..Len(queue) /\ queue[k].ver \in Nat /\ queue[k].kind = "row" /\ queue[k].uid = u
    <2>1. k \in 1..Len(queue) /\ queue[k].kind = "row" /\ queue[k].uid = u
      BY <1>2 DEF Queued
    <2>2. queue[k] \in RowItem \cup StateItem
      BY <2>1 DEF TypeOK, WriterTypeOK
    <2>. QED  BY <2>1, <2>2 DEF RowItem, StateItem
  <1>. QED  BY <1>1, <1>2 DEF InFlight

\* What an appended item adds to what is on its way.
LEMMA FlightAppend ==
  ASSUME TypeOK, NEW it \in RowItem \cup StateItem, queue' = Append(queue, it), rows' = rows
  PROVE  /\ Len(queue') = Len(queue) + 1 /\ queue'[Len(queue) + 1] = it
         /\ \A k \in 1..Len(queue) : queue'[k] = queue[k]
         /\ \A u \in Uids : /\ \A k \in Queued(u)' : k \in Queued(u) \/ (k = Len(queue) + 1 /\ it.kind = "row" /\ it.uid = u)
                            /\ Queued(u) \subseteq Queued(u)'
                            /\ \A v \in InFlight(u)' : v \in InFlight(u) \/ (it.kind = "row" /\ it.uid = u /\ v = it.ver)
         /\ it.kind = "row" => Len(queue) + 1 \in Queued(it.uid)'
  <1>1. /\ Len(queue') = Len(queue) + 1 /\ queue'[Len(queue) + 1] = it
        /\ \A k \in 1..Len(queue) : queue'[k] = queue[k]
        /\ Len(queue) \in Nat
    BY DEF TypeOK, WriterTypeOK
  <1>2. ASSUME NEW u \in Uids
        PROVE  /\ \A k \in Queued(u)' : k \in Queued(u) \/ (k = Len(queue) + 1 /\ it.kind = "row" /\ it.uid = u)
               /\ Queued(u) \subseteq Queued(u)'
    <2>1. \A k \in 1..Len(queue') : k \in 1..Len(queue) \/ k = Len(queue) + 1
      BY <1>1
    <2>2. \A k \in 1..Len(queue) : k \in 1..Len(queue')
      BY <1>1
    <2>. QED  BY <1>1, <2>1, <2>2 DEF Queued
  <1>3. ASSUME NEW u \in Uids, NEW v \in InFlight(u)'
        PROVE  v \in InFlight(u) \/ (it.kind = "row" /\ it.uid = u /\ v = it.ver)
    <2>1. v = rows[u] \/ \E k \in Queued(u)' : v = queue'[k].ver
      BY <1>3 DEF InFlight
    <2>2. ASSUME NEW k \in Queued(u)', v = queue'[k].ver PROVE v \in InFlight(u) \/ (it.kind = "row" /\ it.uid = u /\ v = it.ver)
      <3>1. CASE k \in Queued(u)
        <4>1. k \in 1..Len(queue)
          BY <3>1 DEF Queued
        <4>. QED  BY <1>1, <2>2, <3>1, <4>1 DEF InFlight
      <3>2. CASE k = Len(queue) + 1 /\ it.kind = "row" /\ it.uid = u
        BY <1>1, <2>2, <3>2
      <3>. QED  BY <1>2, <3>1, <3>2
    <2>. QED  BY <2>1, <2>2 DEF InFlight
  <1>4. it.kind = "row" => Len(queue) + 1 \in Queued(it.uid)'
    <2>1. Len(queue) + 1 \in 1..Len(queue')
      BY <1>1
    <2>. QED  BY <1>1, <2>1 DEF Queued
  <1>. QED  BY <1>1, <1>2, <1>3, <1>4

\* A change that was reached still is when an item is appended.
LEMMA ReachesAppend ==
  ASSUME TypeOK, NEW it \in RowItem \cup StateItem, queue' = Append(queue, it),
         UNCHANGED <<log, rows, stored, excused, dropped>>, NEW i \in 1..Len(log)
  PROVE  /\ \A k \in Nat : Reaches(k, i) => Reaches(k, i)'
         /\ Reaches(Len(queue) + 1, i) => Reaches(Len(queue) + 1, i)'
         /\ it.kind = "row" /\ it.uid = log[i].uid /\ it.ver >= i => Reaches(Len(queue) + 1, i)'
  <1>1. PICK u \in Uids : u = log[i].uid /\ u = log'[i].uid
    BY LogEntry
  <1>2. /\ Len(queue') = Len(queue) + 1 /\ queue'[Len(queue) + 1] = it
        /\ \A k \in 1..Len(queue) : queue'[k] = queue[k]
        /\ Queued(u) \subseteq Queued(u)'
        /\ it.kind = "row" => Len(queue) + 1 \in Queued(it.uid)'
        /\ Len(queue) \in Nat
    BY FlightAppend DEF TypeOK, WriterTypeOK
  <1>3. \A j \in Queued(u) : j \in 1..Len(queue) /\ j \in Queued(u)' /\ queue'[j] = queue[j] /\ j < Len(queue) + 1 + 1
    BY <1>2 DEF Queued
  <1>4. (Exactly(i) => Exactly(i)') /\ rows'[u] = rows[u]
    BY DEF Exactly
  <1>5. \A k \in Nat : Reaches(k, i) => Reaches(k, i)'
    BY <1>1, <1>3, <1>4 DEF Reaches
  <1>6. Reaches(Len(queue) + 1, i) => Reaches(Len(queue) + 1, i)'
    <2>1. PICK m \in Nat : m = Len(queue) + 1 /\ Len(queue') + 1 = m + 1
      BY <1>2
    <2>2. Reaches(m, i) => Reaches(m + 1, i)'
      BY <1>1, <1>3, <1>4, <2>1 DEF Reaches
    <2>3. Reaches(Len(queue) + 1, i)' <=> Reaches(m + 1, i)'
      BY <2>1
    <2>. QED  BY <2>1, <2>2, <2>3
  <1>7. it.kind = "row" /\ it.uid = log[i].uid /\ it.ver >= i => Reaches(Len(queue) + 1, i)'
    <2>1. SUFFICES ASSUME it.kind = "row", it.uid = u, it.ver >= i PROVE Reaches(Len(queue) + 1, i)'
      BY <1>1
    <2>2. Len(queue) + 1 \in Queued(u)' /\ queue'[Len(queue) + 1].ver >= i /\ Len(queue) + 1 < Len(queue') + 1
      BY <1>2, <2>1
    <2>. QED  BY <1>1, <2>2 DEF Reaches
  <1>. QED  BY <1>5, <1>6, <1>7

\* A step that touches neither what the server holds nor what is on its way: what
\* is left to show is the stream that moves.
LEMMA MoveExact ==
  ASSUME TypeOK, ExactInv, OnePlan',
         UNCHANGED <<log, obj, queue, rows, states, stored, saved>>,
         excused \subseteq excused', dropped \subseteq dropped',
         \A s \in Streams : \/ pc'[s] = pc[s] /\ rv'[s] = rv[s] /\ todo'[s] = todo[s]
                            \/ StreamExact(s)'
  PROVE  ExactInv'
  <1>1. \A s, n : Claimed(s, n)' = Claimed(s, n)
    BY DEF Claimed
  <1>2. \A i : Exactly(i) => Exactly(i)'
    BY DEF Exactly
  <1>3. \A u : Queued(u)' = Queued(u) /\ InFlight(u)' = InFlight(u)
    BY DEF Queued, InFlight
  <1>4. \A k, i : Reaches(k, i) => Reaches(k, i)'
    BY <1>2, <1>3 DEF Reaches
  <1>5. LatestHeld' /\ InOrder'
    BY <1>3 DEF ExactInv, LatestHeld, InOrder, Recent
  <1>6. ResumePointExact' /\ BatchExact' /\ QueueExact'
    <2>1. ResumePointExact'
      BY <1>1 DEF ExactInv, ResumePointExact
    <2>2. BatchExact'
      BY <1>1, <1>4 DEF ExactInv, BatchExact
    <2>3. QueueExact'
      BY <1>1, <1>4 DEF ExactInv, QueueExact
    <2>. QED  BY <2>1, <2>2, <2>3
  <1>7. ASSUME NEW s \in Streams, pc'[s] = pc[s], rv'[s] = rv[s], todo'[s] = todo[s]
        PROVE  StreamExact(s)'
    <2>1. StreamExact(s)
      BY DEF ExactInv
    <2>2. \A u \in Uids : Ahead(s, u) => Ahead(s, u)'
      BY <1>3, <1>7 DEF Ahead, Recent
    <2>. QED  BY <1>1, <1>4, <1>7, <2>1, <2>2 DEF StreamExact, Sees
  <1>. QED  BY <1>5, <1>6, <1>7 DEF ExactInv

\* An appended row must not be older than what is on its way, and nobody else may
\* have rows of its event; a resume point follows the rows that it passes.
LEMMA EnqueueExact ==
  ASSUME TypeOK, ExactInv, OnePlan', NEW it \in RowItem \cup StateItem, queue' = Append(queue, it),
         UNCHANGED <<log, obj, rows, states, stored, saved, excused, dropped>>,
         it.kind = "row" => it.ver <= Len(log) /\ Recent(it.uid, it.ver) /\ \A v \in InFlight(it.uid) : v <= it.ver,
         it.kind = "state" => \A i \in Claimed(it.stream, it.rv) : Reaches(Len(queue) + 1, i),
         \A s \in Streams : \/ /\ pc'[s] = pc[s] /\ rv'[s] = rv[s] /\ todo'[s] = todo[s]
                               /\ it.kind = "row" /\ Sees(s, it.uid) => pc[s] = "idle"
                            \/ StreamExact(s)'
  PROVE  ExactInv'
  <1>0. Len(queue) \in Nat
    BY DEF TypeOK, WriterTypeOK
  <1>1. \A s, n : Claimed(s, n)' = Claimed(s, n) /\ Claimed(s, n) \subseteq 1..Len(log)
    BY DEF Claimed
  <1>2. /\ Len(queue') = Len(queue) + 1 /\ queue'[Len(queue) + 1] = it
        /\ \A k \in 1..Len(queue) : queue'[k] = queue[k]
        /\ \A u \in Uids : /\ \A k \in Queued(u)' : k \in Queued(u) \/ (k = Len(queue) + 1 /\ it.kind = "row" /\ it.uid = u)
                           /\ \A v \in InFlight(u)' : v \in InFlight(u) \/ (it.kind = "row" /\ it.uid = u /\ v = it.ver)
    BY FlightAppend
  <1>3. ASSUME NEW i \in 1..Len(log)
        PROVE  /\ \A k \in Nat : Reaches(k, i) => Reaches(k, i)'
               /\ Reaches(Len(queue) + 1, i) => Reaches(Len(queue) + 1, i)'
    BY ReachesAppend
  <1>4. LatestHeld'
    BY DEF ExactInv, LatestHeld, Recent
  <1>5. InOrder'
    <2>1. SUFFICES ASSUME NEW u \in Uids
                   PROVE  /\ \A v \in InFlight(u)' : v <= Len(log) /\ Recent(u, v)
                          /\ \A k \in Queued(u)' : rows[u] <= queue'[k].ver
                          /\ \A j, k \in Queued(u)' : j < k => queue'[j].ver <= queue'[k].ver
      BY DEF InOrder, Recent
    <2>2. InOrder
      BY DEF ExactInv
    <2>3. \A k \in Queued(u) : k \in 1..Len(queue) /\ queue'[k] = queue[k] /\ queue[k].ver \in InFlight(u)
      BY <1>2 DEF Queued, InFlight
    <2>4. rows[u] \in InFlight(u)
      BY DEF InFlight
    <2>5. \A v \in InFlight(u)' : v <= Len(log) /\ Recent(u, v)
      BY <1>2, <2>2 DEF InOrder
    <2>6. ASSUME NEW k \in Queued(u)' PROVE rows[u] <= queue'[k].ver
      <3>1. CASE k \in Queued(u)
        BY <2>2, <2>3, <3>1 DEF InOrder
      <3>2. CASE k = Len(queue) + 1 /\ it.kind = "row" /\ it.uid = u
        BY <1>2, <2>4, <3>2
      <3>. QED  BY <1>2, <3>1, <3>2
    <2>7. ASSUME NEW j \in Queued(u)', NEW k \in Queued(u)', j < k PROVE queue'[j].ver <= queue'[k].ver
      <3>1. CASE j \in Queued(u) /\ k \in Queued(u)
        BY <2>2, <2>3, <2>7, <3>1 DEF InOrder
      <3>2. CASE j \in Queued(u) /\ k = Len(queue) + 1 /\ it.kind = "row" /\ it.uid = u
        BY <1>2, <2>3, <3>2
      <3>3. CASE j = Len(queue) + 1
        <4>1. k \in 1..Len(queue) \/ k = Len(queue) + 1
          BY <1>2, <2>3
        <4>. QED  BY <1>0, <2>7, <3>3, <4>1
      <3>. QED  BY <1>2, <3>1, <3>2, <3>3
    <2>. QED  BY <2>5, <2>6, <2>7
  <1>6. ResumePointExact'
    BY <1>1 DEF ExactInv, ResumePointExact
  <1>7. BatchExact'
    <2>1. ASSUME NEW s \in Streams, NEW i \in Claimed(s, states[s].rv) PROVE Reaches(0, i)'
      BY <1>1, <1>3 DEF ExactInv, BatchExact
    <2>. QED  BY <1>1, <2>1 DEF BatchExact
  <1>8. QueueExact'
    <2>1. SUFFICES ASSUME NEW k \in 1..Len(queue'), queue'[k].kind = "state",
                          NEW i \in Claimed(queue'[k].stream, queue'[k].rv)
                   PROVE  Reaches(k, i)'
      BY <1>1 DEF QueueExact
    <2>2. CASE k \in 1..Len(queue)
      <3>1. Reaches(k, i) /\ k \in Nat /\ i \in 1..Len(log)
        BY <1>1, <1>2, <2>1, <2>2 DEF ExactInv, QueueExact
      <3>. QED  BY <1>3, <3>1
    <2>3. CASE k = Len(queue) + 1
      <3>1. PICK m \in Nat : m = Len(queue) + 1
        BY <1>0
      <3>2. Reaches(m, i) /\ i \in 1..Len(log)
        BY <1>1, <1>2, <2>1, <2>3, <3>1
      <3>. QED  BY <1>3, <2>3, <3>1, <3>2
    <2>. QED  BY <1>0, <1>2, <2>2, <2>3
  <1>9. ASSUME NEW s \in Streams, pc'[s] = pc[s], rv'[s] = rv[s], todo'[s] = todo[s],
               it.kind = "row" /\ Sees(s, it.uid) => pc[s] = "idle"
        PROVE  StreamExact(s)'
    <2>1. StreamExact(s)
      BY DEF ExactInv
    <2>2. ASSUME NEW u \in Uids, Sees(s, u) PROVE Ahead(s, u)'
      <3>1. CASE pc[s] = "idle"
        BY <1>9, <3>1 DEF Ahead
      <3>2. CASE ~(it.kind = "row" /\ it.uid = u)
        <4>1. InFlight(u)' \subseteq InFlight(u) /\ rows[u] \in InFlight(u)'
          BY <1>2, <3>2 DEF InFlight
        <4>2. Ahead(s, u)
          BY <2>1, <2>2 DEF StreamExact
        <4>. QED  BY <1>9, <4>1, <4>2 DEF Ahead, Recent
      <3>. QED  BY <1>9, <2>2, <3>1, <3>2
    <2>3. \A i \in Claimed(s, rv[s]) : Reaches(Len(queue) + 1, i) => Reaches(Len(queue) + 1, i)'
      BY <1>1, <1>3
    <2>. QED  BY <1>1, <1>9, <2>1, <2>2, <2>3 DEF StreamExact, Sees
  <1>. QED  BY <1>4, <1>5, <1>6, <1>7, <1>8, <1>9 DEF ExactInv

\* A batch that is kept, written or given up leaves nothing behind that it held.
LEMMA BatchStep ==
  ASSUME TypeOK, ResumePointExact, NEW r \in [Uids -> Nat], NEW st \in [Streams -> Point],
         Flush(r, st) \/ (rows' = r /\ states' = st /\ UNCHANGED <<stored, saved, dropped>>),
         UNCHANGED <<log, excused>>,
         \A s \in Streams : \A i \in Claimed(s, st[s].rv) : Exactly(i) \/ r[log[i].uid] >= i
  PROVE  /\ ResumePointExact'
         /\ \A i \in 1..Len(log) : log[i].op = "put" /\ (Exactly(i) \/ r[log[i].uid] >= i)
                                      => Exactly(i)' \/ rows'[log[i].uid] >= i
         /\ \A s \in Streams : \A i \in Claimed(s, states'[s].rv) : Exactly(i)' \/ rows'[log[i].uid] >= i
         /\ \A u \in Uids : rows'[u] = 0 \/ rows'[u] = r[u]
  <1>0. /\ \A s, n : Claimed(s, n)' = Claimed(s, n)
        /\ \A s, n : \A i \in Claimed(s, n) : i \in 1..Len(log) /\ log[i].op = "put"
        /\ \A i \in 1..Len(log) : log[i].uid \in Uids /\ i \in Nat \ {0} /\ log'[i] = log[i]
        /\ \A s \in Streams : Claimed(s, NoStates[s].rv) = {}
    <2>1. \A s \in Streams : NoStates[s].rv = -1
      BY NoPointType DEF NoStates, Absent
    <2>2. \A s \in Streams : Claimed(s, NoStates[s].rv) = {}
      BY <2>1 DEF Claimed
    <2>. QED  BY <2>2, LogEntry DEF Claimed
  <1>1. CASE FlushOK(r, st)
    <2>1. stored' = Upsert(r) /\ saved' = SavePoints(st) /\ states' = NoStates /\ rows' = NoRows /\ dropped' = dropped
      BY <1>1 DEF FlushOK
    <2>2. \A i \in 1..Len(log) : Exactly(i) \/ r[log[i].uid] >= i => Exactly(i)'
      <3>1. \A u \in Uids : stored[u] \in Nat /\ stored'[u] \in Nat /\ stored'[u] >= stored[u] /\ stored'[u] >= r[u] /\ r[u] \in Nat
        BY <2>1 DEF Upsert, TypeOK, StoreTypeOK
      <3>. QED  BY <1>0, <2>1, <3>1 DEF Exactly
    <2>3. ResumePointExact'
      <3>1. ASSUME NEW s \in Streams, NEW i \in Claimed(s, saved'[s].rv) PROVE Exactly(i)'
        <4>1. saved'[s] = st[s] \/ saved'[s] = saved[s]
          BY <2>1 DEF SavePoints
        <4>2. Exactly(i) \/ r[log[i].uid] >= i
          BY <3>1, <4>1 DEF ResumePointExact, Exactly
        <4>. QED  BY <1>0, <2>2, <4>2
      <3>. QED  BY <1>0, <3>1 DEF ResumePointExact, Exactly
    <2>. QED  BY <1>0, <2>1, <2>2, <2>3 DEF NoRows
  <1>2. CASE FlushFail(r, st)
    <2>1. /\ stored' = stored /\ saved' = saved
          /\ \/ rows' = NoRows /\ states' = NoStates /\ dropped' = dropped \cup Backlog(r)
             \/ rows' = r /\ states' = st /\ dropped' = dropped
      BY <1>2 DEF FlushFail, storeVars
    <2>2. \A i \in 1..Len(log) : Exactly(i) => Exactly(i)'
      BY <2>1 DEF Exactly
    <2>3. ResumePointExact'
      BY <1>0, <2>1, <2>2 DEF ResumePointExact, Exactly
    <2>4. CASE rows' = NoRows /\ states' = NoStates /\ dropped' = dropped \cup Backlog(r)
      <3>1. ASSUME NEW i \in 1..Len(log), log[i].op = "put", r[log[i].uid] >= i PROVE Exactly(i)'
        <4>1. PICK u \in Uids : u = log[i].uid
          BY <1>0
        <4>2. stored[u] \in Nat /\ r[u] \in Nat /\ i \in Nat \ {0}
          BY <1>0 DEF TypeOK, StoreTypeOK
        <4>3. stored[u] >= i \/ (r[u] # 0 /\ stored[u] < i)
          BY <3>1, <4>1, <4>2
        <4>4. stored[u] >= i \/ i \in Backlog(r)
          BY <3>1, <4>1, <4>3 DEF Backlog
        <4>. QED  BY <2>1, <2>4, <4>1, <4>4 DEF Exactly
      <3>. QED  BY <1>0, <2>2, <2>3, <2>4, <3>1 DEF NoRows
    <2>5. CASE rows' = r /\ states' = st /\ dropped' = dropped
      <3>1. \A s \in Streams : \A i \in Claimed(s, st[s].rv) : Exactly(i)' \/ rows'[log[i].uid] >= i
        BY <1>0, <2>2, <2>5
      <3>. QED  BY <1>0, <2>2, <2>3, <2>5, <3>1
    <2>. QED  BY <2>1, <2>4, <2>5
  <1>3. CASE rows' = r /\ states' = st /\ UNCHANGED <<stored, saved, dropped>>
    <2>1. \A i \in 1..Len(log) : Exactly(i) => Exactly(i)'
      BY <1>3 DEF Exactly
    <2>2. ResumePointExact'
      BY <1>0, <1>3 DEF ResumePointExact
    <2>3. \A s \in Streams : \A i \in Claimed(s, st[s].rv) : Exactly(i)' \/ rows'[log[i].uid] >= i
      BY <1>0, <1>3, <2>1
    <2>. QED  BY <1>3, <2>1, <2>2, <2>3
  <1>. QED  BY <1>1, <1>2, <1>3 DEF Flush

\* Taking the first item of the queue keeps the order of what is on its way.
LEMMA FlightTake ==
  ASSUME TypeOK, InOrder, NEW r \in [Uids -> Nat], queue # <<>>, queue' = Tail(queue),
         r = IF Head(queue).kind = "row" THEN [rows EXCEPT ![Head(queue).uid] = Head(queue).ver] ELSE rows
  PROVE  /\ Len(queue) \in Nat \ {0} /\ Len(queue') = Len(queue) - 1
         /\ \A k \in 1..Len(queue') : queue'[k] = queue[k + 1] /\ k + 1 \in 1..Len(queue)
         /\ \A u \in Uids : /\ \A k \in Queued(u)' : k \in 1..Len(queue') /\ k + 1 \in Queued(u)
                            /\ \A k \in Queued(u) : k # 1 => k - 1 \in Queued(u)' /\ queue'[k - 1] = queue[k]
                            /\ 1 \in Queued(u) => r[u] = queue[1].ver
                            /\ rows[u] <= r[u] /\ r[u] \in InFlight(u)
                            /\ \A k \in Queued(u) : r[u] <= queue[k].ver
  <1>1. /\ Len(queue) \in Nat \ {0} /\ Len(queue') = Len(queue) - 1
        /\ \A k \in 1..Len(queue') : queue'[k] = queue[k + 1] /\ k + 1 \in 1..Len(queue)
        /\ Head(queue) = queue[1] /\ queue[1] \in RowItem \cup StateItem /\ 1 \in 1..Len(queue)
    BY DEF TypeOK, WriterTypeOK
  <1>2. ASSUME NEW u \in Uids
        PROVE  /\ \A k \in Queued(u)' : k \in 1..Len(queue') /\ k + 1 \in Queued(u)
               /\ \A k \in Queued(u) : k # 1 => k - 1 \in Queued(u)' /\ queue'[k - 1] = queue[k]
    <2>1. \A k \in 1..Len(queue) : k # 1 => k - 1 \in 1..Len(queue') /\ (k - 1) + 1 = k
      BY <1>1
    <2>2. \A k \in 1..Len(queue) : k # 1 => queue'[k - 1] = queue[k]
      BY <1>1, <2>1
    <2>. QED  BY <1>1, <2>1, <2>2 DEF Queued
  <1>3. ASSUME NEW u \in Uids
        PROVE  /\ 1 \in Queued(u) => r[u] = queue[1].ver
               /\ rows[u] <= r[u] /\ r[u] \in InFlight(u)
               /\ \A k \in Queued(u) : r[u] <= queue[k].ver
    <2>1. CASE 1 \in Queued(u)
      <3>1. queue[1].kind = "row" /\ queue[1].uid = u
        BY <2>1 DEF Queued
      <3>2. r[u] = queue[1].ver
        BY <1>1, <3>1 DEF TypeOK, WriterTypeOK
      <3>3. rows[u] <= queue[1].ver /\ queue[1].ver \in InFlight(u)
        BY <2>1 DEF InOrder, InFlight
      <3>4. \A k \in Queued(u) : queue[1].ver <= queue[k].ver
        <4>1. \A k \in Queued(u) : k \in 1..Len(queue) /\ queue[k].ver \in Nat
          BY FlightTypes
        <4>2. \A k \in Queued(u) : k = 1 \/ 1 < k
          BY <4>1, <1>1
        <4>. QED  BY <2>1, <4>1, <4>2 DEF InOrder
      <3>. QED  BY <3>2, <3>3, <3>4
    <2>2. CASE 1 \notin Queued(u)
      <3>1. r[u] = rows[u]
        BY <1>1, <2>2 DEF Queued, TypeOK, WriterTypeOK
      <3>2. rows[u] \in Nat
        BY FlightTypes
      <3>. QED  BY <2>2, <3>1, <3>2 DEF InOrder, InFlight
    <2>. QED  BY <2>1, <2>2
  <1>. QED  BY <1>1, <1>2, <1>3

\* A step of the writer: its new batch holds what it held and what it took, or
\* nothing of it is needed any more.
LEMMA WriterExact ==
  ASSUME TypeOK, ExactInv, OnePlan', NEW r \in [Uids -> Nat],
         UNCHANGED <<log, obj, pc, rv, todo>>, ResumePointExact',
         \A i \in 1..Len(log) : log[i].op = "put" /\ (Exactly(i) \/ r[log[i].uid] >= i)
                                   => Exactly(i)' \/ rows'[log[i].uid] >= i,
         \A s \in Streams : \A i \in Claimed(s, states'[s].rv) : Exactly(i)' \/ rows'[log[i].uid] >= i,
         \A u \in Uids : rows'[u] = 0 \/ rows'[u] = r[u],
         \/ queue' = queue /\ r = rows
         \/ /\ queue # <<>> /\ queue' = Tail(queue)
            /\ r = IF Head(queue).kind = "row" THEN [rows EXCEPT ![Head(queue).uid] = Head(queue).ver] ELSE rows
  PROVE  ExactInv'
  <1>0. /\ \A s, n : Claimed(s, n)' = Claimed(s, n)
        /\ \A s, n : \A i \in Claimed(s, n) : i \in 1..Len(log) /\ log[i].op = "put" /\ log'[i] = log[i] /\ log[i].uid \in Uids /\ i \in Nat
        /\ Len(queue) \in Nat /\ Len(log) \in Nat /\ InOrder
    <2>1. \A i \in 1..Len(log) : log[i].uid \in Uids /\ i \in Nat
      BY LogEntry
    <2>. QED  BY <2>1 DEF Claimed, TypeOK, WriterTypeOK, ApiTypeOK, ExactInv
  <1>1. PICK d \in {0, 1} :
          /\ Len(queue) = Len(queue') + d /\ Len(queue') \in Nat
          /\ \A k \in 1..Len(queue') : queue'[k] = queue[k + d] /\ k + d \in 1..Len(queue)
          /\ \A u \in Uids : /\ \A k \in Queued(u)' : k \in 1..Len(queue') /\ k + d \in Queued(u)
                             /\ \A k \in Queued(u) : \/ r[u] >= queue[k].ver
                                                     \/ k - d \in Queued(u)' /\ queue'[k - d] = queue[k]
                             /\ rows[u] <= r[u] /\ r[u] \in InFlight(u)
                             /\ \A k \in Queued(u) : r[u] <= queue[k].ver
    <2>1. CASE queue' = queue /\ r = rows
      <3>1. \A u \in Uids : /\ \A k \in Queued(u) : k \in 1..Len(queue)
                            /\ Queued(u)' = Queued(u) /\ rows[u] \in Nat /\ rows[u] \in InFlight(u)
        BY <2>1, FlightTypes DEF Queued, InFlight
      <3>2. \A k \in 1..Len(queue) : k + 0 = k /\ k - 0 = k
        BY <1>0
      <3>. QED  BY <1>0, <2>1, <3>1, <3>2 DEF InOrder
    <2>2. CASE /\ queue # <<>> /\ queue' = Tail(queue)
               /\ r = IF Head(queue).kind = "row" THEN [rows EXCEPT ![Head(queue).uid] = Head(queue).ver] ELSE rows
      <3>1. /\ Len(queue) \in Nat \ {0} /\ Len(queue') = Len(queue) - 1
            /\ \A k \in 1..Len(queue') : queue'[k] = queue[k + 1] /\ k + 1 \in 1..Len(queue)
            /\ \A u \in Uids : /\ \A k \in Queued(u)' : k \in 1..Len(queue') /\ k + 1 \in Queued(u)
                               /\ \A k \in Queued(u) : k # 1 => k - 1 \in Queued(u)' /\ queue'[k - 1] = queue[k]
                               /\ 1 \in Queued(u) => r[u] = queue[1].ver
                               /\ rows[u] <= r[u] /\ r[u] \in InFlight(u)
                               /\ \A k \in Queued(u) : r[u] <= queue[k].ver
        BY <1>0, <2>2, FlightTake
      <3>2. Len(queue) = Len(queue') + 1 /\ Len(queue') \in Nat
        BY <3>1
      <3>3. \A u \in Uids : \A k \in Queued(u) : r[u] >= queue[k].ver \/ (k - 1 \in Queued(u)' /\ queue'[k - 1] = queue[k])
        <4>1. \A u \in Uids : \A k \in Queued(u) : queue[k].ver \in Nat
          BY FlightTypes
        <4>. QED  BY <3>1, <4>1
      <3>. QED  BY <3>1, <3>2, <3>3
    <2>. QED  BY <2>1, <2>2
  <1>2. ASSUME NEW u \in Uids, NEW v \in InFlight(u)' PROVE v = 0 \/ v \in InFlight(u)
    <2>1. v = rows'[u] \/ \E k \in Queued(u)' : v = queue'[k].ver
      BY <1>2 DEF InFlight
    <2>2. \A k \in Queued(u)' : queue'[k].ver \in InFlight(u)
      BY <1>1 DEF InFlight
    <2>. QED  BY <1>1, <2>1, <2>2
  <1>3. ASSUME NEW s, NEW n, NEW i \in Claimed(s, n), NEW k \in Nat, Reaches(k + d, i) PROVE Reaches(k, i)'
    <2>1. PICK u \in Uids : u = log[i].uid
      BY <1>0, <1>3
    <2>2. i \in 1..Len(log) /\ log[i].op = "put" /\ log'[i] = log[i] /\ i \in Nat
      BY <1>0, <1>3
    <2>3. rows[u] \in Nat /\ r[u] \in Nat
      BY FlightTypes
    <2>4. CASE Exactly(i) \/ rows[u] >= i
      <3>1. Exactly(i) \/ r[u] >= i
        BY <1>1, <2>2, <2>3, <2>4
      <3>. QED  BY <2>1, <2>2, <3>1 DEF Reaches
    <2>5. ASSUME NEW j \in Queued(u), j < k + d, queue[j].ver >= i PROVE Reaches(k, i)'
      <3>1. queue[j].ver \in Nat /\ j \in 1..Len(queue)
        BY FlightTypes
      <3>2. CASE r[u] >= queue[j].ver
        <4>1. r[u] >= i
          BY <2>2, <2>3, <2>5, <3>1, <3>2
        <4>. QED  BY <2>1, <2>2, <4>1 DEF Reaches
      <3>3. CASE j - d \in Queued(u)' /\ queue'[j - d] = queue[j]
        <4>1. j - d < k
          BY <2>5, <3>1
        <4>. QED  BY <2>1, <2>2, <2>5, <3>3, <4>1 DEF Reaches
      <3>. QED  BY <1>1, <3>2, <3>3
    <2>. QED  BY <1>3, <2>1, <2>4, <2>5 DEF Reaches
  <1>4. LatestHeld'
    BY DEF ExactInv, LatestHeld, Recent
  <1>5. InOrder'
    <2>1. SUFFICES ASSUME NEW u \in Uids
                   PROVE  /\ \A v \in InFlight(u)' : v <= Len(log) /\ Recent(u, v)
                          /\ \A k \in Queued(u)' : rows'[u] <= queue'[k].ver
                          /\ \A j, k \in Queued(u)' : j < k => queue'[j].ver <= queue'[k].ver
      BY DEF InOrder, Recent
    <2>2. 0 <= Len(log) /\ Recent(u, 0) /\ \A k \in Queued(u) : queue[k].ver \in Nat /\ 0 <= queue[k].ver
      BY <1>0, FlightTypes DEF Recent
    <2>3. \A k \in Queued(u)' : k + d \in Queued(u) /\ queue'[k] = queue[k + d] /\ k \in Nat
      BY <1>1
    <2>4. \A j, k \in Queued(u)' : j < k => j + d < k + d
      BY <2>3
    <2>5. \A v \in InFlight(u)' : v <= Len(log) /\ Recent(u, v)
      BY <1>0, <1>2, <2>2 DEF InOrder
    <2>6. \A k \in Queued(u)' : rows'[u] <= queue'[k].ver
      BY <1>1, <2>2, <2>3
    <2>7. \A j, k \in Queued(u)' : j < k => queue'[j].ver <= queue'[k].ver
      BY <1>0, <2>3, <2>4 DEF InOrder
    <2>. QED  BY <2>5, <2>6, <2>7
  <1>6. BatchExact'
    BY <1>0 DEF BatchExact, Reaches
  <1>7. QueueExact'
    <2>1. SUFFICES ASSUME NEW k \in 1..Len(queue'), queue'[k].kind = "state",
                          NEW i \in Claimed(queue'[k].stream, queue'[k].rv)
                   PROVE  Reaches(k, i)'
      BY <1>0 DEF QueueExact
    <2>2. PICK m \in 1..Len(queue) : m = k + d /\ queue'[k] = queue[m]
      BY <1>1
    <2>3. queue[m].kind = "state" /\ i \in Claimed(queue[m].stream, queue[m].rv)
      BY <2>1, <2>2
    <2>4. Reaches(m, i)
      BY <2>3 DEF ExactInv, QueueExact
    <2>5. k \in Nat
      OBVIOUS
    <2>. QED  BY <1>3, <2>2, <2>3, <2>4, <2>5
  <1>8. ASSUME NEW s \in Streams PROVE StreamExact(s)'
    <2>1. StreamExact(s)
      BY DEF ExactInv
    <2>2. ASSUME NEW u \in Uids, Ahead(s, u) PROVE Ahead(s, u)'
      <3>1. pc[s] = "load" => InFlight(u)' = {0}
        BY <1>2, <2>2 DEF Ahead, InFlight
      <3>2. rv[s] \in Nat /\ todo[s][u] \in Nat
        BY DEF TypeOK, StreamTypeOK
      <3>3. pc[s] \in {"rows", "save", "open", "watching"} => \A v \in InFlight(u)' : v <= rv[s]
        BY <1>2, <2>2, <3>2 DEF Ahead
      <3>4. pc[s] = "rows" /\ todo[s][u] # 0 =>
              todo[s][u] <= rv[s] /\ Recent(u, todo[s][u]) /\ \A v \in InFlight(u)' : v <= todo[s][u]
        BY <1>2, <2>2, <3>2 DEF Ahead
      <3>. QED  BY <3>1, <3>3, <3>4 DEF Ahead, Recent
    <2>3. ASSUME NEW i \in Claimed(s, rv[s]), Reaches(Len(queue) + 1, i) PROVE Reaches(Len(queue) + 1, i)'
      <3>1. PICK m \in Nat : m = Len(queue') + 1 /\ m + d = Len(queue) + 1
        BY <1>1
      <3>2. Reaches(m, i)'
        BY <1>3, <2>3, <3>1
      <3>. QED  BY <3>1, <3>2
    <2>4. \A i \in Claimed(s, rv[s]) : log'[i] = log[i]
      BY <1>0
    <2>. QED  BY <1>0, <2>1, <2>2, <2>3, <2>4 DEF StreamExact, Sees
  <1>. QED  BY <1>4, <1>5, <1>6, <1>7, <1>8 DEF ExactInv

\* The API server's log only grows.
LEMMA ApiExact ==
  ASSUME TypeOK, ExactInv, PointsPast, OnePlan', NEW u \in Uids, NEW op \in {"put", "del"},
         log' = Append(log, [uid |-> u, op |-> op]),
         obj' = [obj EXCEPT ![u] = IF op = "put" THEN Len(log) + 1 ELSE 0],
         UNCHANGED <<pc, rv, todo, queue, rows, states, stored, saved, excused, dropped>>
  PROVE  ExactInv'
  <1>0. /\ Len(log) \in Nat /\ Len(log') = Len(log) + 1 /\ log'[Len(log) + 1] = [uid |-> u, op |-> op]
        /\ \A i \in 1..Len(log) : log'[i] = log[i]
        /\ \A w \in Uids : obj[w] \in Nat
    <2>1. [uid |-> u, op |-> op] \in Entry
      BY DEF Entry
    <2>. QED  BY <2>1 DEF TypeOK, ApiTypeOK
  <1>1. ASSUME NEW s, NEW n \in Int, n <= Len(log)
        PROVE  \A i \in Claimed(s, n)' : i \in Claimed(s, n) /\ log'[i] = log[i]
    BY <1>0, <1>1 DEF Claimed, Sees
  <1>2. \A v : Queued(v)' = Queued(v) /\ InFlight(v)' = InFlight(v)
    BY DEF Queued, InFlight
  <1>3. ASSUME NEW i, log'[i] = log[i], NEW k, Reaches(k, i) PROVE Reaches(k, i)'
    BY <1>2, <1>3 DEF Reaches, Exactly
  <1>4. ASSUME NEW w \in Uids, NEW v \in Nat, v <= Len(log), Recent(w, v) PROVE Recent(w, v)'
    <2>1. obj'[w] = 0 \/ obj'[w] = Len(log) + 1 \/ obj'[w] = obj[w]
      BY DEF TypeOK, ApiTypeOK
    <2>. QED  BY <1>0, <1>4, <2>1 DEF Recent
  <1>5. LatestHeld'
    <2>1. ASSUME NEW w \in Uids PROVE obj'[w] <= Len(log')
      <3>1. obj'[w] = 0 \/ obj'[w] = Len(log) + 1 \/ obj'[w] = obj[w]
        BY DEF TypeOK, ApiTypeOK
      <3>2. obj[w] <= Len(log)
        BY DEF ExactInv, LatestHeld
      <3>. QED  BY <1>0, <3>1, <3>2
    <2>2. ASSUME NEW w \in Uids, NEW i \in 1..Len(log'), log'[i].uid = w, log'[i].op = "put" PROVE Recent(w, i)'
      <3>1. CASE i \in 1..Len(log)
        <4>1. Recent(w, i) /\ i \in Nat /\ i <= Len(log)
          BY <1>0, <2>2, <3>1 DEF ExactInv, LatestHeld
        <4>. QED  BY <1>4, <4>1
      <3>2. CASE i = Len(log) + 1
        <4>1. w = u /\ op = "put"
          BY <1>0, <2>2, <3>2
        <4>2. obj'[w] = Len(log) + 1
          BY <4>1 DEF TypeOK, ApiTypeOK
        <4>. QED  BY <1>0, <3>2, <4>2 DEF Recent
      <3>. QED  BY <1>0, <3>1, <3>2
    <2>. QED  BY <2>1, <2>2 DEF LatestHeld
  <1>6. InOrder'
    <2>1. ASSUME NEW w \in Uids, NEW v \in InFlight(w) PROVE v <= Len(log') /\ Recent(w, v)'
      <3>1. v \in Nat /\ v <= Len(log) /\ Recent(w, v)
        BY <2>1, FlightTypes DEF ExactInv, InOrder
      <3>. QED  BY <1>0, <1>4, <3>1
    <2>. QED  BY <1>2, <2>1 DEF ExactInv, InOrder
  <1>7. /\ \A s \in Streams : rv[s] \in Int /\ states[s].rv \in Int /\ saved[s].rv \in Int
        /\ \A k \in 1..Len(queue) : queue[k].kind = "state" => queue[k].rv \in Int
    <2>1. \A s \in Streams : rv[s] \in Nat /\ states[s] \in Point /\ saved[s] \in Point
      BY DEF TypeOK, StreamTypeOK, WriterTypeOK, StoreTypeOK
    <2>2. \A x \in Point : x.rv \in Int
      BY DEF Point, Absent
    <2>3. \A k \in 1..Len(queue) : queue[k] \in RowItem \cup StateItem
      BY DEF TypeOK, WriterTypeOK
    <2>4. \A x \in RowItem \cup StateItem : x.kind = "state" => x.rv \in Int
      BY DEF RowItem, StateItem
    <2>. QED  BY <2>1, <2>2, <2>3, <2>4
  <1>8. ResumePointExact'
    <2>1. SUFFICES ASSUME NEW s \in Streams, NEW i \in Claimed(s, saved[s].rv)'
                   PROVE  stored[log'[i].uid] >= i \/ i \in excused \cup dropped
      BY DEF ResumePointExact
    <2>2. PICK n \in Int : n = saved[s].rv /\ n <= Len(log)
      BY <1>7 DEF PointsPast
    <2>3. i \in Claimed(s, n)'
      BY <2>1, <2>2 DEF Claimed
    <2>4. i \in Claimed(s, n) /\ log'[i] = log[i]
      BY <1>1, <2>2, <2>3
    <2>. QED  BY <2>2, <2>4 DEF ExactInv, ResumePointExact
  <1>9. BatchExact'
    <2>1. SUFFICES ASSUME NEW s \in Streams, NEW i \in Claimed(s, states[s].rv)' PROVE Reaches(0, i)'
      BY DEF BatchExact
    <2>2. PICK n \in Int : n = states[s].rv /\ n <= Len(log)
      BY <1>7 DEF PointsPast
    <2>3. i \in Claimed(s, n)'
      BY <2>1, <2>2 DEF Claimed
    <2>4. i \in Claimed(s, n) /\ log'[i] = log[i]
      BY <1>1, <2>2, <2>3
    <2>. QED  BY <1>3, <2>2, <2>4 DEF ExactInv, BatchExact
  <1>10. QueueExact'
    <2>1. SUFFICES ASSUME NEW k \in 1..Len(queue), queue[k].kind = "state",
                          NEW i \in Claimed(queue[k].stream, queue[k].rv)'
                   PROVE  Reaches(k, i)'
      BY DEF QueueExact
    <2>2. PICK n \in Int : n = queue[k].rv /\ n <= Len(log)
      BY <1>7, <2>1 DEF PointsPast
    <2>q. PICK q : q = queue[k].stream
      OBVIOUS
    <2>3. i \in Claimed(q, n)'
      BY <2>1, <2>2, <2>q DEF Claimed, Sees
    <2>4. i \in Claimed(q, n) /\ log'[i] = log[i]
      BY <1>1, <2>2, <2>3
    <2>. QED  BY <1>3, <2>1, <2>2, <2>q, <2>4 DEF ExactInv, QueueExact
  <1>11. ASSUME NEW s \in Streams PROVE StreamExact(s)'
    <2>1. StreamExact(s)
      BY DEF ExactInv
    <2>2. \A w \in Uids : Ahead(s, w) => Ahead(s, w)'
      <3>1. ASSUME NEW w \in Uids, Recent(w, todo[s][w]), todo[s][w] <= rv[s] PROVE Recent(w, todo[s][w])'
        <4>1. todo[s][w] \in Nat /\ todo[s][w] <= Len(log)
          BY <1>0, <3>1 DEF TypeOK, StreamTypeOK, PointsPast
        <4>. QED  BY <1>4, <3>1, <4>1
      <3>. QED  BY <1>2, <3>1 DEF Ahead, Recent
    <2>3. ASSUME NEW i \in Claimed(s, rv[s])' PROVE i \in Claimed(s, rv[s]) /\ log'[i] = log[i]
      <3>1. PICK n \in Int : n = rv[s] /\ n <= Len(log)
        BY <1>7 DEF PointsPast
      <3>2. i \in Claimed(s, n)'
        BY <2>3, <3>1 DEF Claimed
      <3>. QED  BY <1>1, <3>1, <3>2
    <2>4. \A u1 \in Uids : (Sees(s, u1) => Ahead(s, u1)') /\ (pc[s] = "rows" /\ todo[s][u1] # 0 => Sees(s, u1))
      BY <2>1, <2>2 DEF StreamExact
    <2>5. pc[s] \in {"rows", "save", "open", "watching"} =>
             \A i \in Claimed(s, rv[s])' : Reaches(Len(queue) + 1, i)' \/ (pc[s] = "rows" /\ todo[s][log'[i].uid] >= i)
      BY <1>3, <2>1, <2>3 DEF StreamExact
    <2>. QED  BY <2>4, <2>5 DEF StreamExact, Sees
  <1>. QED  BY <1>5, <1>6, <1>8, <1>9, <1>10, <1>11 DEF ExactInv

\* A plan has a stream.
LEMMA PlansHold == \A p \in Plans : p # {}
  BY DEF Plans

\* Until a plan is started again a run keeps to its one plan, which ends by a stop.
LEMMA NextOnePlan ==
  ASSUME TypeOK, RunIdle, OnePlan, replans' = 0, [Next]_vars
  PROVE  OnePlan' /\ replans = 0
  <1>. USE DEF apiVars, streamVars, writerVars, storeVars, ghostVars, bounds
  <1>0. replans \in Nat
    BY DEF TypeOK, CountTypeOK
  <1>1. CASE ApiStep
    BY <1>1 DEF ApiStep, ApiPut, ApiDelete, ApiCompact, OnePlan
  <1>2. CASE WriterStep
    <2>1. UNCHANGED <<cancel, plan, pc, replans>> /\ (run' = run \/ run' = "down")
      BY <1>2 DEF WriterStep, WriterTake, WriterTick, WriterClose
    <2>2. run' = "down" /\ run # "down" => queue' = <<>> /\ rows' = NoRows
      BY <1>2 DEF WriterStep, WriterTake, WriterTick, WriterClose
    <2>3. queue = <<>> /\ rows = NoRows => queue' = <<>> /\ (rows' = NoRows)
      BY <1>2 DEF WriterStep, WriterTake, WriterTick, WriterClose, Flush, FlushOK, FlushFail
    <2>. QED  BY <2>1, <2>2, <2>3 DEF OnePlan
  <1>3. CASE Start \/ Stop \/ UNCHANGED vars
    BY <1>3 DEF Start, Stop, OnePlan, vars
  <1>4. CASE Resync
    BY <1>0, <1>4 DEF Resync
  <1>5. CASE PlanEnd
    <2>1. plan # {} /\ plan \subseteq Streams /\ cancel # "stop" /\ \A s \in plan : pc[s] \in {"stopped", "denied"}
      BY <1>5 DEF PlanEnd, OnePlan, TypeOK, StreamTypeOK
    <2>. QED  BY <2>1 DEF OnePlan
  <1>6. CASE RunExit
    BY <1>6 DEF RunExit, OnePlan, Idle, Plans
  <1>7. CASE Crash
    BY <1>7 DEF Crash, OnePlan, Idle, Plans
  <1>8. ASSUME NEW a \in Apis, NEW p \in Plans, Probe(a, p) PROVE OnePlan' /\ replans = 0
    <2>1. p # {}
      BY PlansHold
    <2>2. /\ run' = "plan" /\ plan' = p /\ cancel' = "none" /\ replans' = replans
          /\ \A s \in Streams : pc'[s] = IF s \in p THEN "load" ELSE "idle"
      BY <1>8 DEF Probe
    <2>. QED  BY <2>1, <2>2 DEF OnePlan
  <1>9. ASSUME NEW s \in Streams, StreamStep(s) PROVE OnePlan' /\ replans = 0
    <2>0. pc \in [Streams -> Places]
      BY DEF TypeOK, StreamTypeOK
    <2>1. pc[s] # "idle" /\ pc[s] \notin {"stopped", "denied"}
      BY <1>9 DEF StreamStep, StreamStop, StreamDenied, StreamLoad, Relist, ListFail, SaveRV,
                  ListRow, WatchOpen, WatchExpired, WatchBreak, WatchBookmark, WatchDelete,
                  WatchPut, Calling
    <2>2. run = "plan"
      BY <2>1 DEF RunIdle, Idle
    <2>3. UNCHANGED <<run, plan, cancel>>
      BY <1>9 DEF StreamStep, StreamStop, StreamDenied, StreamLoad, Relist, ListFail, SaveRV,
                  ListRow, WatchOpen, WatchExpired, WatchBreak, WatchBookmark, WatchDelete,
                  WatchPut
    <2>4. CASE StreamDenied(s)
      BY <1>0, <2>4 DEF StreamDenied
    <2>5. CASE StreamStop(s)
      <3>1. /\ cancel # "none" /\ cancel \in {"none", "resync", "stop"} /\ replans' = replans
            /\ pc'[s] = "stopped" /\ \A q \in Streams \ {s} : pc'[q] = pc[q]
        BY <2>0, <2>5 DEF StreamStop, TypeOK, StreamTypeOK
      <3>2. \A q \in Streams : /\ pc'[q] # "idle" => q \in plan
                             /\ pc'[q] # "denied" /\ (pc'[q] = "stopped" => cancel = "stop")
        BY <2>1, <3>1 DEF OnePlan
      <3>. QED  BY <2>2, <2>3, <3>1, <3>2 DEF OnePlan
    <2>6. CASE ~StreamDenied(s) /\ ~StreamStop(s)
      <3>1. /\ replans' = replans
            /\ \/ pc' = pc
               \/ \E x \in {"open", "list", "rows", "watching", "save"} : pc' = [pc EXCEPT ![s] = x]
        BY <1>9, <2>6
        DEF StreamStep, StreamLoad, Relist, ListFail, SaveRV, ListRow, WatchOpen, WatchExpired,
            WatchBreak, WatchBookmark, WatchDelete, WatchPut
      <3>2. pc'[s] \notin {"stopped", "denied"} /\ \A q \in Streams \ {s} : pc'[q] = pc[q]
        BY <2>0, <2>1, <3>1
      <3>3. \A q \in Streams : /\ pc'[q] # "idle" => q \in plan
                             /\ pc'[q] # "denied" /\ (pc'[q] = "stopped" => cancel = "stop")
        BY <2>1, <3>2 DEF OnePlan
      <3>4. /\ plan' \in Plans \cup {{}} /\ (run' = "plan" => plan' # {}) /\ cancel' # "resync" /\ run' = "plan"
        BY <2>2, <2>3 DEF OnePlan
      <3>. QED  BY <2>3, <3>1, <3>3, <3>4 DEF OnePlan
    <2>. QED  BY <2>4, <2>5, <2>6
  <1>. QED  BY <1>1, <1>2, <1>3, <1>4, <1>5, <1>6, <1>7, <1>8, <1>9 DEF Next, RunStep

\* A process that is down has nothing on its way: what is stored stays exact.
LEMMA DownExact ==
  ASSUME TypeOK, LatestHeld, OnePlan', UNCHANGED <<log, obj>>, ResumePointExact',
         queue' = <<>>, rows' = NoRows, states' = NoStates, pc' = Idle
  PROVE  ExactInv'
  <1>0. /\ \A s \in Streams : Claimed(s, states[s].rv)' = {} /\ pc'[s] = "idle"
        /\ \A u \in Uids : rows'[u] = 0 /\ Queued(u)' = {}
        /\ Len(queue') = 0
    <2>1. \A s \in Streams : states'[s].rv = -1
      BY NoPointType DEF NoStates, Absent
    <2>2. \A s \in Streams : Claimed(s, states[s].rv)' = {}
      BY <2>1 DEF Claimed
    <2>3. Len(queue') = 0 /\ 1..Len(queue') = {}
      OBVIOUS
    <2>4. \A u \in Uids : rows'[u] = 0 /\ Queued(u)' = {}
      BY <2>3 DEF Queued, NoRows
    <2>5. \A s \in Streams : pc'[s] = "idle"
      BY DEF Idle
    <2>. QED  BY <2>2, <2>3, <2>4, <2>5
  <1>t. Len(log) \in Nat /\ \A u \in Uids : obj[u] \in Nat
    BY DEF TypeOK, ApiTypeOK
  <1>1. LatestHeld'
    BY DEF LatestHeld, Recent
  <1>2. InOrder'
    <2>1. \A u \in Uids : InFlight(u)' = {0}
      BY <1>0 DEF InFlight
    <2>2. \A u \in Uids : Recent(u, 0)'
      BY <1>t DEF Recent
    <2>. QED  BY <1>0, <1>t, <2>1, <2>2 DEF InOrder
  <1>3. BatchExact'
    BY <1>0 DEF BatchExact
  <1>4. QueueExact'
    BY <1>0 DEF QueueExact
  <1>5. \A s \in Streams : StreamExact(s)'
    BY <1>0 DEF StreamExact, Ahead
  <1>. QED  BY <1>1, <1>2, <1>3, <1>4, <1>5 DEF ExactInv

\* A stream that moves on past changes that were reached stays exact.
LEMMA AdvanceExact ==
  ASSUME TypeOK, ExactInv, NEW s \in Streams, pc[s] \in {"save", "open", "watching"},
         pc'[s] \in {"save", "open", "watching"}, rv[s] <= rv'[s], rv'[s] \in Nat,
         UNCHANGED <<log, obj, queue, rows, stored>>,
         excused \subseteq excused', dropped \subseteq dropped',
         \A i \in Claimed(s, rv'[s]) : i \in Claimed(s, rv[s]) \/ Reaches(Len(queue) + 1, i)'
  PROVE  StreamExact(s)'
  <1>1. \A n : Claimed(s, n)' = Claimed(s, n)
    BY DEF Claimed
  <1>2. \A u : Queued(u)' = Queued(u) /\ InFlight(u)' = InFlight(u)
    BY DEF Queued, InFlight
  <1>3. \A k, i : Reaches(k, i) => Reaches(k, i)'
    BY <1>2 DEF Reaches, Exactly
  <1>4. ASSUME NEW u \in Uids, Sees(s, u) PROVE Ahead(s, u)'
    <2>1. rv[s] \in Nat /\ \A v \in InFlight(u) : v \in Nat
      BY FlightTypes DEF TypeOK, StreamTypeOK
    <2>2. \A v \in InFlight(u) : v <= rv[s]
      BY <1>4 DEF ExactInv, StreamExact, Ahead
    <2>3. \A v \in InFlight(u) : v <= rv'[s]
      BY <2>1, <2>2
    <2>. QED  BY <1>2, <2>3 DEF Ahead
  <1>5. \A i \in Claimed(s, rv[s]) : Reaches(Len(queue) + 1, i)
    BY DEF ExactInv, StreamExact
  <1>6. \A i \in Claimed(s, rv'[s]) : Reaches(Len(queue) + 1, i)'
    BY <1>3, <1>5
  <1>. QED  BY <1>1, <1>4, <1>6 DEF StreamExact, Sees

\* The steps of Run, of the API and of a stream that only move the stream.
LEMMA PlainExact ==
  ASSUME IndInv, ExactInv, OnePlan', NEW s \in Streams,
         \/ StreamStop(s) \/ StreamDenied(s) \/ ListFail(s) \/ WatchExpired(s) \/ StreamLoad(s)
         \/ WatchOpen(s) \/ WatchBreak(s) \/ WatchBookmark(s)
         \/ \E i \in 1..Len(log) : WatchDelete(s, i)
  PROVE  ExactInv'
  <1>. USE DEF apiVars, streamVars, writerVars, storeVars, ghostVars, bounds
  <1>0. /\ pc \in [Streams -> Places] /\ rv \in [Streams -> Nat] /\ todo \in [Streams -> [Uids -> Nat]]
        /\ rv[s] <= Len(log) /\ Len(log) \in Nat /\ rv[s] \in Nat /\ TypeOK
    BY DEF IndInv, TypeOK, StreamTypeOK, ApiTypeOK, PipelineCovers, PointsPast
  <1>1. UNCHANGED <<log, obj, queue, rows, states, stored, saved, excused, dropped>>
    BY DEF StreamStop, StreamDenied, ListFail, WatchExpired, StreamLoad, WatchOpen, WatchBreak,
           WatchBookmark, WatchDelete
  <1>2. \A q \in Streams \ {s} : pc'[q] = pc[q] /\ rv'[q] = rv[q] /\ todo'[q] = todo[q]
    BY <1>0 DEF StreamStop, StreamDenied, ListFail, WatchExpired, StreamLoad, WatchOpen, WatchBreak,
                WatchBookmark, WatchDelete
  <1>3. SUFFICES StreamExact(s)'
    BY <1>0, <1>1, <1>2, MoveExact
  <1>4. CASE pc'[s] \in {"stopped", "denied", "list"}
    BY <1>4 DEF StreamExact, Ahead
  <1>5. CASE StreamLoad(s) /\ pc'[s] = "open"
    <2>1. pc[s] = "load" /\ rv'[s] = saved[s].rv /\ rv'[s] \in Nat
      <3>1. saved[s].rv \in Nat \cup {Absent} /\ saved[s].rv # Absent /\ rv'[s] = saved[s].rv
        BY <1>0, <1>5 DEF StreamLoad, TypeOK, StoreTypeOK, Point
      <3>. QED  BY <1>5, <3>1 DEF StreamLoad
    <2>2. \A u \in Uids : Sees(s, u) => InFlight(u) = {0}
      BY <2>1 DEF ExactInv, StreamExact, Ahead
    <2>3. \A u : InFlight(u)' = InFlight(u)
      BY <1>1 DEF InFlight, Queued
    <2>4. \A u \in Uids : Sees(s, u) => Ahead(s, u)'
      BY <1>5, <2>1, <2>2, <2>3 DEF Ahead
    <2>5. \A i \in Claimed(s, saved[s].rv) : Exactly(i)
      BY DEF ExactInv, ResumePointExact, Exactly
    <2>6. \A i \in Claimed(s, rv[s])' : i \in Claimed(s, saved[s].rv)
      BY <1>1, <2>1 DEF Claimed
    <2>7. \A i \in Claimed(s, rv[s])' : Reaches(Len(queue) + 1, i)'
      BY <1>1, <2>5, <2>6 DEF Reaches, Exactly
    <2>. QED  BY <1>5, <2>4, <2>7 DEF StreamExact, Sees
  <1>6. CASE WatchOpen(s) \/ WatchBreak(s)
    <2>1. /\ pc[s] \in {"open", "watching"} /\ pc'[s] \in {"open", "watching"} /\ rv' = rv
      BY <1>0, <1>6 DEF WatchOpen, WatchBreak
    <2>. QED  BY <1>0, <1>1, <2>1, AdvanceExact
  <1>7. CASE WatchBookmark(s)
    <2>1. pc[s] = "watching" /\ pc'[s] = "save" /\ rv'[s] = Len(log)
      BY <1>0, <1>7 DEF WatchBookmark
    <2>2. Claimed(s, Len(log)) \subseteq Claimed(s, rv[s])
      BY <1>0, <1>7 DEF WatchBookmark, Claimed
    <2>. QED  BY <1>0, <1>1, <2>1, <2>2, AdvanceExact
  <1>8. ASSUME NEW i \in 1..Len(log), WatchDelete(s, i) PROVE StreamExact(s)'
    <2>1. pc[s] = "watching" /\ pc'[s] = "watching" /\ rv'[s] = i /\ i > rv[s] /\ i \in Nat
      BY <1>0, <1>8 DEF WatchDelete, Next1
    <2>2. Claimed(s, i) \subseteq Claimed(s, rv[s])
      <3>1. SUFFICES ASSUME NEW j \in 1..Len(log), j <= i, log[j].op = "put", Sees(s, log[j].uid)
                     PROVE  j <= rv[s]
        BY DEF Claimed
      <3>2. log[i].op = "del" /\ (rv[s] < j /\ j < i => ~Sees(s, log[j].uid))
        BY <1>8 DEF WatchDelete, Next1
      <3>3. j # i
        BY <3>1, <3>2
      <3>. QED  BY <1>0, <3>1, <3>2, <3>3
    <2>. QED  BY <1>0, <1>1, <2>1, <2>2, AdvanceExact
  <1>9. StreamStop(s) \/ StreamDenied(s) \/ ListFail(s) \/ WatchExpired(s) => pc'[s] \in {"stopped", "denied", "list"}
    BY <1>0 DEF StreamStop, StreamDenied, ListFail, WatchExpired
  <1>10. StreamLoad(s) => pc'[s] \in {"open", "list"}
    BY <1>0 DEF StreamLoad
  <1>. QED  BY <1>4, <1>5, <1>6, <1>7, <1>8, <1>9, <1>10

\* A listing holds the last version of what the server still has.
LEMMA RelistExact ==
  ASSUME IndInv, ExactInv, OnePlan', NEW s \in Streams, Relist(s)
  PROVE  ExactInv'
  <1>. USE DEF apiVars, streamVars, writerVars, storeVars, ghostVars, bounds
  <1>0. /\ pc \in [Streams -> Places] /\ rv \in [Streams -> Nat] /\ todo \in [Streams -> [Uids -> Nat]]
        /\ Len(log) \in Nat /\ TypeOK
    BY DEF IndInv, TypeOK, StreamTypeOK, ApiTypeOK
  <1>1. UNCHANGED <<log, obj, queue, rows, states, stored, saved, dropped>> /\ excused \subseteq excused'
    BY DEF Relist
  <1>2. /\ pc'[s] = "rows" /\ rv'[s] = Len(log)
        /\ \A u \in Uids : todo'[s][u] = IF Sees(s, u) THEN obj[u] ELSE 0
        /\ \A q \in Streams \ {s} : rv'[q] = rv[q] /\ pc'[q] = pc[q] /\ todo'[q] = todo[q]
    BY <1>0 DEF Relist
  <1>3. SUFFICES StreamExact(s)'
    BY <1>0, <1>1, <1>2, MoveExact
  <1>4. \A u : Queued(u)' = Queued(u) /\ InFlight(u)' = InFlight(u)
    BY <1>1 DEF InFlight, Queued
  <1>5. ASSUME NEW u \in Uids, Sees(s, u) PROVE Ahead(s, u)'
    <2>1. obj[u] \in Nat /\ obj[u] <= Len(log) /\ \A v \in InFlight(u) : v <= Len(log) /\ Recent(u, v)
      BY FlightTypes, <1>0 DEF ExactInv, LatestHeld, InOrder
    <2>2. obj[u] # 0 => Recent(u, obj[u]) /\ \A v \in InFlight(u) : v <= obj[u]
      BY <2>1 DEF Recent
    <2>3. todo'[s][u] = obj[u] /\ obj' = obj
      BY <1>1, <1>2, <1>5
    <2>. QED  BY <1>2, <1>4, <2>1, <2>2, <2>3 DEF Ahead, Recent
  <1>6. ASSUME NEW i \in Claimed(s, rv[s])'
        PROVE  Reaches(Len(queue) + 1, i)' \/ todo'[s][log'[i].uid] >= i
    <2>1. /\ i \in Claimed(s, Len(log)) /\ i \in 1..Len(log) /\ log[i].op = "put" /\ log'[i] = log[i]
          /\ log[i].uid \in Uids /\ Sees(s, log[i].uid) /\ i \in Nat
      BY <1>0, <1>1, <1>2, LogEntry DEF Claimed
    <2>2. CASE obj[log[i].uid] # 0
      <3>1. todo'[s][log[i].uid] = obj[log[i].uid]
        BY <1>2, <2>1
      <3>2. Recent(log[i].uid, i)
        BY <2>1 DEF ExactInv, LatestHeld
      <3>. QED  BY <2>1, <2>2, <3>1, <3>2, <1>0 DEF Recent, TypeOK, ApiTypeOK
    <2>3. CASE i \in excused'
      BY <2>3 DEF Reaches, Exactly
    <2>4. CASE Secured(i)
      <3>1. \A k \in Queued(log[i].uid) : k < Len(queue) + 1
        BY <1>0 DEF Queued, TypeOK, WriterTypeOK
      <3>. QED  BY <1>1, <1>4, <2>1, <2>4, <3>1 DEF Reaches, Exactly, Secured
    <2>. QED  BY <2>1, <2>2, <2>3, <2>4 DEF Relist
  <1>7. \A u \in Uids : todo'[s][u] # 0 => Sees(s, u)
    BY <1>2
  <1>. QED  BY <1>2, <1>5, <1>6, <1>7 DEF StreamExact, Sees

\* A row of a listing, and the resume point that follows the rows.
LEMMA ListExact ==
  ASSUME IndInv, ExactInv, OnePlan', NEW s \in Streams, NEW u \in Uids, ListRow(s, u)
  PROVE  ExactInv'
  <1>. USE DEF apiVars, streamVars, writerVars, storeVars, ghostVars, bounds
  <1>. DEFINE it == Row(u, todo[s][u])
  <1>0. /\ pc \in [Streams -> Places] /\ rv \in [Streams -> Nat] /\ todo \in [Streams -> [Uids -> Nat]]
        /\ Len(log) \in Nat /\ TypeOK /\ rv[s] \in Nat /\ rv[s] <= Len(log) /\ todo[s][u] \in Nat \ {0}
        /\ pc[s] = "rows"
    BY DEF IndInv, TypeOK, StreamTypeOK, ApiTypeOK, PipelineCovers, PointsPast, ListRow
  <1>1. /\ it \in RowItem \cup StateItem /\ it.kind = "row" /\ it.uid = u /\ it.ver = todo[s][u]
    BY <1>0 DEF Row, RowItem
  <1>2. /\ pc' = pc /\ rv' = rv /\ queue' = Append(queue, it)
        /\ \A q \in Streams \ {s} : todo'[q] = todo[q]
        /\ \A v \in Uids : v # u => todo'[s][v] = todo[s][v]
        /\ todo'[s][u] = 0
    BY <1>0 DEF ListRow
  <1>3. UNCHANGED <<log, obj, rows, states, stored, saved, excused, dropped>>
    BY DEF ListRow
  <1>. HIDE DEF it
  <1>4. Sees(s, u) /\ Ahead(s, u)
    BY <1>0 DEF ExactInv, StreamExact
  <1>5. it.ver <= rv[s] /\ it.ver <= Len(log) /\ Recent(u, it.ver) /\ \A v \in InFlight(u) : v <= it.ver
    BY <1>0, <1>1, <1>4 DEF Ahead
  <1>6. ASSUME NEW q \in Streams \ {s}, Sees(q, u) PROVE pc[q] = "idle"
    BY <1>0, <1>4, <1>6, Owner DEF ExactInv
  <1>7. ASSUME NEW w \in Uids, Sees(s, w) PROVE Ahead(s, w)'
    <2>1. Ahead(s, w)
      BY <1>7 DEF ExactInv, StreamExact
    <2>2. \A v \in InFlight(w)' : v \in InFlight(w) \/ (w = u /\ v = it.ver)
      BY <1>0, <1>1, <1>2, <1>3, FlightAppend
    <2>3. CASE w = u
      BY <1>0, <1>2, <1>5, <2>1, <2>2, <2>3 DEF Ahead
    <2>4. CASE w # u
      <3>1. InFlight(w)' \subseteq InFlight(w)
        BY <2>2, <2>4
      <3>. QED  BY <1>0, <1>2, <1>3, <2>1, <2>4, <3>1 DEF Ahead, Recent
    <2>. QED  BY <2>3, <2>4
  <1>8. ASSUME NEW i \in Claimed(s, rv[s])
        PROVE  Reaches(Len(queue) + 1, i)' \/ todo'[s][log[i].uid] >= i
    <2>1. i \in 1..Len(log) /\ log[i].uid \in Uids
      BY <1>0, LogEntry DEF Claimed
    <2>2. Reaches(Len(queue) + 1, i) \/ todo[s][log[i].uid] >= i
      BY <1>0 DEF ExactInv, StreamExact
    <2>3. Reaches(Len(queue) + 1, i) => Reaches(Len(queue) + 1, i)'
      BY <1>0, <1>1, <1>2, <1>3, <2>1, ReachesAppend
    <2>4. log[i].uid = u /\ it.ver >= i => Reaches(Len(queue) + 1, i)'
      BY <1>0, <1>1, <1>2, <1>3, <2>1, ReachesAppend
    <2>. QED  BY <1>1, <1>2, <2>1, <2>2, <2>3, <2>4
  <1>9. StreamExact(s)'
    <2>1. \A i \in Claimed(s, rv[s])' : i \in Claimed(s, rv[s]) /\ log'[i] = log[i]
      BY <1>2, <1>3 DEF Claimed
    <2>2. \A w \in Uids : todo'[s][w] # 0 => Sees(s, w)
      BY <1>0, <1>2 DEF ExactInv, StreamExact
    <2>. QED  BY <1>0, <1>2, <1>3, <1>7, <1>8, <2>1, <2>2 DEF StreamExact, Sees
  <1>. QED  BY <1>0, <1>1, <1>2, <1>3, <1>5, <1>6, <1>9, EnqueueExact

\* A resume point is enqueued behind the rows it passes.
LEMMA SaveExact ==
  ASSUME IndInv, ExactInv, OnePlan', NEW s \in Streams, SaveRV(s)
  PROVE  ExactInv'
  <1>. USE DEF apiVars, streamVars, writerVars, storeVars, ghostVars, bounds
  <1>. DEFINE it == State(s, api, rv[s])
  <1>0. /\ pc \in [Streams -> Places] /\ rv \in [Streams -> Nat] /\ todo \in [Streams -> [Uids -> Nat]]
        /\ Len(log) \in Nat /\ TypeOK /\ rv[s] \in Nat /\ api \in Apis
    BY DEF IndInv, TypeOK, StreamTypeOK, ApiTypeOK
  <1>1. it \in RowItem \cup StateItem /\ it.kind = "state" /\ it.stream = s /\ it.rv = rv[s]
    BY <1>0 DEF State, StateItem
  <1>2. /\ pc[s] = "save" \/ (pc[s] = "rows" /\ todo[s] = NoRows)
        /\ pc'[s] \in {"open", "watching"} /\ rv' = rv /\ todo' = todo
        /\ queue' = Append(queue, it)
        /\ \A q \in Streams \ {s} : pc'[q] = pc[q]
    BY <1>0 DEF SaveRV
  <1>3. UNCHANGED <<log, obj, rows, states, stored, saved, excused, dropped>>
    BY DEF SaveRV
  <1>. HIDE DEF it
  <1>4. ASSUME NEW i \in Claimed(s, rv[s]) PROVE Reaches(Len(queue) + 1, i)
    <2>1. i \in 1..Len(log) /\ log[i].uid \in Uids /\ i \in Nat \ {0}
      BY <1>0, LogEntry DEF Claimed
    <2>2. Reaches(Len(queue) + 1, i) \/ (pc[s] = "rows" /\ todo[s][log[i].uid] >= i)
      BY <1>2 DEF ExactInv, StreamExact
    <2>. QED  BY <1>2, <2>1, <2>2 DEF NoRows
  <1>5. ASSUME NEW i \in Claimed(s, rv[s]) PROVE Reaches(Len(queue) + 1, i)'
    <2>1. i \in 1..Len(log)
      BY DEF Claimed
    <2>. QED  BY <1>0, <1>1, <1>2, <1>3, <1>4, <2>1, ReachesAppend
  <1>6. ASSUME NEW u \in Uids, Sees(s, u) PROVE Ahead(s, u)'
    <2>1. \A v \in InFlight(u)' : v \in InFlight(u)
      BY <1>0, <1>1, <1>2, <1>3, FlightAppend
    <2>2. \A v \in InFlight(u) : v <= rv[s]
      BY <1>2, <1>6 DEF ExactInv, StreamExact, Ahead
    <2>. QED  BY <1>2, <2>1, <2>2 DEF Ahead
  <1>7. StreamExact(s)'
    <2>1. \A i \in Claimed(s, rv[s])' : i \in Claimed(s, rv[s])
      BY <1>2, <1>3 DEF Claimed
    <2>. QED  BY <1>2, <1>3, <1>5, <1>6, <2>1 DEF StreamExact, Sees
  <1>. QED  BY <1>0, <1>1, <1>2, <1>3, <1>4, <1>7, EnqueueExact

\* A change that the watch delivers is newer than all that is on its way.
LEMMA PutExact ==
  ASSUME IndInv, ExactInv, OnePlan', NEW s \in Streams, NEW i \in 1..Len(log),
         NEW w \in BOOLEAN, WatchPut(s, i, w)
  PROVE  ExactInv'
  <1>. USE DEF apiVars, streamVars, writerVars, storeVars, ghostVars, bounds
  <1>0. /\ pc \in [Streams -> Places] /\ rv \in [Streams -> Nat] /\ todo \in [Streams -> [Uids -> Nat]]
        /\ Len(log) \in Nat /\ TypeOK /\ rv[s] \in Nat /\ i \in Nat \ {0} /\ i <= Len(log)
    BY LogEntry DEF IndInv, TypeOK, StreamTypeOK, ApiTypeOK
  <1>u. PICK u \in Uids : u = log[i].uid
    BY <1>0, LogEntry
  <1>1. /\ pc[s] = "watching" /\ pc'[s] = "save" /\ rv'[s] = i /\ todo' = todo
        /\ \A q \in Streams \ {s} : pc'[q] = pc[q] /\ rv'[q] = rv[q]
        /\ rv[s] < i /\ log[i].op = "put" /\ Sees(s, u)
    BY <1>0, <1>u DEF WatchPut, Next1
  <1>2. UNCHANGED <<log, obj, rows, states, stored, saved, dropped>>
    BY DEF WatchPut
  <1>3. Claimed(s, i) \subseteq Claimed(s, rv[s]) \cup {i}
    <2>1. SUFFICES ASSUME NEW j \in 1..Len(log), j <= i, j # i, Sees(s, log[j].uid)
                   PROVE  j <= rv[s]
      BY DEF Claimed
    <2>2. rv[s] < j /\ j < i => ~Sees(s, log[j].uid)
      BY DEF WatchPut, Next1
    <2>. QED  BY <1>0, <2>1, <2>2
  <1>4. CASE queue' = queue /\ ((excused' = excused /\ Secured(i)) \/ excused' = excused \cup {i})
    <2>0. excused \subseteq excused'
      BY <1>4
    <2>1. Reaches(Len(queue) + 1, i)'
      <3>1. CASE i \in excused'
        BY <3>1 DEF Reaches, Exactly
      <3>2. CASE Secured(i)
        <4>1. \A k \in Queued(u) : k < Len(queue) + 1
          BY <1>0 DEF Queued, TypeOK, WriterTypeOK
        <4>2. Queued(u)' = Queued(u)
          BY <1>4 DEF Queued
        <4>. QED  BY <1>2, <1>4, <1>u, <3>2, <4>1, <4>2 DEF Reaches, Exactly, Secured
      <3>. QED  BY <1>4, <3>1, <3>2
    <2>2. StreamExact(s)'
      <3>1. \A j \in Claimed(s, rv'[s]) : j \in Claimed(s, rv[s]) \/ Reaches(Len(queue) + 1, j)'
        BY <1>1, <1>3, <2>1
      <3>2. rv[s] <= rv'[s] /\ rv'[s] \in Nat
        BY <1>0, <1>1
      <3>3. dropped \subseteq dropped'
        BY <1>2
      <3>. QED  BY <1>0, <1>1, <1>2, <1>4, <2>0, <3>1, <3>2, <3>3, AdvanceExact
    <2>. QED  BY <1>0, <1>1, <1>2, <1>4, <2>0, <2>2, MoveExact
  <1>5. CASE queue' = Append(queue, Row(log[i].uid, i)) /\ excused' = excused
    <2>. DEFINE it == Row(log[i].uid, i)
    <2>1. it \in RowItem \cup StateItem /\ it.kind = "row" /\ it.uid = u /\ it.ver = i
      BY <1>0, <1>u DEF Row, RowItem
    <2>2. queue' = Append(queue, it)
      BY <1>5
    <2>. HIDE DEF it
    <2>3. \A x \in Uids : Sees(s, x) => \A v \in InFlight(x) : v \in Nat /\ v <= rv[s]
      BY <1>0, <1>1, FlightTypes DEF ExactInv, StreamExact, Ahead
    <2>4. Recent(u, i) /\ \A v \in InFlight(u) : v <= i
      BY <1>0, <1>1, <1>u, <2>3 DEF ExactInv, LatestHeld
    <2>5. ASSUME NEW q \in Streams \ {s}, Sees(q, u) PROVE pc[q] = "idle"
      BY <1>1, <2>5, Owner DEF ExactInv
    <2>6. ASSUME NEW x \in Uids, Sees(s, x) PROVE Ahead(s, x)'
      <3>1. \A v \in InFlight(x)' : v \in InFlight(x) \/ v = i
        BY <1>0, <1>2, <2>1, <2>2, FlightAppend
      <3>2. \A v \in InFlight(x) : v <= i
        BY <1>0, <1>1, <2>3, <2>6
      <3>3. i <= i
        BY <1>0
      <3>. QED  BY <1>1, <3>1, <3>2, <3>3 DEF Ahead
    <2>7. ASSUME NEW j \in Claimed(s, i) PROVE Reaches(Len(queue) + 1, j)'
      <3>1. j \in 1..Len(log) /\ i <= i
        BY <1>0 DEF Claimed
      <3>2. CASE j = i
        BY <1>0, <1>2, <1>5, <1>u, <2>1, <2>2, <3>1, <3>2, ReachesAppend
      <3>3. CASE j \in Claimed(s, rv[s])
        <4>1. Reaches(Len(queue) + 1, j)
          BY <1>1, <3>3 DEF ExactInv, StreamExact
        <4>. QED  BY <1>0, <1>2, <1>5, <2>1, <2>2, <3>1, <4>1, ReachesAppend
      <3>. QED  BY <1>3, <3>2, <3>3
    <2>8. StreamExact(s)'
      <3>1. \A j \in Claimed(s, rv[s])' : j \in Claimed(s, i)
        BY <1>1, <1>2 DEF Claimed
      <3>. QED  BY <1>1, <1>2, <2>6, <2>7, <3>1 DEF StreamExact, Sees
    <2>. QED  BY <1>0, <1>1, <1>2, <1>5, <2>1, <2>2, <2>4, <2>5, <2>8, EnqueueExact
  <1>. QED  BY <1>4, <1>5 DEF WatchPut

\* The writer takes an item into its batch.
LEMMA TakeExact ==
  ASSUME IndInv, ExactInv, OnePlan', WriterTake
  PROVE  ExactInv'
  <1>. USE DEF apiVars, streamVars, writerVars, storeVars, ghostVars, bounds
  <1>. DEFINE it == Head(queue)
              r  == IF it.kind = "row" THEN [rows EXCEPT ![it.uid] = it.ver] ELSE rows
              st == IF it.kind = "state"
                    THEN [states EXCEPT ![it.stream] = [api |-> it.api, rv |-> it.rv]]
                    ELSE states
  <1>0. /\ rows \in [Uids -> Nat] /\ states \in [Streams -> Point] /\ queue # <<>> /\ TypeOK
        /\ queue' = Tail(queue) /\ UNCHANGED <<log, obj, excused, pc, rv, todo>> /\ InOrder
    BY DEF WriterTake, IndInv, TypeOK, WriterTypeOK, ExactInv
  <1>1. it \in RowItem \cup StateItem /\ it = queue[1] /\ 1 \in 1..Len(queue)
    BY <1>0 DEF TypeOK, WriterTypeOK
  <1>2. r \in [Uids -> Nat] /\ st \in [Streams -> Point]
    BY <1>0, <1>1 DEF RowItem, StateItem, Point
  <1>3. \/ Flush(r, st)
        \/ rows' = r /\ states' = st /\ UNCHANGED <<stored, saved, dropped>>
    BY DEF WriterTake
  <1>4. r = IF Head(queue).kind = "row" THEN [rows EXCEPT ![Head(queue).uid] = Head(queue).ver] ELSE rows
    OBVIOUS
  <1>5. \A s \in Streams : \/ st[s] = states[s]
                           \/ it.kind = "state" /\ it.stream = s /\ st[s].rv = it.rv
    BY <1>0
  <1>. HIDE DEF r, st, it
  <1>6. \A u \in Uids : rows[u] \in Nat /\ r[u] \in Nat /\ rows[u] <= r[u]
    BY <1>0, <1>2, <1>4, FlightTake
  <1>7. ASSUME NEW s \in Streams, NEW i \in Claimed(s, st[s].rv) PROVE Exactly(i) \/ r[log[i].uid] >= i
    <2>1. i \in 1..Len(log) /\ log[i].uid \in Uids /\ i \in Nat
      BY <1>0, LogEntry DEF Claimed
    <2>2. Exactly(i) \/ rows[log[i].uid] >= i
      <3>1. CASE st[s] = states[s]
        <4>1. Reaches(0, i)
          BY <1>7, <3>1 DEF ExactInv, BatchExact
        <4>2. \A k \in Queued(log[i].uid) : ~(k < 0)
          BY DEF Queued
        <4>. QED  BY <4>1, <4>2 DEF Reaches
      <3>2. CASE it.kind = "state" /\ it.stream = s /\ st[s].rv = it.rv
        <4>1. Reaches(1, i)
          BY <1>1, <1>7, <3>2 DEF ExactInv, QueueExact
        <4>2. \A k \in Queued(log[i].uid) : ~(k < 1)
          BY DEF Queued
        <4>. QED  BY <4>1, <4>2 DEF Reaches
      <3>. QED  BY <1>5, <3>1, <3>2
    <2>. QED  BY <1>6, <2>1, <2>2
  <1>8. /\ ResumePointExact'
        /\ \A i \in 1..Len(log) : log[i].op = "put" /\ (Exactly(i) \/ r[log[i].uid] >= i)
                                     => Exactly(i)' \/ rows'[log[i].uid] >= i
        /\ \A s \in Streams : \A i \in Claimed(s, states'[s].rv) : Exactly(i)' \/ rows'[log[i].uid] >= i
        /\ \A u \in Uids : rows'[u] = 0 \/ rows'[u] = r[u]
    <2>1. ResumePointExact
      BY DEF ExactInv
    <2>. QED  BY <1>0, <1>2, <1>3, <1>7, <2>1, BatchStep
  <1>. QED  BY <1>0, <1>2, <1>4, <1>8, WriterExact

\* A batch that is flushed as it stands: what that leaves.
LEMMA FlushExact ==
  ASSUME IndInv, ExactInv, Flush(rows, states), UNCHANGED <<log, excused>>
  PROVE  /\ ResumePointExact'
         /\ \A i \in 1..Len(log) : log[i].op = "put" /\ (Exactly(i) \/ rows[log[i].uid] >= i)
                                      => Exactly(i)' \/ rows'[log[i].uid] >= i
         /\ \A s \in Streams : \A i \in Claimed(s, states'[s].rv) : Exactly(i)' \/ rows'[log[i].uid] >= i
         /\ \A u \in Uids : rows'[u] = 0 \/ rows'[u] = rows[u]
  <1>1. rows \in [Uids -> Nat] /\ states \in [Streams -> Point] /\ TypeOK /\ ResumePointExact
    BY DEF IndInv, TypeOK, WriterTypeOK, ExactInv
  <1>2. ASSUME NEW s \in Streams, NEW i \in Claimed(s, states[s].rv) PROVE Exactly(i) \/ rows[log[i].uid] >= i
    <2>1. Reaches(0, i)
      BY <1>2 DEF ExactInv, BatchExact
    <2>2. \A k \in Queued(log[i].uid) : ~(k < 0)
      BY DEF Queued
    <2>. QED  BY <2>1, <2>2 DEF Reaches
  <1>. QED  BY <1>1, <1>2, BatchStep

\* A flush by the ticker, the last one, and a crash.
LEMMA CloseExact ==
  ASSUME IndInv, ExactInv, OnePlan', WriterTick \/ WriterClose \/ Crash
  PROVE  ExactInv'
  <1>. USE DEF apiVars, streamVars, writerVars, storeVars, ghostVars, bounds
  <1>0. TypeOK /\ rows \in [Uids -> Nat] /\ LatestHeld
    BY DEF IndInv, TypeOK, WriterTypeOK, ExactInv
  <1>1. CASE WriterTick
    <2>1. Flush(rows, states) /\ UNCHANGED <<log, obj, excused, pc, rv, todo, queue>>
      BY <1>1 DEF WriterTick
    <2>2. /\ ResumePointExact'
          /\ \A i \in 1..Len(log) : log[i].op = "put" /\ (Exactly(i) \/ rows[log[i].uid] >= i)
                                       => Exactly(i)' \/ rows'[log[i].uid] >= i
          /\ \A s \in Streams : \A i \in Claimed(s, states'[s].rv) : Exactly(i)' \/ rows'[log[i].uid] >= i
          /\ \A u \in Uids : rows'[u] = 0 \/ rows'[u] = rows[u]
      BY <2>1, FlushExact
    <2>. QED  BY <1>0, <2>1, <2>2, WriterExact
  <1>2. CASE WriterClose
    <2>1. /\ rows' = NoRows /\ states' = NoStates /\ queue' = <<>>
          /\ UNCHANGED <<log, obj, excused, dropped, pc>>
          /\ Flush(rows, states) \/ UNCHANGED <<stored, saved>>
      BY <1>2 DEF WriterClose, Flush, FlushOK
    <2>2. pc' = Idle
      BY <1>2, <2>1 DEF WriterClose, IndInv, RunIdle
    <2>3. ResumePointExact'
      <3>1. CASE Flush(rows, states)
        BY <2>1, <3>1, FlushExact
      <3>2. CASE UNCHANGED <<stored, saved>>
        BY <2>1, <3>2 DEF ExactInv, ResumePointExact, Claimed
      <3>. QED  BY <2>1, <3>1, <3>2
    <2>. QED  BY <1>0, <2>1, <2>2, <2>3, DownExact
  <1>3. CASE Crash
    <2>1. /\ rows' = NoRows /\ states' = NoStates /\ queue' = <<>> /\ pc' = Idle
          /\ UNCHANGED <<log, obj, excused, dropped, stored, saved>>
      BY <1>3 DEF Crash
    <2>2. ResumePointExact'
      BY <2>1 DEF ExactInv, ResumePointExact, Claimed
    <2>. QED  BY <1>0, <2>1, <2>2, DownExact
  <1>. QED  BY <1>1, <1>2, <1>3

\* Every step of a first plan keeps the stored rows exact: one case per action.
LEMMA NextExact == IndInv /\ ExactInv /\ replans' = 0 /\ [Next]_vars => ExactInv'
  <1>. SUFFICES ASSUME IndInv, ExactInv, replans' = 0, [Next]_vars PROVE ExactInv'
    OBVIOUS
  <1>. USE DEF apiVars, streamVars, writerVars, storeVars, ghostVars, bounds
  <1>0. OnePlan' /\ TypeOK /\ PointsPast /\ OnePlan
    BY NextOnePlan DEF IndInv, ExactInv, PipelineCovers
  <1>1. ASSUME NEW u \in Uids, ApiPut(u) PROVE ExactInv'
    BY <1>0, <1>1, ApiExact DEF ApiPut
  <1>2. ASSUME NEW u \in Uids, ApiDelete(u) PROVE ExactInv'
    BY <1>0, <1>2, ApiExact DEF ApiDelete
  <1>3. CASE ApiCompact \/ Start \/ Resync \/ Stop \/ UNCHANGED vars
    BY <1>0, <1>3, MoveExact DEF ApiCompact, Start, Resync, Stop, vars
  <1>4. ASSUME NEW a \in Apis, NEW p \in Plans, Probe(a, p) PROVE ExactInv'
    <2>1. /\ UNCHANGED <<log, obj, queue, rows, states, stored, saved, excused, dropped>>
          /\ \A s \in Streams : pc'[s] \in {"load", "idle"}
          /\ run = "probe"
      BY <1>4 DEF Probe
    <2>2. \A u \in Uids : InFlight(u)' = {0}
      <3>1. queue = <<>> /\ rows = NoRows /\ queue' = <<>> /\ rows' = NoRows
        BY <1>0, <2>1 DEF OnePlan
      <3>2. Len(queue') = 0 /\ 1..Len(queue') = {}
        BY <3>1
      <3>3. \A u \in Uids : Queued(u)' = {} /\ rows'[u] = 0
        BY <3>1, <3>2 DEF Queued, NoRows
      <3>. QED  BY <3>3 DEF InFlight
    <2>3. \A s \in Streams : StreamExact(s)'
      BY <2>1, <2>2 DEF StreamExact, Ahead
    <2>. QED  BY <1>0, <2>1, <2>3, MoveExact
  <1>5. CASE PlanEnd \/ RunExit
    <2>1. /\ UNCHANGED <<log, obj, queue, rows, states, stored, saved, excused, dropped>>
          /\ \A s \in Streams : pc'[s] = "idle"
      BY <1>5 DEF PlanEnd, RunExit, Idle
    <2>2. \A s \in Streams : StreamExact(s)'
      BY <2>1 DEF StreamExact, Ahead
    <2>. QED  BY <1>0, <2>1, <2>2, MoveExact
  <1>6. ASSUME NEW s \in Streams, StreamStep(s) PROVE ExactInv'
    <2>1. CASE \/ StreamStop(s) \/ StreamDenied(s) \/ ListFail(s) \/ WatchExpired(s)
               \/ StreamLoad(s) \/ WatchOpen(s) \/ WatchBreak(s) \/ WatchBookmark(s)
               \/ \E i \in 1..Len(log) : WatchDelete(s, i)
      BY <1>0, <2>1, PlainExact
    <2>2. CASE Relist(s)
      BY <1>0, <2>2, RelistExact
    <2>3. CASE SaveRV(s)
      BY <1>0, <2>3, SaveExact
    <2>4. CASE \E u \in Uids : ListRow(s, u)
      BY <1>0, <2>4, ListExact
    <2>5. CASE \E i \in 1..Len(log) : \E w \in BOOLEAN : WatchPut(s, i, w)
      BY <1>0, <2>5, PutExact
    <2>. QED  BY <1>6, <2>1, <2>2, <2>3, <2>4, <2>5 DEF StreamStep
  <1>7. CASE WriterTake
    BY <1>0, <1>7, TakeExact
  <1>8. CASE WriterTick \/ WriterClose \/ Crash
    BY <1>0, <1>8, CloseExact
  <1>. QED  BY <1>1, <1>2, <1>3, <1>4, <1>5, <1>6, <1>7, <1>8
            DEF Next, ApiStep, RunStep, WriterStep

\* Initially nothing is stored, claimed or on its way.
LEMMA InitExact == Init => ExactInv
  <1>. SUFFICES ASSUME Init PROVE ExactInv
    OBVIOUS
  <1>1. /\ Len(log) = 0 /\ Len(queue) = 0 /\ 1..Len(log) = {} /\ 1..Len(queue) = {}
        /\ \A s \in Streams : pc[s] = "idle"
        /\ \A u \in Uids : obj[u] = 0 /\ rows[u] = 0
    BY DEF Init, Idle, NoRows
  <1>2. (\A s, n : Claimed(s, n) = {}) /\ \A u : Queued(u) = {}
    BY <1>1 DEF Claimed, Queued
  <1>3. LatestHeld
    BY <1>1 DEF LatestHeld
  <1>4. InOrder
    BY <1>1, <1>2 DEF InOrder, InFlight, Recent
  <1>5. OnePlan
    BY <1>1 DEF Init, OnePlan
  <1>6. ResumePointExact /\ BatchExact /\ QueueExact
    BY <1>1, <1>2 DEF ResumePointExact, BatchExact, QueueExact
  <1>7. \A s \in Streams : StreamExact(s)
    BY <1>1 DEF StreamExact, Ahead
  <1>. QED  BY <1>3, <1>4, <1>5, <1>6, <1>7 DEF ExactInv

\* A plan that was started again stays counted.
LEMMA ReplansGrow == TypeOK /\ [Next]_vars /\ replans' = 0 => replans = 0
  <1>. SUFFICES ASSUME TypeOK, [Next]_vars PROVE replans' = 0 => replans = 0
    OBVIOUS
  <1>. USE DEF apiVars, streamVars, writerVars, storeVars, ghostVars, bounds
  <1>0. replans \in Nat
    BY DEF TypeOK, CountTypeOK
  <1>1. replans' = replans \/ replans' = replans + 1
    <2>1. CASE ApiStep
      BY <2>1 DEF ApiStep, ApiPut, ApiDelete, ApiCompact
    <2>2. CASE WriterStep
      BY <2>2 DEF WriterStep, WriterTake, WriterTick, WriterClose
    <2>3. CASE RunStep \/ UNCHANGED vars
      BY <2>3 DEF RunStep, Start, Resync, Stop, PlanEnd, RunExit, Crash, Probe, vars
    <2>4. ASSUME NEW s \in Streams, StreamStep(s) PROVE replans' = replans \/ replans' = replans + 1
      BY <2>4 DEF StreamStep, StreamStop, StreamDenied, StreamLoad, Relist, ListFail, SaveRV,
                  ListRow, WatchOpen, WatchExpired, WatchBreak, WatchBookmark, WatchDelete, WatchPut
    <2>. QED  BY <2>1, <2>2, <2>3, <2>4 DEF Next
  <1>. QED  BY <1>0, <1>1

\* Up to the first plan that is started again, the stored row of an event is at
\* least as new as the last update that a stored resume point has passed, in
\* every behaviour and for every value of the constants.
THEOREM PointExact == Spec => []PointExactWithinPlan
  <1>. DEFINE Exact == IndInv /\ (replans = 0 => ExactInv)
  <1>1. Init => Exact
    BY InitType, InitCovers, InitExact DEF IndInv, RunIdle, Init
  <1>2. Exact /\ [Next]_vars => Exact'
    <2>1. IndInv /\ [Next]_vars => IndInv'
      BY NextType, NextRunIdle, NextCovers DEF IndInv
    <2>2. IndInv /\ (replans = 0 => ExactInv) /\ [Next]_vars /\ replans' = 0 => ExactInv'
      BY ReplansGrow, NextExact DEF IndInv
    <2>. QED  BY <2>1, <2>2
  <1>3. Exact => PointExactWithinPlan
    BY DEF ExactInv, PointExactWithinPlan
  <1>. HIDE DEF Exact
  <1>. QED  BY <1>1, <1>2, <1>3, PTL DEF Spec
===============================================================================
