--------------------------- MODULE RecorderCoverage ---------------------------
(***************************************************************************)
(* What a recorder says of itself: its coverage sessions, its live-stream  *)
(* count and its status (internal/history/recorder.go, coverage.go).       *)
(*                                                                         *)
(* Streams, the heartbeat and Run's shutdown each read the open session    *)
(* under a mutex, talk to the database without it and write what they      *)
(* conclude back under it, so every one of those three steps is an action. *)
(* Time is the wall clock in units of half the gap tolerance or more.  The *)
(* machine may sleep, which shows only as a jump of the clock, and another *)
(* window may clear the history.  What the streams store is in Recorder.   *)
(***************************************************************************)
EXTENDS Integers, Sequences, FiniteSets

CONSTANTS
    Streams,      \* the namespaces of the plan, one stream each
    GapTolerance, \* longest hole that is not reported
    SleepLength,  \* how far the clock jumps when the machine sleeps
    MaxClock,     \* bound: the last moment
    MaxRows,      \* bound: sessions the database takes before it is full
    MaxInFlight,  \* bound: goroutines at once between reading and writing back
    MaxFaults,    \* bound: broken streams, denials, stops and crashes
    MaxRejects,   \* bound: writes the database rejects
    MaxClears     \* bound: how often another window clears the history

ASSUME CoverageAssumption ==
    /\ Streams # {} /\ IsFiniteSet(Streams)
    /\ GapTolerance \in Nat /\ SleepLength \in Nat
    /\ SleepLength > GapTolerance + 1
    /\ MaxClock \in Nat /\ MaxRows \in Nat /\ MaxInFlight \in Nat /\ MaxFaults \in Nat
    /\ MaxRejects \in Nat /\ MaxClears \in Nat

VARIABLES
    clock,   \* the wall clock (cfg.Now)
    wokeAt,  \* when the machine last woke (SleptSince), 0 if never
    run,     \* Run: "down", "probe", "plan", "finish", "ending", "wait"
    cancel,  \* why the plan's context is cancelled: "none", "resync", "stop"
    pc,      \* where each stream is
    est,     \* what each stream's coverageEstablished read
    needList,\* streams whose next connection lists first (needList)
    saved,   \* streams with a row in table watch_state
    live,    \* r.live
    session, \* r.sessionID, r.sessionStart, r.sessionBackfilled, r.lastTouch
    status,  \* r.status.State
    tick,    \* where coverageTick is, and what it read
    fin,     \* what finishCoverage read
    resync,  \* tokens in r.resync
    rows,    \* table coverage, by id (AUTOINCREMENT: an id is never reused)
    liveAt,  \* ghost: moments at which a stream was live and the machine awake
    estAt,   \* ghost: moments at which a stream caught up with the API server
    erased,  \* ghost: streams that have not listed since the last clear
    clearAt, \* ghost: when the history was last cleared, -1 if never
    stale,   \* ghost: streams that were up while the machine slept
    faults, rejects, clears

runVars   == <<run, cancel, resync>>
memVars   == <<live, session, status>>
streamVs  == <<pc, est, needList, saved>>
timeVars  == <<clock, wokeAt>>
ghostVars == <<liveAt, estAt, erased, clearAt, stale>>
bounds    == <<faults, rejects, clears>>
vars == <<clock, wokeAt, run, cancel, pc, est, needList, saved, live, session, status,
          tick, fin, resync, rows, liveAt, estAt, erased, clearAt, stale, faults, rejects, clears>>

-------------------------------------------------------------------------------
Times    == 0..MaxClock
Reasons  == {"", "unreachable", "denied", "sleep", "closed"}
Session  == [id : 0..MaxRows, start : Times, back : BOOLEAN, last : Times]
Row      == [start : Times, end : Times, back : BOOLEAN, reason : Reasons, there : BOOLEAN]
NoSession == [id |-> 0, start |-> 0, back |-> FALSE, last |-> 0]
Read     == [now : Times, s : Session]
NothingRead == [now |-> 0, s |-> NoSession]
TickIdle == [pc |-> "idle", now |-> 0, s |-> NoSession, denied |-> FALSE]

\* The other fields of the open session are read only with an id.
Settle(s)      == IF s.id = 0 THEN NoSession ELSE s
Exists(id)     == id # 0 /\ rows[id].there
Later(a, b)    == IF a > b THEN a ELSE b
Recent(t, s)   == t - s.last <= GapTolerance
Fault          == faults < MaxFaults /\ faults' = faults + 1
NoFault        == UNCHANGED faults
Reject         == rejects < MaxRejects /\ rejects' = rejects + 1
NoReject       == UNCHANGED rejects
CannotInsert   == \/ Len(rows) = MaxRows /\ NoReject
                  \/ Reject

\* Goroutines between reading the open session and writing back what they made of it.
Establishing == {s \in Streams : pc[s] \in {"touch", "mark", "commit", "begin", "begun"}}
InFlight == Cardinality(Establishing) + (IF tick.pc = "idle" THEN 0 ELSE 1)
                                      + (IF run = "ending" THEN 1 ELSE 0)
CanRead  == InFlight < MaxInFlight

\* table coverage: INSERT, and the four UPDATEs of updateSession.
Insert(t, back) == Append(rows, [start |-> t, end |-> t, back |-> back, reason |-> "", there |-> TRUE])
Touched(id, t)  == [rows EXCEPT ![id].end = Later(@, t), ![id].reason = ""]
Marked(id)      == [rows EXCEPT ![id].back = TRUE]
Ended(id, t, r) == [rows EXCEPT ![id].end = Later(@, t), ![id].reason = r]
Reasoned(id, r) == IF Exists(id) THEN [rows EXCEPT ![id].reason = r] ELSE rows

\* What beginSession leaves in memory once its row is in the table.
Opened(id, t, back) == [id |-> id, start |-> t, back |-> back, last |-> t]

AllOff  == [s \in Streams |-> "off"]
NoReads == [s \in Streams |-> NothingRead]

Init ==
    /\ clock = 0 /\ wokeAt = 0 /\ run = "down" /\ cancel = "none" /\ resync = 0
    /\ pc = AllOff /\ est = NoReads /\ needList = Streams /\ saved = {}
    /\ live = 0 /\ session = NoSession /\ status = "starting"
    /\ tick = TickIdle /\ fin = NothingRead /\ rows = <<>>
    /\ liveAt = {} /\ estAt = {} /\ erased = {} /\ clearAt = -1 /\ stale = {}
    /\ faults = 0 /\ rejects = 0 /\ clears = 0

\* The process, or the Run call, is gone: the next one builds a new Recorder.
NewRecorder ==
    /\ run' = "down" /\ cancel' = "none" /\ resync' = 0
    /\ pc' = AllOff /\ est' = NoReads
    /\ live' = 0 /\ session' = NoSession /\ status' = "starting"
    /\ tick' = TickIdle /\ fin' = NothingRead
    /\ stale' = {}
    /\ UNCHANGED <<timeVars, needList, saved, rows, liveAt, estAt, erased, clearAt, rejects, clears>>

-------------------------------------------------------------------------------
(* The world: time passes, the machine sleeps or dies, another window      *)
(* clears the history.                                                     *)

TimePasses ==
    /\ clock < MaxClock
    /\ clock' = clock + 1
    /\ liveAt' = IF live > 0 THEN liveAt \cup {clock, clock'} ELSE liveAt
    /\ UNCHANGED <<wokeAt, runVars, streamVs, memVars, tick, fin, rows, estAt, erased, clearAt, stale, bounds>>

\* Bound: no sleep and no clear falls between the adjacent statements of streamUp.
BetweenStatements == \A s \in Streams : pc[s] # "up"

\* A stream counted in r.live is asleep with its connection.
Sleep ==
    /\ clock + SleepLength <= MaxClock /\ BetweenStatements
    /\ clock' = clock + SleepLength
    /\ wokeAt' = clock'
    /\ liveAt' = IF live > 0 THEN liveAt \cup {clock, clock'} ELSE liveAt
    /\ stale' = stale \cup {s \in Streams : pc[s] = "watch"}
    /\ UNCHANGED <<runVars, streamVs, memVars, tick, fin, rows, estAt, erased, clearAt, bounds>>

ClearElsewhere ==
    /\ clears < MaxClears /\ clears' = clears + 1 /\ BetweenStatements
    /\ rows' = [i \in DOMAIN rows |-> [rows[i] EXCEPT !.there = FALSE]]
    /\ saved' = {}
    /\ estAt' = {} /\ erased' = Streams /\ clearAt' = clock
    /\ UNCHANGED <<timeVars, runVars, pc, est, needList, memVars, tick, fin, liveAt, stale, faults, rejects>>

Crash ==
    /\ run # "down" /\ Fault
    /\ NewRecorder

-------------------------------------------------------------------------------
(* Run, probe and runPlan.                                                 *)

Start ==
    /\ run = "down"
    /\ run' = "probe"
    /\ UNCHANGED <<timeVars, cancel, resync, streamVs, memVars, tick, fin, rows, ghostVars, bounds>>

\* Each stream loads its resume point: without one it lists first.
ProbeOK ==
    /\ run = "probe" /\ cancel = "none"
    /\ run' = "plan"
    /\ pc' = [s \in Streams |-> "connect"]
    /\ needList' = Streams \ saved
    /\ UNCHANGED <<timeVars, cancel, resync, est, saved, memVars, tick, fin, rows, ghostVars, bounds>>

ProbeFail ==
    /\ run = "probe" /\ cancel = "none" /\ Fault
    /\ status' \in {"not_recordable", "reconnecting"}
    /\ UNCHANGED <<timeVars, runVars, streamVs, live, session, tick, fin, rows, ghostVars, rejects, clears>>

Stop ==
    /\ run \in {"probe", "plan"} /\ cancel # "stop" /\ Fault
    /\ cancel' = "stop"
    /\ UNCHANGED <<timeVars, run, resync, streamVs, memVars, tick, fin, rows, ghostVars, rejects, clears>>

TakeResync ==
    /\ run = "plan" /\ cancel = "none" /\ resync = 1
    /\ resync' = 0 /\ cancel' = "resync"
    /\ UNCHANGED <<timeVars, run, streamVs, memVars, tick, fin, rows, ghostVars, bounds>>

PlanEnd ==
    /\ run = "plan" /\ \A s \in Streams : pc[s] \in {"off", "denied"}
    /\ run' = IF cancel = "stop" THEN "finish" ELSE "probe"
    /\ cancel' = IF cancel = "resync" THEN "none" ELSE cancel
    /\ status' = IF cancel = "none" THEN "not_recordable" ELSE status
    /\ UNCHANGED <<timeVars, resync, streamVs, live, session, tick, fin, rows, ghostVars, bounds>>

ProbeStop ==
    /\ run = "probe" /\ cancel = "stop"
    /\ run' = "finish"
    /\ UNCHANGED <<timeVars, cancel, resync, streamVs, memVars, tick, fin, rows, ghostVars, bounds>>

\* Mutant: the ended session stays open for the heartbeat.
FinishReadKeepsId ==
    LET open == session.id # 0 /\ Recent(clock, session) IN
    /\ run = "finish" /\ CanRead
    /\ run' = IF open THEN "ending" ELSE "wait"
    /\ fin' = IF open THEN [now |-> clock, s |-> session] ELSE NothingRead
    /\ UNCHANGED session
    /\ UNCHANGED <<timeVars, cancel, resync, streamVs, live, status, tick, rows, ghostVars, bounds>>

\* finishCoverage: forget the session, and end it unless it already stalled.
FinishRead ==
    LET open == session.id # 0 /\ Recent(clock, session) IN
    /\ run = "finish" /\ CanRead
    /\ run' = IF open THEN "ending" ELSE "wait"
    /\ fin' = IF open THEN [now |-> clock, s |-> session] ELSE NothingRead
    /\ session' = NoSession
    /\ UNCHANGED <<timeVars, cancel, resync, streamVs, live, status, tick, rows, ghostVars, bounds>>

FinishEnd ==
    /\ run = "ending"
    /\ run' = "wait" /\ fin' = NothingRead
    /\ \/ NoReject /\ rows' = IF Exists(fin.s.id) THEN Ended(fin.s.id, fin.now, "closed") ELSE rows
       \/ UNCHANGED rows /\ Reject
    /\ UNCHANGED <<timeVars, cancel, resync, streamVs, memVars, tick, ghostVars, faults, clears>>

\* Run returns once the heartbeat goroutine has; the next Run is a new Recorder.
RunExit ==
    /\ run = "wait" /\ tick.pc = "idle"
    /\ NewRecorder /\ NoFault

-------------------------------------------------------------------------------
(* One stream: connecting, streamUp, coverageEstablished, streamDown.      *)

\* The watch opens, after a listing when the stream needs one; live grows.
StreamUp(s) ==
    /\ pc[s] = "connect" /\ cancel = "none"
    /\ live' = live + 1
    /\ pc' = [pc EXCEPT ![s] = "up"]
    /\ needList' = needList \ {s} /\ saved' = saved \cup {s}
    /\ erased' = IF s \in needList THEN erased \ {s} ELSE erased
    /\ estAt' = IF s \in erased' THEN estAt ELSE estAt \cup {clock}
    /\ liveAt' = liveAt \cup {clock}
    /\ stale' = stale \ {s}
    /\ UNCHANGED <<timeVars, runVars, est, session, status, tick, fin, rows, clearAt, bounds>>

\* Mutant: an old session is extended by the stream that comes back.
EstReadAnyAge(s) ==
    /\ pc[s] = "up" /\ CanRead
    /\ est' = [est EXCEPT ![s] = [now |-> clock, s |-> session]]
    /\ pc' = [pc EXCEPT ![s] = IF session.id # 0 THEN "touch" ELSE "begin"]
    /\ UNCHANGED <<timeVars, runVars, needList, saved, memVars, tick, fin, rows, ghostVars, bounds>>

EstRead(s) ==
    /\ pc[s] = "up" /\ CanRead
    /\ est' = [est EXCEPT ![s] = [now |-> clock, s |-> session]]
    /\ pc' = [pc EXCEPT ![s] = IF session.id # 0 /\ Recent(clock, session) THEN "touch" ELSE "begin"]
    /\ UNCHANGED <<timeVars, runVars, needList, saved, memVars, tick, fin, rows, ghostVars, bounds>>

\* A session that is gone, or cannot be written, is replaced by a new one.
EstTouch(s) ==
    LET e == est[s]
        earns == ~e.s.back /\ e.now - e.s.start <= GapTolerance IN
    /\ pc[s] = "touch"
    /\ \/ /\ Exists(e.s.id) /\ NoReject
          /\ rows' = Touched(e.s.id, e.now)
          /\ pc' = [pc EXCEPT ![s] = IF earns THEN "mark" ELSE "commit"]
       \/ /\ ~Exists(e.s.id) /\ NoReject
          /\ pc' = [pc EXCEPT ![s] = "begin"] /\ UNCHANGED rows
       \/ /\ Reject
          /\ pc' = [pc EXCEPT ![s] = "begin"] /\ UNCHANGED rows
    /\ UNCHANGED <<timeVars, runVars, est, needList, saved, memVars, tick, fin, ghostVars, faults, clears>>

EstMark(s) ==
    LET id == est[s].s.id
        marked == Exists(id) IN
    /\ pc[s] = "mark"
    /\ pc' = [pc EXCEPT ![s] = "commit"]
    /\ \/ /\ NoReject
          /\ rows' = IF marked THEN Marked(id) ELSE rows
          /\ est' = [est EXCEPT ![s].s.back = marked]
       \/ /\ Reject /\ UNCHANGED <<rows, est>>
    /\ UNCHANGED <<timeVars, runVars, needList, saved, memVars, tick, fin, ghostVars, faults, clears>>

EstCommit(s) ==
    /\ pc[s] = "commit"
    /\ session' = Settle([session EXCEPT !.last = est[s].now, !.back = est[s].s.back])
    /\ est' = [est EXCEPT ![s] = NothingRead]
    /\ pc' = [pc EXCEPT ![s] = "record"]
    /\ UNCHANGED <<timeVars, runVars, needList, saved, live, status, tick, fin, rows, ghostVars, bounds>>

EstBegin(s) ==
    /\ pc[s] = "begin"
    /\ \/ /\ Len(rows) < MaxRows /\ NoReject
          /\ rows' = Insert(est[s].now, TRUE)
          /\ est' = [est EXCEPT ![s].s = Opened(Len(rows'), est[s].now, TRUE)]
          /\ pc' = [pc EXCEPT ![s] = "begun"]
       \/ /\ CannotInsert
          /\ pc' = [pc EXCEPT ![s] = "record"] /\ UNCHANGED rows
          /\ est' = [est EXCEPT ![s] = NothingRead]
    /\ UNCHANGED <<timeVars, runVars, needList, saved, memVars, tick, fin, ghostVars, faults, clears>>

EstBegun(s) ==
    /\ pc[s] = "begun"
    /\ session' = est[s].s
    /\ est' = [est EXCEPT ![s] = NothingRead]
    /\ pc' = [pc EXCEPT ![s] = "record"]
    /\ UNCHANGED <<timeVars, runVars, needList, saved, live, status, tick, fin, rows, ghostVars, bounds>>

SetRecording(s) ==
    /\ pc[s] = "record"
    /\ status' = "recording"
    /\ pc' = [pc EXCEPT ![s] = "watch"]
    /\ UNCHANGED <<timeVars, runVars, est, needList, saved, live, session, tick, fin, rows, ghostVars, bounds>>

\* The writer saves the resume point of an event that arrives after a clear.
SavePoint(s) ==
    /\ pc[s] = "watch" /\ s \notin saved
    /\ saved' = saved \cup {s}
    /\ UNCHANGED <<timeVars, runVars, pc, est, needList, memVars, tick, fin, rows, ghostVars, bounds>>

\* The watch breaks, or the connection is refused: streamDown if it was up.
StreamBreak(s) ==
    /\ pc[s] \in {"connect", "watch"} /\ cancel = "none" /\ Fault
    /\ live' = IF pc[s] = "watch" THEN Later(live - 1, 0) ELSE live
    /\ stale' = stale \ {s}
    /\ \/ pc' = [pc EXCEPT ![s] = "failed"] /\ UNCHANGED needList
       \/ pc' = [pc EXCEPT ![s] = "denied"] /\ UNCHANGED needList
       \/ pc' = [pc EXCEPT ![s] = "connect"] /\ needList' = needList \cup {s}   \* 410
    /\ UNCHANGED <<timeVars, runVars, est, saved, session, status, tick, fin, rows,
                   liveAt, estAt, erased, clearAt, rejects, clears>>

CheckLive(s) ==
    /\ pc[s] = "failed" /\ cancel = "none"
    /\ pc' = [pc EXCEPT ![s] = IF live = 0 THEN "report" ELSE "connect"]
    /\ UNCHANGED <<timeVars, runVars, est, needList, saved, memVars, tick, fin, rows, ghostVars, bounds>>

ReportDown(s) ==
    /\ pc[s] = "report"
    /\ status' = "reconnecting"
    /\ pc' = [pc EXCEPT ![s] = "connect"]
    /\ UNCHANGED <<timeVars, runVars, est, needList, saved, live, session, tick, fin, rows, ghostVars, bounds>>

\* Mutant: a watch with no traffic does not see its context end.
StreamStopDeafWatch(s) ==
    /\ pc[s] \in {"connect", "failed"} /\ cancel # "none"
    /\ pc' = [pc EXCEPT ![s] = "off"]
    /\ live' = IF pc[s] = "watch" THEN Later(live - 1, 0) ELSE live
    /\ stale' = stale \ {s}
    /\ UNCHANGED <<timeVars, runVars, est, needList, saved, session, status, tick, fin, rows,
                   liveAt, estAt, erased, clearAt, bounds>>

StreamStop(s) ==
    /\ pc[s] \in {"connect", "watch", "failed"} /\ cancel # "none"
    /\ pc' = [pc EXCEPT ![s] = "off"]
    /\ live' = IF pc[s] = "watch" THEN Later(live - 1, 0) ELSE live
    /\ stale' = stale \ {s}
    /\ UNCHANGED <<timeVars, runVars, est, needList, saved, session, status, tick, fin, rows,
                   liveAt, estAt, erased, clearAt, bounds>>

-------------------------------------------------------------------------------
(* The heartbeat, coverageTick.                                            *)

TickGoes(branch) ==
    /\ tick' = [pc |-> branch, now |-> clock, s |-> session, denied |-> status = "not_recordable"]
    /\ UNCHANGED <<timeVars, runVars, streamVs, memVars, fin, rows, ghostVars, bounds>>

\* Mutant: a heartbeat without a session leaves it at that.
TickReadNoBegin ==
    /\ tick.pc = "idle" /\ run # "down" /\ CanRead
    /\ \/ live = 0 /\ session.id # 0 /\ ~Recent(clock, session) /\ TickGoes("stall")
       \/ live > 0 /\ FALSE /\ TickGoes("begin")
       \/ live > 0 /\ session.id # 0 /\ ~Recent(clock, session) /\ TickGoes("jump")
       \/ live > 0 /\ session.id # 0 /\ Recent(clock, session) /\ TickGoes("touch")

\* Streams down past the tolerance; no session; a late tick; or an ordinary one.
TickRead ==
    /\ tick.pc = "idle" /\ run # "down" /\ CanRead
    /\ \/ live = 0 /\ session.id # 0 /\ ~Recent(clock, session) /\ TickGoes("stall")
       \/ live > 0 /\ session.id = 0 /\ TickGoes("begin")
       \/ live > 0 /\ session.id # 0 /\ ~Recent(clock, session) /\ TickGoes("jump")
       \/ live > 0 /\ session.id # 0 /\ Recent(clock, session) /\ TickGoes("touch")

TickStep(next) == tick' = IF next = "idle" THEN TickIdle ELSE [tick EXCEPT !.pc = next]

TickStall ==
    /\ tick.pc = "stall"
    /\ \/ NoReject /\ rows' = Reasoned(tick.s.id, IF tick.denied THEN "denied" ELSE "unreachable")
       \/ Reject /\ UNCHANGED rows
    /\ TickStep("forget")
    /\ UNCHANGED <<timeVars, runVars, streamVs, memVars, fin, ghostVars, faults, clears>>

TickForget ==
    /\ tick.pc = "forget"
    /\ session' = NoSession
    /\ TickStep("idle")
    /\ UNCHANGED <<timeVars, runVars, streamVs, live, status, fin, rows, ghostVars, bounds>>

\* SleptSince: labelled sleep only when the machine woke after the last touch.
TickJump ==
    /\ tick.pc = "jump"
    /\ \/ NoReject /\ rows' = IF wokeAt > tick.s.last THEN Reasoned(tick.s.id, "sleep") ELSE rows
       \/ Reject /\ UNCHANGED rows
    /\ TickStep("rebegin")
    /\ UNCHANGED <<timeVars, runVars, streamVs, memVars, fin, ghostVars, faults, clears>>

\* A late tick asks for a resync whether or not the new session could be begun.
TickBegin ==
    /\ tick.pc \in {"begin", "rebegin"}
    /\ \/ /\ Len(rows) < MaxRows /\ NoReject
          /\ rows' = Insert(tick.now, FALSE)
          /\ tick' = [tick EXCEPT !.pc = IF @ = "begin" THEN "begun" ELSE "rebegun",
                                  !.s = Opened(Len(rows'), tick.now, FALSE)]
       \/ /\ CannotInsert /\ UNCHANGED rows
          /\ TickStep(IF tick.pc = "begin" THEN "idle" ELSE "resync")
    /\ UNCHANGED <<timeVars, runVars, streamVs, memVars, fin, ghostVars, faults, clears>>

TickBegun ==
    /\ tick.pc \in {"begun", "rebegun"}
    /\ session' = tick.s
    /\ TickStep(IF tick.pc = "begun" THEN "idle" ELSE "resync")
    /\ UNCHANGED <<timeVars, runVars, streamVs, live, status, fin, rows, ghostVars, bounds>>

TickResync ==
    /\ tick.pc = "resync"
    /\ resync' = 1
    /\ TickStep("idle")
    /\ UNCHANGED <<timeVars, run, cancel, streamVs, memVars, fin, rows, ghostVars, bounds>>

TickTouch ==
    /\ tick.pc = "touch"
    /\ \/ /\ Exists(tick.s.id) /\ NoReject
          /\ rows' = Touched(tick.s.id, tick.now) /\ TickStep("commit")
       \/ /\ ~Exists(tick.s.id) /\ NoReject
          /\ UNCHANGED rows /\ TickStep("begin")
       \/ /\ Reject
          /\ UNCHANGED rows /\ TickStep("idle")
    /\ UNCHANGED <<timeVars, runVars, streamVs, memVars, fin, ghostVars, faults, clears>>

TickCommit ==
    /\ tick.pc = "commit"
    /\ session' = Settle([session EXCEPT !.last = tick.now])
    /\ TickStep("idle")
    /\ UNCHANGED <<timeVars, runVars, streamVs, live, status, fin, rows, ghostVars, bounds>>

-------------------------------------------------------------------------------
StreamNext(s) ==
    \/ StreamUp(s) \/ EstRead(s) \/ EstTouch(s) \/ EstMark(s) \/ EstCommit(s)
    \/ EstBegin(s) \/ EstBegun(s) \/ SetRecording(s) \/ SavePoint(s)
    \/ StreamBreak(s) \/ CheckLive(s) \/ ReportDown(s) \/ StreamStop(s)

TickNext ==
    \/ TickRead \/ TickStall \/ TickForget \/ TickJump \/ TickBegin \/ TickBegun
    \/ TickResync \/ TickTouch \/ TickCommit

RunNext ==
    \/ Start \/ ProbeOK \/ ProbeFail \/ Stop \/ TakeResync \/ PlanEnd \/ ProbeStop
    \/ FinishRead \/ FinishEnd \/ RunExit

Next ==
    \/ TimePasses \/ Sleep \/ ClearElsewhere \/ Crash
    \/ RunNext \/ TickNext
    \/ \E s \in Streams : StreamNext(s)

Spec == Init /\ [][Next]_vars

\* What the Go scheduler and the ticker guarantee: every goroutine that can run
\* does, the ticker keeps firing, and a reachable API server answers.
FairSpec ==
    /\ Spec
    /\ WF_vars(TickNext)
    /\ WF_vars(ProbeOK \/ TakeResync \/ PlanEnd \/ ProbeStop \/ FinishRead \/ FinishEnd \/ RunExit)
    /\ \A s \in Streams :
         WF_vars(StreamUp(s) \/ EstRead(s) \/ EstTouch(s) \/ EstMark(s) \/ EstCommit(s) \/ EstBegin(s)
                 \/ EstBegun(s) \/ SetRecording(s) \/ CheckLive(s) \/ ReportDown(s) \/ StreamStop(s))

-------------------------------------------------------------------------------
(* Properties.                                                             *)

Pcs == {"off", "connect", "up", "touch", "mark", "commit", "begin", "begun",
        "record", "watch", "failed", "report", "denied"}
TickPcs == {"idle", "stall", "forget", "jump", "begin", "rebegin", "begun", "rebegun",
            "resync", "touch", "commit"}

\* Types; r.live counts the streams between streamUp and streamDown.
TypeOK ==
    /\ clock \in Times /\ wokeAt \in Times
    /\ run \in {"down", "probe", "plan", "finish", "ending", "wait"}
    /\ cancel \in {"none", "resync", "stop"} /\ resync \in 0..1
    /\ pc \in [Streams -> Pcs] /\ est \in [Streams -> Read]
    /\ needList \subseteq Streams /\ saved \subseteq Streams
    /\ live = Cardinality({s \in Streams : pc[s] \notin {"off", "connect", "failed", "report", "denied"}})
    /\ session \in Session /\ fin \in Read
    /\ status \in {"starting", "recording", "reconnecting", "not_recordable"}
    /\ tick \in [pc : TickPcs, now : Times, s : Session, denied : BOOLEAN]
    /\ rows \in Seq(Row) /\ Len(rows) <= MaxRows
    /\ session.id <= Len(rows)

Sessions == {rows[i] : i \in {j \in DOMAIN rows : rows[j].there}}

\* A session never claims a hole: any GapTolerance + 1 consecutive moments of it
\* include one at which a stream was live and the machine awake.  A sleep that
\* the heartbeat notices late, a stream that comes back late and a crash must
\* all end the session at its last touch (coverageTick, coverageEstablished).
CoveredWasLive ==
    \A r \in Sessions : \A t \in r.start..(r.end - GapTolerance) :
        \E u \in t..(t + GapTolerance) : u \in liveAt

\* A session marked backfilled really was: whatever was not recorded before it
\* began was fetched by a stream that caught up with the API server afterwards
\* and no later than GapTolerance after it began (Session.Backfilled).
BackfillEarned ==
    \A r \in Sessions : r.back /\ r.start > clearAt =>
        \A t \in 0..(r.start - 1) :
            \/ t \in liveAt /\ t > clearAt
            \/ \E e \in estAt : e >= t /\ e <= r.start + GapTolerance

\* While a stream is being watched the status says so: the one that reports
\* "reconnecting" has found no stream live (stream, streamUp).
StatusCurrent == (\E s \in Streams : pc[s] = "watch") => status = "recording"

\* A heartbeat that takes the session for current does not pass over a stream
\* that was up while the machine slept: its connection may be dead, and the late
\* heartbeat is what has it re-established (coverageTick, runPlan).  Without an
\* open session, after a rejected write, there is nothing to compare the time to.
SleepNoticed ==
    tick.pc = "commit" /\ tick.now >= wokeAt /\ rejects = 0 => stale = {} \/ resync = 1 \/ cancel # "none"

\* What the sessions in the table and the status a window shows say of the streams
\* is true: a session covers no time in which a stream was down, its backfill mark
\* was earned, the status is current and a sleep is noticed.
CoverageTrue == TypeOK /\ CoveredWasLive /\ BackfillEarned /\ StatusCurrent /\ SleepNoticed

\* The reason given to SetStopReason stays on the session that Run ended.
StopReasonKept ==
    [][\A i \in DOMAIN rows : rows[i].reason = "closed" => rows'[i].reason = "closed"]_rows

\* A recorder with a live stream comes to have a session open for it, unless the
\* database is full: a heartbeat makes up for a session that could not be begun.
SessionOpens == live > 0 ~> (session.id # 0 \/ live = 0 \/ Len(rows) = MaxRows)

\* A stopped recorder returns, whatever its streams and its heartbeat were doing.
ShutdownReturns == cancel = "stop" ~> run = "down"

===============================================================================
