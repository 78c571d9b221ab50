------------------------------- MODULE Stream -------------------------------
(***************************************************************************)
(* Container logs of an investigation: the request form and the live tail  *)
(* of LiveStreamPanel.jsx, the filters of useStreamPanel.js and            *)
(* streamView.js, App.jsx's gather handlers and the session's log tail in  *)
(* the backend (engine/live.go).                                           *)
(*                                                                         *)
(* A log line is named by its pod: ErrorPods print errors, HitPods lines   *)
(* that the search text hits.  The window shows the last view it was sent, *)
(* which may be behind the backend.  The form's search text is chosen when *)
(* the request is sent; scroll position and sizes are left out.            *)
(***************************************************************************)
EXTENDS Naturals, FiniteSets

CONSTANTS ErrorPods, HitPods,
          PodSets,       \* pods an investigation finds at a time
          MatchedPods,   \* names that match the investigation's query
          MaxGathers     \* bound: handlers that wait for the bridge at a time

VARIABLES
  tail,    \* the backend: [session, scope, pods, paused, lines]
  logs,   \* the window, see StreamInit
  gathers  \* handlers that wait for an answer

streamVars == <<tail, logs, gathers>>

EmptyShown == [scope |-> {}, pods |-> {}, paused |-> FALSE, lines |-> {}]

TailView == IF tail.session THEN [scope |-> tail.scope, pods |-> tail.pods, paused |-> tail.paused,
                                  lines |-> tail.lines]
            ELSE EmptyShown

Engaged(w) == w.view.pods # {}

(* activeTailPods: the tailed pods, or the filter's when there is no tail *)
ActivePods(w) == IF Engaged(w) THEN w.view.pods ELSE w.selected

(* buildStreamGroups: the mode, the pods, the text *)
FilteredRows(w) ==
  {l \in w.view.lines : /\ w.mode = "errors" => l \in ErrorPods
                        /\ ActivePods(w) # {} => l \in ActivePods(w)
                        /\ w.search => l \in HitPods}

LiveRows(w) == IF w.running /\ Engaged(w) THEN FilteredRows(w) ELSE {}

FilterKey(w) == <<w.mode, w.search, ActivePods(w)>>

ShownRows(w) == IF w.view.paused /\ w.frozen # {} THEN UNION {z.rows : z \in w.frozen} ELSE LiveRows(w)

(* the pods of the filter menu: those of the snapshot and those with lines *)
ListedPods(w) == w.view.scope \cup w.view.lines

(* what the panel's body shows *)
Body(w) == IF ~w.mounted THEN "none"
           ELSE IF ~w.running THEN "idle"
           ELSE IF Engaged(w) THEN "tail" ELSE "request"

-----------------------------------------------------------------------------
(* The panel's effects. *)

(* all pods are the default of a new investigation, if it has pods when the
   logs first sees it running *)
DefaultEffect(w) ==
  IF w.running
  THEN [w EXCEPT !.prevRunning = TRUE,
                 !.req  = IF ~w.prevRunning /\ w.view.scope # {} THEN w.view.scope ELSE @,
                 !.last = IF ~w.prevRunning /\ w.view.scope # {} THEN {} ELSE @]
  ELSE [w EXCEPT !.prevRunning = FALSE, !.prevTail = FALSE, !.req = {}, !.last = {}]

(* pods that left the scope are dropped, unless nothing would be left *)
ScopeEffect(w) ==
  LET kept == w.req \cap w.view.scope
  IN  IF w.running /\ ~Engaged(w) /\ w.view.scope # {} /\ kept # {} THEN [w EXCEPT !.req = kept] ELSE w

RestoreEffect(w) ==
  [w EXCEPT !.prevTail = Engaged(w),
            !.req = IF w.prevTail /\ ~Engaged(w) /\ w.running /\ w.last # {} THEN w.last ELSE @]

Snapshot(w) == {[rows |-> LiveRows(w), key |-> FilterKey(w)]}

(* Mutant: the snapshot follows the tail. *)
FreezeEffectFollows(w) ==
  IF w.running /\ w.view.paused
  THEN [w EXCEPT !.wasPaused = TRUE, !.frozen = Snapshot(w)]
  ELSE [w EXCEPT !.wasPaused = FALSE, !.frozen = {}]

(* a paused tail keeps its lines until resumed; a new filter takes new ones *)
FreezeEffect(w) ==
  IF w.running /\ w.view.paused
  THEN [w EXCEPT !.wasPaused = TRUE,
                 !.frozen = IF ~w.wasPaused \/ @ = {} \/ \E z \in @ : z.key # FilterKey(w) THEN Snapshot(w) ELSE @]
  ELSE [w EXCEPT !.wasPaused = FALSE, !.frozen = {}]

(* A commit; the scope's effect runs only when the snapshot is a new one. *)
Shown(w, fresh) ==
  IF ~w.mounted THEN w
  ELSE LET d == DefaultEffect(w)
           s == IF fresh THEN ScopeEffect(d) ELSE d
       IN  FreezeEffect(RestoreEffect(s))

-----------------------------------------------------------------------------
StreamInit ==
  /\ tail = [session |-> FALSE, scope |-> {}, pods |-> {}, paused |-> FALSE, lines |-> {}]
  /\ logs = [mounted |-> FALSE, running |-> FALSE, view |-> EmptyShown, busy |-> FALSE,
              mode |-> "logs", search |-> FALSE, selected |-> {},
              req |-> {}, last |-> {}, prevRunning |-> FALSE, prevTail |-> FALSE,
              frozen |-> {}, wasPaused |-> FALSE]
  /\ gathers = {}

LogsCommit(w, fresh) == logs' = Shown(w, fresh)

ResetFilters(w) == [w EXCEPT !.mode = "logs", !.selected = {}, !.search = FALSE]

(* the dock shows or hides the panel; its state goes with it *)
MountStream ==
  /\ logs' = IF logs.mounted
              THEN [logs EXCEPT !.mounted = FALSE, !.req = {}, !.last = {}, !.prevRunning = FALSE,
                                 !.prevTail = FALSE, !.frozen = {}, !.wasPaused = FALSE]
              ELSE Shown([logs EXCEPT !.mounted = TRUE], TRUE)
  /\ UNCHANGED <<tail, gathers>>

(* an investigation begins with an empty view, and ends *)
Investigate ==
  /\ ~logs.running
  /\ tail' = [session |-> TRUE, scope |-> {}, pods |-> {}, paused |-> FALSE, lines |-> {}]
  /\ LogsCommit(ResetFilters([logs EXCEPT !.running = TRUE, !.view = EmptyShown]), TRUE)
  /\ UNCHANGED gathers

EndInvestigation ==
  /\ logs.running
  /\ tail' = [session |-> FALSE, scope |-> {}, pods |-> {}, paused |-> FALSE, lines |-> {}]
  /\ LogsCommit(ResetFilters([logs EXCEPT !.running = FALSE, !.view = EmptyShown]), TRUE)
  /\ UNCHANGED gathers

(* the investigation's snapshot: pods come and go *)
PodsChange ==
  /\ tail.session
  /\ \E pods \in PodSets \ {tail.scope} : tail' = [tail EXCEPT !.scope = pods]
  /\ UNCHANGED <<logs, gathers>>

LogLine ==
  /\ ~tail.paused
  /\ \E p \in tail.pods \ tail.lines : tail' = [tail EXCEPT !.lines = @ \cup {p}]
  /\ UNCHANGED <<logs, gathers>>

ViewShown ==
  /\ tail.session /\ logs.view # TailView
  /\ LogsCommit([logs EXCEPT !.view = TailView], TRUE)
  /\ UNCHANGED <<tail, gathers>>

-----------------------------------------------------------------------------
(* The request form. *)

EditRequest ==
  /\ Body(logs) = "request"
  /\ \/ \E p \in logs.view.scope :
          LogsCommit([logs EXCEPT !.req = IF p \in @ THEN @ \ {p} ELSE @ \cup {p}], FALSE)
     \/ logs.view.scope # {} /\ \E s \in {logs.view.scope, {}} : LogsCommit([logs EXCEPT !.req = s], FALSE)
  /\ UNCHANGED <<tail, gathers>>

GatherRoom == Cardinality(gathers) < MaxGathers

Asks(op, pods, search) == gathers' = gathers \cup {[op |-> op, pods |-> pods, search |-> search]}

HandleGather ==
  /\ Body(logs) = "request" /\ logs.view.scope # {} /\ logs.req # {} /\ ~logs.busy /\ GatherRoom
  /\ LogsCommit([logs EXCEPT !.last = logs.req, !.busy = TRUE], FALSE)
  /\ \E search \in BOOLEAN : Asks("start", logs.req, search)
  /\ UNCHANGED tail

(* the tail's buttons act on the view that is shown *)
TailButton ==
  /\ Body(logs) = "tail" /\ GatherRoom
  /\ \/ Asks("stop", {}, FALSE)
     \/ Asks(IF logs.view.paused THEN "resume" ELSE "pause", {}, FALSE)
     \/ Asks("clear", {}, FALSE)
  /\ UNCHANGED <<tail, logs>>

(* a pattern's "filter logs" *)
FilterFromPatterns ==
  /\ GatherRoom
  /\ LogsCommit([logs EXCEPT !.search = TRUE, !.mode = "logs"], FALSE)
  /\ IF logs.running /\ ~Engaged(logs) /\ logs.view.scope # {}
     THEN Asks("filter", logs.view.scope, TRUE) ELSE UNCHANGED gathers
  /\ UNCHANGED tail

(* togglePod: nothing selected stands for all pods *)
Toggled(selected, name, all) ==
  IF selected = {} THEN IF all = {} THEN {name} ELSE all \ {name}
  ELSE IF name \in selected THEN selected \ {name}
  ELSE IF all # {} /\ selected \cup {name} = all THEN {} ELSE selected \cup {name}

(* the search field, the modes and the filter menu *)
EditFilter ==
  /\ Body(logs) = "tail"
  /\ \/ LogsCommit([logs EXCEPT !.search = ~@], FALSE)
     \/ \E m \in {"logs", "errors"} : LogsCommit([logs EXCEPT !.mode = m], FALSE)
     \/ \E p \in ListedPods(logs) : LogsCommit([logs EXCEPT !.selected = Toggled(@, p, ListedPods(logs))], FALSE)
     \/ \E s \in {{}, ListedPods(logs) \cap MatchedPods} : LogsCommit([logs EXCEPT !.selected = s], FALSE)
     \/ LogsCommit([logs EXCEPT !.selected = {}, !.search = FALSE], FALSE)
  /\ UNCHANGED <<tail, gathers>>

-----------------------------------------------------------------------------
(* The backend handles a call; an error ends the handler's try block. *)

Becomes(g, op) == gathers' = (gathers \ {g}) \cup {[g EXCEPT !.op = op]}

StartLogTail(g) ==
  LET pods == g.pods \cap tail.scope
  IN  /\ g.op \in {"start", "filter"}
      /\ IF tail.session /\ pods # {}
         THEN tail' = [tail EXCEPT !.pods = pods, !.paused = FALSE] /\ Becomes(g, IF g.op = "start" THEN "started" ELSE "view")
         ELSE UNCHANGED tail /\ Becomes(g, IF g.op = "start" THEN "failed" ELSE "done")

StopLogTail(g) ==
  /\ g.op \in {"stop", "clearStop"}
  /\ tail' = [tail EXCEPT !.pods = {}, !.paused = FALSE]
  /\ Becomes(g, IF g.op = "stop" THEN "view" ELSE "cleared")

(* pausing twice is no error; resuming starts the pods still in scope *)
PauseLogTail(g) ==
  /\ g.op = "pause"
  /\ IF tail.pods # {} THEN tail' = [tail EXCEPT !.paused = TRUE] /\ Becomes(g, "view")
     ELSE UNCHANGED tail /\ Becomes(g, "done")

ResumeLogTail(g) ==
  LET pods == tail.pods \cap tail.scope
  IN  /\ g.op = "resume"
      /\ IF tail.paused /\ pods # {} THEN tail' = [tail EXCEPT !.pods = pods, !.paused = FALSE] /\ Becomes(g, "view")
         ELSE UNCHANGED tail /\ Becomes(g, "done")

ClearLogs(g) ==
  /\ g.op = "clear"
  /\ tail' = [tail EXCEPT !.lines = IF tail.pods # {} THEN @ \ tail.pods ELSE {}]
  /\ Becomes(g, "clearStop")

BackendHandles ==
  /\ \E g \in gathers : StartLogTail(g) \/ StopLogTail(g) \/ PauseLogTail(g) \/ ResumeLogTail(g) \/ ClearLogs(g)
  /\ UNCHANGED logs

(* The handlers go on with the answers. *)
GatherStarted ==
  \E g \in gathers :
    /\ g.op = "started"
    /\ LogsCommit([logs EXCEPT !.search = g.search, !.mode = "logs"], FALSE)
    /\ Becomes(g, "select")
    /\ UNCHANGED tail

(* GetView's answer also sets the pod filter, as chosen when it was asked for *)
GatherSelected ==
  \E g \in gathers :
    /\ g.op = "select"
    /\ LogsCommit([logs EXCEPT !.view = TailView, !.busy = FALSE,
                             !.selected = IF TailView.pods # {} THEN TailView.pods ELSE g.pods], TRUE)
    /\ gathers' = gathers \ {g}
    /\ UNCHANGED tail

GatherFailed ==
  \E g \in gathers :
    /\ g.op = "failed"
    /\ LogsCommit([logs EXCEPT !.busy = FALSE], FALSE)
    /\ gathers' = gathers \ {g}
    /\ UNCHANGED tail

HandlerEnds ==
  \E g \in gathers :
    /\ \/ g.op = "view" /\ LogsCommit([logs EXCEPT !.view = TailView], TRUE)
       \/ g.op = "cleared" /\ LogsCommit([logs EXCEPT !.view = TailView, !.search = FALSE], TRUE)
       \/ g.op = "done" /\ UNCHANGED logs
    /\ gathers' = gathers \ {g}
    /\ UNCHANGED tail

StreamNext ==
  \/ MountStream \/ Investigate \/ EndInvestigation \/ PodsChange \/ LogLine \/ ViewShown
  \/ EditRequest \/ HandleGather \/ TailButton \/ FilterFromPatterns \/ EditFilter
  \/ BackendHandles \/ GatherStarted \/ GatherSelected \/ GatherFailed \/ HandlerEnds

-----------------------------------------------------------------------------
(* What a paused tail shows stays as it is until it is resumed, the filter is
   changed or the panel is left, whatever arrives meanwhile. *)
FrozenHolds ==
  [][logs.mounted /\ logs'.mounted /\ logs.view.paused /\ logs'.view.paused
       /\ FilterKey(logs) = FilterKey(logs)' => ShownRows(logs)' = ShownRows(logs)]_streamVars

(* Nothing of an investigation that has ended is left in the panel, in the
   request form or in the snapshot of a paused tail, however late the answers
   to its calls come. *)
IdleClean == logs.mounted /\ ~logs.running => ShownRows(logs) = {} /\ logs.frozen = {} /\ logs.req = {}

(* The request that was gathered is in the form again when its tail ends. *)
RequestRestored ==
  [][logs.mounted /\ logs'.mounted /\ logs'.running /\ logs.running /\ Engaged(logs) /\ ~Engaged(logs')
       /\ logs.last # {} => logs'.req = logs.last]_streamVars

(* The gather button does not stay busy: as long as it is, a request is on its
   way, also when the tail could not be started or the investigation has ended
   meanwhile. *)
BusyBacked == logs.busy => \E g \in gathers : g.op \in {"start", "started", "failed", "select"}

(* The log panel shows what the tail and its filter say, holds it while paused,
   and is clean when the investigation is over (StreamPanel.jsx). *)
LogsHold == [](IdleClean /\ BusyBacked) /\ FrozenHolds /\ RequestRestored
=============================================================================
