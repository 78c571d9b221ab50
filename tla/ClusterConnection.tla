------------------------- MODULE ClusterConnection --------------------------
(***************************************************************************)
(* The window's connection to its cluster: useCluster (sync and context    *)
(* calls), the loading flag of useClusterStatus, useClusterConnection (the *)
(* automatic retries, pause, dismissal) and deriveConnectionState of       *)
(* lib/clusterConnection.js (what the banner shows).                       *)
(*                                                                         *)
(* React runs the effects whose dependencies changed after every commit;   *)
(* ConnCommit applies them until nothing changes any more.                     *)
(***************************************************************************)
EXTENDS Naturals, FiniteSets

CONSTANTS ConnContexts,
          MaxAutoRetries,   \* MAX_AUTO_RETRIES (5 in the code)
          MaxPending        \* bound: bridge calls under way at a time

ASSUME ConnectionAssumption == MaxAutoRetries \in Nat \ {0} /\ MaxPending \in Nat \ {0}

VARIABLES
  n,       \* the window's state, see Init
  up,      \* the cluster's API answers
  waits,   \* bridge calls under way
  autos    \* (ghost) automatic retries since the connection was last good or the user acted

connVars == <<n, up, waits, autos>>

-----------------------------------------------------------------------------
(* isClusterDisconnected: a failed sync, or a status that says so *)
IsDown(w) == w.syncError \/ w.status = "error"

(* the disconnected memo of useClusterConnection *)
Disconnected(w) ==
  /\ ~w.paused /\ ~w.syncing /\ ~w.connecting
  /\ w.syncError \/ (~w.statusLoading /\ IsDown(w))

(* The effects: old and w are the renders before and after the commit, s the
   state with what the effects before this one have set. *)

(* another context *)
ConnContextEffect(old, w, s) ==
  IF old.ctx = w.ctx THEN s
  ELSE [s EXCEPT !.paused = FALSE, !.attempt = 0, !.counting = FALSE, !.exhausted = FALSE,
                 !.dismissed = FALSE, !.armed = FALSE]

(* the connection is no longer down, or monitoring was paused or resumed *)
RecoveredEffect(old, w, s) ==
  IF \/ <<Disconnected(old), old.paused>> = <<Disconnected(w), w.paused>>
     \/ Disconnected(w)
  THEN s
  ELSE [s EXCEPT !.attempt = 0, !.counting = FALSE, !.exhausted = FALSE, !.armed = FALSE,
                 !.dismissed = @ /\ w.paused]

RetryDeps(w) == <<w.paused, w.auto, Disconnected(w), w.attempt, w.busy, w.syncing,
                  w.connecting, w.statusLoading, w.dismissed>>

MayRetry(w) ==
  /\ w.auto /\ Disconnected(w)
  /\ ~w.paused /\ ~w.dismissed /\ ~w.busy /\ ~w.syncing /\ ~w.connecting /\ ~w.statusLoading

(* Mutants: the timer is not cleared; a retry is armed only once. *)
RetryEffectNoCleanup(old, w, s) ==
  IF RetryDeps(old) = RetryDeps(w) \/ ~MayRetry(w) THEN s
  ELSE [s EXCEPT !.armed = TRUE, !.counting = TRUE]

RetryEffectOnce(old, w, s) ==
  IF RetryDeps(old) = RetryDeps(w) THEN s
  ELSE IF ~MayRetry(w) \/ autos > 0 THEN [s EXCEPT !.armed = FALSE]
  ELSE [s EXCEPT !.armed = TRUE, !.counting = TRUE]

(* the timer is cleared and, while the connection is down, armed again *)
RetryEffect(old, w, s) ==
  IF RetryDeps(old) = RetryDeps(w) THEN s
  ELSE IF ~MayRetry(w) THEN [s EXCEPT !.armed = FALSE]
  ELSE IF w.attempt >= MaxAutoRetries
       THEN [s EXCEPT !.armed = FALSE, !.exhausted = TRUE, !.counting = FALSE]
       ELSE [s EXCEPT !.armed = TRUE, !.counting = TRUE]

Effects(old, w) ==
  RetryEffect(old, w, RecoveredEffect(old, w, ConnContextEffect(old, w, w)))

(* The render after w, once no effect changes anything any more. *)
ConnCommit(w) ==
  LET after(pairs) == {<<p[2], Effects(p[1], p[2])>> : p \in pairs}
  IN  CHOOSE r \in {p[2] : p \in after(after(after({<<n, w>>})))} : TRUE

-----------------------------------------------------------------------------
Phases == {"paused", "connecting", "disconnected", "retrying", "connected"}

(* deriveConnectionState: what the banner says, and whether it is shown *)
Phase(w) ==
  CASE w.paused -> "paused"
    [] ~w.paused /\ (w.syncing \/ w.busy \/ w.connecting
                      \/ (w.statusLoading /\ w.status = "none" /\ ~w.syncError)) -> "connecting"
    [] OTHER ->
         IF ~IsDown(w) THEN "connected"
         ELSE IF ~w.dismissed /\ w.counting /\ Disconnected(w) /\ ~w.exhausted /\ w.auto
              THEN "retrying" ELSE "disconnected"

ShowBanner(w) == Phase(w) # "connected" /\ ~w.dismissed

(* The buttons of the banner (and of the context popover) that can be used. *)
CanReconnect(w) ==
  /\ Phase(w) \in {"paused", "disconnected", "retrying"}
  /\ ~w.busy /\ ~w.syncing

-----------------------------------------------------------------------------
ConnRoom == Cardinality(waits) < MaxPending

Kind(k) == {c \in waits : c.kind = k}

ConnInit ==
  /\ \E c \in ConnContexts, e \in BOOLEAN :
       n = [ctx |-> c, syncError |-> e, status |-> "none", statusLoading |-> FALSE,
            syncing |-> FALSE, connecting |-> FALSE,
            paused |-> FALSE, auto |-> TRUE, dismissed |-> FALSE,
            attempt |-> 0, counting |-> e, exhausted |-> FALSE, armed |-> e, busy |-> FALSE]
  /\ up \in BOOLEAN
  /\ waits = {} /\ autos = 0

(* apiReachable and error of GetClusterStatus *)
Reachability == IF up THEN "ok" ELSE "error"

(* SyncCluster answers for the context it was asked in *)
Synced(w, c) == [w EXCEPT !.ctx = c.ctx, !.syncError = ~up, !.syncing = FALSE]

(* reconnect up to the answer of SyncCluster; a second one returns at once *)
Reconnect(w) ==
  IF n.busy
  THEN n' = ConnCommit(w) /\ UNCHANGED waits
  ELSE /\ Kind("sync") = {} /\ ConnRoom
       /\ n' = ConnCommit([w EXCEPT !.armed = FALSE, !.busy = TRUE, !.counting = FALSE, !.syncing = TRUE])
       /\ waits' = waits \cup {[kind |-> "reconnect", ctx |-> n.ctx]}

(* the 10 s timer of the retry effect *)
RetryTimer ==
  /\ n.armed
  /\ Reconnect([n EXCEPT !.attempt = @ + 1])
  /\ autos' = IF autos > MaxAutoRetries THEN autos ELSE autos + 1
  /\ UNCHANGED up

(* Reconnect of the banner and the popover: handleReconnect *)
HandleReconnect ==
  /\ CanReconnect(n)
  /\ Reconnect([n EXCEPT !.paused = FALSE, !.dismissed = FALSE, !.attempt = 0, !.exhausted = FALSE])
  /\ autos' = 0
  /\ UNCHANGED up

(* the answer of reconnect's SyncCluster starts its status request *)
ReconnectSynced ==
  \E c \in Kind("reconnect") :
    /\ n' = ConnCommit([Synced(n, c) EXCEPT !.statusLoading = ~n.paused])
    /\ waits' = (waits \ {c}) \cup {[kind |-> IF n.paused THEN "nothing" ELSE "refresh", ctx |-> c.ctx]}
    /\ UNCHANGED <<up, autos>>

(* and the answer of that ends it; a disabled hook answers at once *)
Refreshed ==
  \E c \in Kind("refresh") \cup Kind("nothing") :
    /\ n' = ConnCommit([n EXCEPT !.busy = FALSE,
                     !.statusLoading = IF c.kind = "refresh" THEN FALSE ELSE @,
                     !.status = IF c.kind # "refresh" \/ n.paused THEN @
                                ELSE Reachability])
    /\ waits' = waits \ {c}
    /\ autos' = IF up /\ ~n.syncError THEN 0 ELSE autos
    /\ UNCHANGED up

(* the sync button, and Cmd-R *)
SyncNow ==
  /\ ~n.syncing /\ ConnRoom
  /\ n' = ConnCommit([n EXCEPT !.syncing = TRUE])
  /\ waits' = waits \cup {[kind |-> "sync", ctx |-> n.ctx]}
  /\ UNCHANGED <<up, autos>>

SyncAnswered ==
  \E c \in Kind("sync") :
    /\ n' = ConnCommit(Synced(n, c))
    /\ waits' = waits \ {c}
    /\ UNCHANGED <<up, autos>>

(* setContext of useCluster *)
SetContext ==
  \E x \in ConnContexts :
    /\ ~n.connecting /\ ConnRoom
    /\ n' = ConnCommit([n EXCEPT !.connecting = TRUE])
    /\ waits' = waits \cup {[kind |-> "context", ctx |-> x]}
    /\ autos' = 0
    /\ UNCHANGED up

(* its answer; in another context the status hook asks again *)
ConnContextAnswered ==
  \E c \in Kind("context") :
    LET moved == c.ctx # n.ctx
    IN  /\ n' = ConnCommit([n EXCEPT !.ctx = c.ctx, !.syncError = ~up, !.connecting = FALSE,
                                 !.statusLoading = @ \/ moved])
        /\ waits' = (waits \ {c}) \cup
             (IF moved THEN {[kind |-> "status", ctx |-> c.ctx]} ELSE {})
        /\ UNCHANGED <<up, autos>>

(* the status hook's own answer after a context change, and its poll *)
StatusAnswered ==
  \E c \in Kind("status") :
    /\ n' = ConnCommit([n EXCEPT !.statusLoading = (Kind("refresh") # {}) /\ @,
                      !.status = IF n.paused THEN @ ELSE Reachability])
    /\ waits' = waits \ {c}
    /\ autos' = IF up /\ ~n.syncError THEN 0 ELSE autos
    /\ UNCHANGED up

PollStatus ==
  /\ Kind("status") \cup Kind("refresh") = {} /\ ~n.paused
  /\ n' = ConnCommit([n EXCEPT !.status = Reachability])
  /\ autos' = IF up /\ ~n.syncError THEN 0 ELSE autos
  /\ UNCHANGED <<up, waits>>

(* Disconnect: stop monitoring *)
Disconnect ==
  /\ ~n.paused
  /\ n' = ConnCommit([n EXCEPT !.armed = FALSE, !.paused = TRUE, !.dismissed = FALSE, !.attempt = 0,
                           !.exhausted = FALSE, !.counting = FALSE, !.statusLoading = FALSE])
  /\ autos' = 0
  /\ UNCHANGED <<up, waits>>

Dismiss ==
  /\ ShowBanner(n) /\ ~n.busy /\ ~n.syncing
  /\ n' = ConnCommit([n EXCEPT !.armed = FALSE, !.dismissed = TRUE, !.counting = FALSE])
  /\ autos' = 0
  /\ UNCHANGED <<up, waits>>

(* the preference autoMonitorCluster *)
SetAutoMonitor ==
  /\ n' = ConnCommit([n EXCEPT !.auto = ~@])
  /\ UNCHANGED <<up, waits, autos>>

(* The cluster's API goes away or comes back. *)
ApiChanges == up' = ~up /\ UNCHANGED <<n, waits, autos>>

ConnNext ==
  \/ RetryTimer \/ HandleReconnect \/ ReconnectSynced \/ Refreshed \/ SyncNow \/ SyncAnswered
  \/ SetContext \/ ConnContextAnswered \/ StatusAnswered \/ PollStatus \/ Disconnect \/ Dismiss \/ SetAutoMonitor
  \/ ApiChanges

(* Timers fire and bridge calls are answered. *)
ConnFairness ==
  /\ WF_connVars(RetryTimer) /\ WF_connVars(ReconnectSynced) /\ WF_connVars(Refreshed)
  /\ WF_connVars(SyncAnswered) /\ WF_connVars(ConnContextAnswered)
  /\ WF_connVars(StatusAnswered)

ConnSpec == ConnInit /\ [][ConnNext]_connVars /\ ConnFairness
-----------------------------------------------------------------------------

(* No automatic retry is pending while monitoring is paused or switched off,
   after the banner was dismissed, or during a reconnect. *)
TimerOnlyWhenDown == n.armed => MayRetry(n)

(* The banner counts down to a retry only when one is pending, or will be as
   soon as the status request under way has answered. *)
CountdownHonest == Phase(n) = "retrying" => n.armed \/ n.statusLoading

(* The buttons are disabled by a reconnect only as long as it runs, and one
   reconnect runs at a time. *)
OneReconnect ==
  LET running == Kind("reconnect") \cup Kind("refresh") \cup Kind("nothing")
  IN  Cardinality(running) <= 1 /\ (n.busy <=> running # {})

(* A cluster that stays reachable is connected again, without the user. *)
Reconnects ==
  <>[](up /\ n.auto /\ ~n.paused /\ ~n.dismissed) => []<>(~IsDown(n) \/ n.connecting \/ n.syncing)

(* The banner of a lost cluster tells what is being done about it. *)
ConnectionHonest == TimerOnlyWhenDown /\ CountdownHonest /\ OneReconnect
=============================================================================
