-------------------------------- MODULE Manager --------------------------------
(***************************************************************************)
(* The recorder managers of several Klew windows that share one history    *)
(* directory (internal/history/manager.go, lock.go).                       *)
(*                                                                         *)
(* Every window is a process with its own loop goroutine (reconcile), with *)
(* Clear and Restart called by the front end on goroutines of their own,   *)
(* and with Close called at shutdown.  They share the settings file and    *)
(* one lock file per cluster.  A context stands for its cluster key; Kick  *)
(* only brings a reconcile forward, so the ticker alone is modelled.       *)
(***************************************************************************)
EXTENDS Integers, FiniteSets

CONSTANTS
    Windows,    \* Klew processes
    Contexts,   \* kube contexts, each with its cluster key
    None,       \* no window
    MaxChanges, \* bound: changes of the desired set or the settings, failed starts
    MaxOps,     \* bound: calls of Clear and Restart
    MaxExits    \* bound: windows closed or killed

ASSUME ManagerAssumption ==
    /\ None \notin Windows
    /\ MaxChanges \in Nat /\ MaxOps \in Nat /\ MaxExits \in Nat

Actors == {"loop", "op", "close"}

VARIABLES
    file,      \* settings.json: recording "on" or "off"
    saving,    \* what SetSettings has written and not yet applied, or "no"
    life,      \* "down", "open", or "closing" (m.closed)
    settings,  \* m.settings.Enabled of each window
    want,      \* active context and favorites of each window, none when paused
    running,   \* m.running
    blocked,   \* m.blocked: why a wanted context is not recorded here, or "no"
    alive,     \* recorders whose Run has not returned
    cancelled, \* recorders whose context is cancelled
    lock,      \* the window whose process holds each lock file, None if free
    mutex,     \* m.reconcileMu: "free", "loop" or "op"
    loop,      \* the loop goroutine: "idle" (select), "wait" (for reconcileMu),
               \* "load", "adopt", "plan", "act", "exited"
    loaded,    \* the settings reconcile has read
    stopping,  \* recorders that a window's actor has still to halt
    starts,    \* contexts that reconcile has still to start
    acquired,  \* contexts that startContext has locked but not registered
    op,        \* "idle", "clear", "restart", or "delete" (Store.Clear under way)
    closer,    \* "no", "wait", "halt", "done"
    store,     \* "open" or "closed"
    changes, ops, exits

confVars  == <<file, saving, settings, want>>
recVars   == <<running, alive, cancelled, lock>>
loopVars  == <<loop, loaded, starts, acquired, blocked>>
closeVars == <<life, closer, store>>
bounds    == <<changes, ops, exits>>
vars == <<file, saving, life, settings, want, running, blocked, alive, cancelled, lock, mutex, loop,
          loaded, stopping, starts, acquired, op, closer, store, changes, ops, exits>>

-------------------------------------------------------------------------------
Nothing == [w \in Windows |-> {}]
Unblocked == [c \in Contexts |-> "no"]

Init ==
    /\ file = "on" /\ saving = [w \in Windows |-> "no"] /\ life = [w \in Windows |-> "down"]
    /\ settings = [w \in Windows |-> "on"] /\ want = Nothing
    /\ running = Nothing /\ blocked = [w \in Windows |-> Unblocked] /\ alive = Nothing /\ cancelled = Nothing
    /\ lock = [c \in Contexts |-> None]
    /\ mutex = [w \in Windows |-> "free"]
    /\ loop = [w \in Windows |-> "idle"] /\ loaded = [w \in Windows |-> "on"]
    /\ stopping = [w \in Windows |-> [a \in Actors |-> {}]]
    /\ starts = Nothing /\ acquired = Nothing
    /\ op = [w \in Windows |-> "idle"] /\ closer = [w \in Windows |-> "no"]
    /\ store = [w \in Windows |-> "closed"]
    /\ changes = 0 /\ ops = 0 /\ exits = 0

\* NewManager: open the store, load the settings, start the loop.
Open(w) ==
    /\ life[w] = "down"
    /\ life' = [life EXCEPT ![w] = "open"]
    /\ store' = [store EXCEPT ![w] = "open"]
    /\ settings' = [settings EXCEPT ![w] = file]
    /\ UNCHANGED <<file, saving, want, recVars, mutex, loopVars, stopping, op, closer, bounds>>

\* The process is gone; the operating system drops its locks.
Gone(w) ==
    /\ life' = [life EXCEPT ![w] = "down"]
    /\ store' = [store EXCEPT ![w] = "closed"]
    /\ want' = [want EXCEPT ![w] = {}]
    /\ running' = [running EXCEPT ![w] = {}]
    /\ blocked' = [blocked EXCEPT ![w] = Unblocked]
    /\ alive' = [alive EXCEPT ![w] = {}]
    /\ cancelled' = [cancelled EXCEPT ![w] = {}]
    /\ lock' = [c \in Contexts |-> IF lock[c] = w THEN None ELSE lock[c]]
    /\ mutex' = [mutex EXCEPT ![w] = "free"]
    /\ loop' = [loop EXCEPT ![w] = "idle"]
    /\ stopping' = [stopping EXCEPT ![w] = [a \in Actors |-> {}]]
    /\ starts' = [starts EXCEPT ![w] = {}]
    /\ acquired' = [acquired EXCEPT ![w] = {}]
    /\ op' = [op EXCEPT ![w] = "idle"]
    /\ closer' = [closer EXCEPT ![w] = "no"]
    /\ saving' = [saving EXCEPT ![w] = "no"]
    /\ UNCHANGED <<file, settings, loaded>>

Crash(w) ==
    /\ life[w] # "down" /\ exits < MaxExits
    /\ exits' = exits + 1
    /\ Gone(w)
    /\ UNCHANGED <<changes, ops>>

\* The application ends once Close has returned, whatever else is under way.
Exit(w) ==
    /\ closer[w] = "done"
    /\ Gone(w)
    /\ UNCHANGED bounds

-------------------------------------------------------------------------------
(* What the user changes.                                                  *)

\* SetActiveContext, SetFavoriteContexts, SetPaused.
SetWanted(w, s) ==
    /\ life[w] # "down" /\ want[w] # s /\ changes < MaxChanges
    /\ changes' = changes + 1
    /\ want' = [want EXCEPT ![w] = s]
    /\ UNCHANGED <<file, saving, settings, recVars, mutex, loopVars, stopping, op, closeVars, ops, exits>>

\* SetSettings writes the file first and this window's copy after it.
SaveSettings(w, s) ==
    /\ life[w] # "down" /\ saving[w] = "no" /\ changes < MaxChanges
    /\ changes' = changes + 1
    /\ file' = s
    /\ saving' = [saving EXCEPT ![w] = s]
    /\ UNCHANGED <<settings, want, recVars, mutex, loopVars, stopping, op, closeVars, ops, exits>>

ApplySettings(w) ==
    /\ saving[w] # "no"
    /\ settings' = [settings EXCEPT ![w] = saving[w]]
    /\ saving' = [saving EXCEPT ![w] = "no"]
    /\ UNCHANGED <<file, want, recVars, mutex, loopVars, stopping, op, closeVars, bounds>>

-------------------------------------------------------------------------------
(* One recorder, and halt: cancel it, wait until Run returns, release.     *)

RecorderExit(w, c) ==
    /\ c \in alive[w] /\ c \in cancelled[w]
    /\ alive' = [alive EXCEPT ![w] = @ \ {c}]
    /\ UNCHANGED <<confVars, running, cancelled, lock, mutex, loopVars, stopping, op, closeVars, bounds>>

HaltCancel(w, a, c) ==
    /\ c \in stopping[w][a] /\ stopping[w][a] \cap cancelled[w] = {}
    /\ cancelled' = [cancelled EXCEPT ![w] = @ \cup {c}]
    /\ UNCHANGED <<confVars, running, alive, lock, mutex, loopVars, stopping, op, closeVars, bounds>>

\* Mutant: the lock is released before the recorder has returned.
HaltReleaseEarly(w, a, c) ==
    /\ c \in stopping[w][a] /\ c \in cancelled[w]
    /\ lock' = [lock EXCEPT ![c] = None]
    /\ cancelled' = [cancelled EXCEPT ![w] = @ \ {c}]
    /\ stopping' = [stopping EXCEPT ![w][a] = @ \ {c}]
    /\ UNCHANGED <<confVars, running, alive, mutex, loopVars, op, closeVars, bounds>>

HaltRelease(w, a, c) ==
    /\ c \in stopping[w][a] /\ c \in cancelled[w] /\ c \notin alive[w]
    /\ lock' = [lock EXCEPT ![c] = None]
    /\ cancelled' = [cancelled EXCEPT ![w] = @ \ {c}]
    /\ stopping' = [stopping EXCEPT ![w][a] = @ \ {c}]
    /\ UNCHANGED <<confVars, running, alive, mutex, loopVars, op, closeVars, bounds>>

\* stopAll's first half: everything running is now this actor's to halt.
TakeAll(w, a) ==
    /\ stopping' = [stopping EXCEPT ![w][a] = running[w]]
    /\ running' = [running EXCEPT ![w] = {}]

-------------------------------------------------------------------------------
(* reconcile and startContext, on the loop goroutine.                      *)

\* The ticker or a Kick makes the loop call reconcile, even after loopCancel when
\* the select picks it.
LoopTick(w) ==
    /\ life[w] # "down" /\ loop[w] = "idle"
    /\ loop' = [loop EXCEPT ![w] = "wait"]
    /\ UNCHANGED <<confVars, recVars, mutex, loaded, stopping, starts, acquired, blocked, op, closeVars, bounds>>

LoopBegin(w) ==
    /\ loop[w] = "wait" /\ mutex[w] = "free"
    /\ mutex' = [mutex EXCEPT ![w] = "loop"]
    /\ loop' = [loop EXCEPT ![w] = "load"]
    /\ UNCHANGED <<confVars, recVars, loaded, stopping, starts, acquired, blocked, op, closeVars, bounds>>

LoopLoad(w) ==
    /\ loop[w] = "load"
    /\ loop' = [loop EXCEPT ![w] = "adopt"]
    /\ loaded' = [loaded EXCEPT ![w] = file]
    /\ UNCHANGED <<confVars, recVars, mutex, stopping, starts, acquired, blocked, op, closeVars, bounds>>

LoopAdopt(w) ==
    /\ loop[w] = "adopt"
    /\ loop' = [loop EXCEPT ![w] = "plan"]
    /\ settings' = [settings EXCEPT ![w] = loaded[w]]
    /\ UNCHANGED <<file, saving, want, recVars, mutex, loaded, stopping, starts, acquired, blocked, op, closeVars, bounds>>

Desired(w, enabled) == IF enabled = "on" THEN want[w] ELSE {}

\* Mutant: a blocked context is not retried.
LoopPlanOnce(w) ==
    LET wanted == Desired(w, settings[w]) IN
    /\ loop[w] = "plan"
    /\ loop' = [loop EXCEPT ![w] = "act"]
    /\ stopping' = [stopping EXCEPT ![w]["loop"] = running[w] \ wanted]
    /\ running' = [running EXCEPT ![w] = @ \cap wanted]
    /\ starts' = [starts EXCEPT ![w] = {c \in wanted \ running[w] : blocked[w][c] = "no"}]
    /\ blocked' = [blocked EXCEPT ![w] = [c \in Contexts |-> IF c \in wanted THEN @[c] ELSE "no"]]
    /\ UNCHANGED <<confVars, alive, cancelled, lock, mutex, loaded, acquired, op, closeVars, bounds>>

LoopPlan(w) ==
    LET wanted == Desired(w, settings[w]) IN
    /\ loop[w] = "plan"
    /\ loop' = [loop EXCEPT ![w] = "act"]
    /\ stopping' = [stopping EXCEPT ![w]["loop"] = running[w] \ wanted]
    /\ running' = [running EXCEPT ![w] = @ \cap wanted]
    /\ starts' = [starts EXCEPT ![w] = wanted \ running[w]]
    /\ blocked' = [blocked EXCEPT ![w] = [c \in Contexts |-> IF c \in wanted THEN @[c] ELSE "no"]]
    /\ UNCHANGED <<confVars, alive, cancelled, lock, mutex, loaded, acquired, op, closeVars, bounds>>

\* AcquireLock takes a free lock file; otherwise, or when the kubeconfig cannot be
\* read or the file not created, the context is left for the next reconcile.
LoopAcquire(w, c) ==
    /\ loop[w] = "act" /\ stopping[w]["loop"] = {} /\ c \in starts[w] /\ acquired[w] = {}
    /\ starts' = [starts EXCEPT ![w] = @ \ {c}]
    /\ \/ /\ lock[c] = None
          /\ lock' = [lock EXCEPT ![c] = w]
          /\ acquired' = [acquired EXCEPT ![w] = {c}]
          /\ UNCHANGED <<blocked, changes>>
       \/ /\ lock[c] # None
          /\ blocked' = [blocked EXCEPT ![w][c] = "other"]
          /\ UNCHANGED <<lock, acquired, changes>>
       \/ /\ changes < MaxChanges
          /\ changes' = changes + 1
          /\ blocked' = [blocked EXCEPT ![w][c] = "unavailable"]
          /\ UNCHANGED <<lock, acquired>>
    /\ UNCHANGED <<confVars, running, alive, cancelled, mutex, loop, loaded, stopping, op, closeVars, ops, exits>>

\* Mutant: a closed manager returns without releasing the lock.
LoopRegisterLeak(w, c) ==
    /\ c \in acquired[w]
    /\ acquired' = [acquired EXCEPT ![w] = {}]
    /\ \/ /\ life[w] = "closing"
          /\ UNCHANGED <<running, alive, blocked, lock>>
       \/ /\ life[w] = "open"
          /\ running' = [running EXCEPT ![w] = @ \cup {c}]
          /\ alive' = [alive EXCEPT ![w] = @ \cup {c}]
          /\ blocked' = [blocked EXCEPT ![w][c] = "no"]
          /\ UNCHANGED lock
    /\ UNCHANGED <<confVars, cancelled, mutex, loop, loaded, stopping, starts, op, closeVars, bounds>>

LoopRegister(w, c) ==
    /\ c \in acquired[w]
    /\ acquired' = [acquired EXCEPT ![w] = {}]
    /\ \/ /\ life[w] = "closing"
          /\ lock' = [lock EXCEPT ![c] = None]
          /\ UNCHANGED <<running, alive, blocked>>
       \/ /\ life[w] = "open"
          /\ running' = [running EXCEPT ![w] = @ \cup {c}]
          /\ alive' = [alive EXCEPT ![w] = @ \cup {c}]
          /\ blocked' = [blocked EXCEPT ![w][c] = "no"]
          /\ UNCHANGED lock
    /\ UNCHANGED <<confVars, cancelled, mutex, loop, loaded, stopping, starts, op, closeVars, bounds>>

LoopEnd(w) ==
    /\ loop[w] = "act" /\ stopping[w]["loop"] = {} /\ starts[w] = {} /\ acquired[w] = {}
    /\ loop' = [loop EXCEPT ![w] = "idle"]
    /\ mutex' = [mutex EXCEPT ![w] = "free"]
    /\ UNCHANGED <<confVars, recVars, loaded, stopping, starts, acquired, blocked, op, closeVars, bounds>>

LoopExit(w) ==
    /\ loop[w] = "idle" /\ life[w] = "closing"
    /\ loop' = [loop EXCEPT ![w] = "exited"]
    /\ UNCHANGED <<confVars, recVars, mutex, loaded, stopping, starts, acquired, blocked, op, closeVars, bounds>>

-------------------------------------------------------------------------------
(* Clear and Restart hold reconcileMu throughout.                          *)

\* Mutant: Clear and Restart do not take reconcileMu.
OpBeginUnserialised(w, kind) ==
    /\ life[w] # "down" /\ op[w] = "idle" /\ ops < MaxOps
    /\ ops' = ops + 1
    /\ UNCHANGED mutex
    /\ op' = [op EXCEPT ![w] = kind]
    /\ TakeAll(w, "op")
    /\ UNCHANGED <<confVars, alive, cancelled, lock, loopVars, closeVars, changes, exits>>

OpBegin(w, kind) ==
    /\ life[w] # "down" /\ op[w] = "idle" /\ mutex[w] = "free" /\ ops < MaxOps
    /\ ops' = ops + 1
    /\ mutex' = [mutex EXCEPT ![w] = "op"]
    /\ op' = [op EXCEPT ![w] = kind]
    /\ TakeAll(w, "op")
    /\ UNCHANGED <<confVars, alive, cancelled, lock, loopVars, closeVars, changes, exits>>

OpHalted(w) ==
    /\ op[w] = "clear" /\ stopping[w]["op"] = {}
    /\ op' = [op EXCEPT ![w] = "delete"]
    /\ UNCHANGED <<confVars, recVars, mutex, loopVars, stopping, closeVars, bounds>>

\* Mutant: reconcileMu is not unlocked.
OpEndKeepsMutex(w) ==
    /\ op[w] \in {"delete", "restart"} /\ stopping[w]["op"] = {}
    /\ op' = [op EXCEPT ![w] = "idle"]
    /\ UNCHANGED mutex
    /\ blocked' = [blocked EXCEPT ![w] = IF op[w] = "restart" THEN Unblocked ELSE @]
    /\ UNCHANGED <<confVars, recVars, loop, loaded, starts, acquired, stopping, closeVars, bounds>>

OpEnd(w) ==
    /\ op[w] \in {"delete", "restart"} /\ stopping[w]["op"] = {}
    /\ op' = [op EXCEPT ![w] = "idle"]
    /\ mutex' = [mutex EXCEPT ![w] = "free"]
    /\ blocked' = [blocked EXCEPT ![w] = IF op[w] = "restart" THEN Unblocked ELSE @]
    /\ UNCHANGED <<confVars, recVars, loop, loaded, starts, acquired, stopping, closeVars, bounds>>

-------------------------------------------------------------------------------
(* Close does not take reconcileMu: it waits for the loop to return.       *)

CloseBegin(w) ==
    /\ life[w] = "open" /\ exits < MaxExits
    /\ exits' = exits + 1
    /\ life' = [life EXCEPT ![w] = "closing"]
    /\ closer' = [closer EXCEPT ![w] = "wait"]
    /\ UNCHANGED <<confVars, recVars, mutex, loopVars, stopping, op, store, changes, ops>>

CloseStopAll(w) ==
    /\ closer[w] = "wait" /\ loop[w] = "exited"
    /\ closer' = [closer EXCEPT ![w] = "halt"]
    /\ TakeAll(w, "close")
    /\ UNCHANGED <<confVars, alive, cancelled, lock, mutex, loopVars, op, life, store, bounds>>

CloseStore(w) ==
    /\ closer[w] = "halt" /\ stopping[w]["close"] = {}
    /\ closer' = [closer EXCEPT ![w] = "done"]
    /\ store' = [store EXCEPT ![w] = "closed"]
    /\ UNCHANGED <<confVars, recVars, mutex, loopVars, stopping, op, life, bounds>>

-------------------------------------------------------------------------------
LoopNext(w) ==
    \/ LoopTick(w) \/ LoopBegin(w) \/ LoopLoad(w) \/ LoopAdopt(w) \/ LoopPlan(w) \/ LoopEnd(w)
    \/ \E c \in Contexts : LoopAcquire(w, c) \/ LoopRegister(w, c)

HaltNext(w) ==
    \E c \in Contexts : \/ RecorderExit(w, c)
                        \/ \E a \in Actors : HaltCancel(w, a, c) \/ HaltRelease(w, a, c)

OpNext(w)    == OpHalted(w) \/ OpEnd(w)
CloseNext(w) == CloseStopAll(w) \/ CloseStore(w) \/ Exit(w)

UserNext(w) ==
    \/ Open(w) \/ Crash(w) \/ CloseBegin(w)
    \/ \E s \in SUBSET Contexts : SetWanted(w, s)
    \/ \E s \in {"on", "off"} : SaveSettings(w, s)
    \/ ApplySettings(w)
    \/ \E kind \in {"clear", "restart"} : OpBegin(w, kind)

Next ==
    \E w \in Windows :
        \/ UserNext(w) \/ LoopNext(w) \/ LoopExit(w) \/ HaltNext(w) \/ OpNext(w) \/ CloseNext(w)

Spec == Init /\ [][Next]_vars

\* The loop's ticker keeps firing, a goroutine that can go on does, a cancelled
\* recorder returns (RecorderCoverage), and Go's select, which chooses at random
\* among its ready cases, does not pass over the closed context for ever.
FairSpec ==
    /\ Spec
    /\ \A w \in Windows :
         /\ WF_vars(LoopNext(w)) /\ SF_vars(LoopExit(w))
         /\ WF_vars(HaltNext(w)) /\ WF_vars(OpNext(w)) /\ WF_vars(CloseNext(w))
         /\ WF_vars(ApplySettings(w))

-------------------------------------------------------------------------------
(* Properties.                                                             *)

TypeOK ==
    /\ file \in {"on", "off"} /\ saving \in [Windows -> {"no", "on", "off"}]
    /\ life \in [Windows -> {"down", "open", "closing"}]
    /\ settings \in [Windows -> {"on", "off"}] /\ loaded \in [Windows -> {"on", "off"}]
    /\ want \in [Windows -> SUBSET Contexts]
    /\ running \in [Windows -> SUBSET Contexts]
    /\ blocked \in [Windows -> [Contexts -> {"no", "other", "unavailable"}]]
    /\ alive \in [Windows -> SUBSET Contexts]
    /\ cancelled \in [Windows -> SUBSET Contexts]
    /\ lock \in [Contexts -> Windows \cup {None}]
    /\ mutex \in [Windows -> {"free", "loop", "op"}]
    /\ loop \in [Windows -> {"idle", "wait", "load", "adopt", "plan", "act", "exited"}]
    /\ stopping \in [Windows -> [Actors -> SUBSET Contexts]]
    /\ starts \in [Windows -> SUBSET Contexts]
    /\ acquired \in [Windows -> SUBSET Contexts]
    /\ op \in [Windows -> {"idle", "clear", "restart", "delete"}]
    /\ closer \in [Windows -> {"no", "wait", "halt", "done"}]
    /\ store \in [Windows -> {"open", "closed"}]
    /\ changes \in Nat /\ ops \in Nat /\ exits \in Nat

\* A cluster is recorded by at most one window at a time, however windows start,
\* stop, clear, crash and take over from each other (AcquireLock, halt).
OneRecorder ==
    \A c \in Contexts : \A v, w \in Windows : c \in alive[v] /\ c \in alive[w] => v = w

\* A window holds a lock only while it runs, halts or is about to run a recorder
\* for it: a lock left behind would keep every window from recording.
Accounted(w, c) ==
    \/ c \in running[w] \/ c \in acquired[w]
    \/ \E a \in Actors : c \in stopping[w][a]
NoLeakedLock == \A c \in Contexts : lock[c] # None => Accounted(lock[c], c)

\* While Clear deletes the history no recorder of this window is running or being
\* started, reconcileMu sees to that; only those Close is halting may be left.
ClearAlone ==
    \A w \in Windows : op[w] = "delete" =>
        alive[w] \subseteq stopping[w]["close"] /\ acquired[w] = {}

\* Close ends every recorder of the window before it closes the store.
StoreOutlivesRecorders == \A w \in Windows : alive[w] # {} => store[w] = "open"

\* In the end every open window uses the settings in the file, whoever wrote them
\* last; everything it wants is recorded, and where another window records it this
\* one says so; it records nothing else and reports nothing else as blocked.  The
\* contexts another window held, or that could not be started, are retried.
Settled ==
    \A w \in Windows : life[w] = "open" =>
        /\ settings[w] = file
        /\ \A c \in Desired(w, file) :
             \E v \in Windows : c \in alive[v] /\ blocked[w][c] = IF v = w THEN "no" ELSE "other"
        /\ \A c \in Contexts \ Desired(w, file) : c \notin alive[w] /\ blocked[w][c] = "no"
Converges == <>[]Settled

\* A window that closes goes away: Close is not kept waiting for ever by a
\* reconcile, a clear or a recorder.
CloseReturns == \A w \in Windows : life[w] = "closing" ~> life[w] = "down"

===============================================================================
