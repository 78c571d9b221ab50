------------------------------ MODULE DeskProofs ------------------------------
(***************************************************************************)
(* Proofs about what MCDesk composes.                                      *)
(***************************************************************************)
EXTENDS MCDesk, KeptProofs

(* The window's state is a record of these fields, and the bridge calls under way. *)
ConnFields == {"ctx", "syncError", "status", "statusLoading", "syncing", "connecting", "paused", "auto",
               "dismissed", "attempt", "counting", "exhausted", "armed", "busy"}

ConnState ==
  {w \in [ConnFields -> ConnContexts \cup BOOLEAN \cup Nat \cup {"none", "ok", "error"}] :
     w.ctx \in ConnContexts /\ w.attempt \in Nat}

ConnCalls == [kind : {"reconnect", "refresh", "nothing", "sync", "context", "status"}, ctx : ConnContexts]

ConnTypes == n \in ConnState /\ n.ctx \in ConnContexts /\ up \in BOOLEAN /\ waits \subseteq ConnCalls

(* A render whose retry effect has nothing left to do: the timer runs only where
   a retry may, and one that is counted down runs. *)
TimerRight(w) ==
  /\ w.armed => MayRetry(w)
  /\ MayRetry(w) /\ w.counting /\ ~w.exhausted => w.armed

(* What is under way of a reconnect *)
Running == Kind("reconnect") \cup Kind("refresh") \cup Kind("nothing")

OneRuns == (\A a, b \in Running : a = b) /\ (n.busy <=> Running # {})

ConnInv == ConnTypes /\ TimerRight(n) /\ OneRuns
-----------------------------------------------------------------------------
(* What no effect changes: the answers of the bridge and what is under way *)
SameCalls(s, w) ==
  /\ s.ctx = w.ctx /\ s.syncError = w.syncError /\ s.status = w.status /\ s.statusLoading = w.statusLoading
  /\ s.syncing = w.syncing /\ s.connecting = w.connecting /\ s.auto = w.auto /\ s.busy = w.busy

Undismissed(w) == w.dismissed = FALSE

(* The three effects of a commit, by what they may change. *)
LEMMA ContextEffectFacts ==
  ASSUME NEW old \in ConnState, NEW w \in ConnState, NEW s, s = ConnContextEffect(old, w, w)
  PROVE  /\ s \in ConnState /\ SameCalls(s, w)
         /\ old.ctx = w.ctx => s = w
         /\ old.ctx # w.ctx => s.attempt = 0 /\ Undismissed(s) /\ ~s.counting /\ ~s.armed
  BY DEF ConnContextEffect, ConnState, ConnFields, SameCalls, Undismissed

(* Whether the connection is down *)
Lost(w) == <<Disconnected(w), w.paused>>

LEMMA RecoveredEffectFacts ==
  ASSUME NEW old \in ConnState, NEW w \in ConnState, NEW s \in ConnState, NEW t, t = RecoveredEffect(old, w, s)
  PROVE  /\ t \in ConnState /\ SameCalls(t, s) /\ t.paused = s.paused
         /\ Lost(old) = Lost(w) => t = s
         /\ t = s \/ (/\ t.attempt = 0 /\ ~t.counting /\ ~t.armed
                      /\ (Undismissed(s) => Undismissed(t)))
  BY DEF RecoveredEffect, ConnState, ConnFields, Lost, SameCalls, Undismissed

LEMMA RetryEffectFacts ==
  ASSUME NEW old \in ConnState, NEW w \in ConnState, NEW s \in ConnState, NEW t, t = RetryEffect(old, w, s)
  PROVE  /\ t \in ConnState /\ SameCalls(t, s) /\ t.paused = s.paused
         /\ t.attempt = s.attempt /\ t.dismissed = s.dismissed
         /\ RetryDeps(old) = RetryDeps(w) => t = s
         /\ RetryDeps(old) # RetryDeps(w) /\ ~MayRetry(w) => ~t.armed
         /\ RetryDeps(old) # RetryDeps(w) /\ MayRetry(w) => t.armed \/ t.exhausted
  BY DEF RetryEffect, ConnState, ConnFields, SameCalls

(* A retry depends on what the effect depends on, and on nothing else. *)
LEMMA SameDeps ==
  ASSUME NEW v, NEW w, RetryDeps(v) = RetryDeps(w)
  PROVE  /\ MayRetry(v) = MayRetry(w) /\ Lost(v) = Lost(w)
         /\ v.armed = w.armed /\ v.counting = w.counting /\ v.exhausted = w.exhausted /\ TimerRight(w) => TimerRight(v)
  <1>1. /\ v.paused = w.paused /\ v.auto = w.auto /\ Disconnected(v) = Disconnected(w) /\ v.busy = w.busy
        /\ v.syncing = w.syncing /\ v.connecting = w.connecting /\ v.statusLoading = w.statusLoading
        /\ v.dismissed = w.dismissed
    BY DEF RetryDeps
  <1> QED BY <1>1 DEF MayRetry, Lost, TimerRight

LEMMA SameCallsDeps ==
  ASSUME NEW v \in ConnState, NEW w \in ConnState, SameCalls(v, w), v.paused = w.paused
  PROVE  /\ Lost(v) = Lost(w)
         /\ v.attempt = w.attempt /\ v.dismissed = w.dismissed => RetryDeps(v) = RetryDeps(w)
  <1>1. Disconnected(v) = Disconnected(w)
    BY DEF SameCalls, Disconnected, IsDown
  <1> QED BY <1>1 DEF Lost, RetryDeps, SameCalls

(* One round of effects: wherever it leaves what the timer depends on alone, the
   timer is right. *)
LEMMA EffectsRound ==
  ASSUME NEW old \in ConnState, NEW w \in ConnState, NEW r, r = Effects(old, w),
         RetryDeps(old) = RetryDeps(w) => TimerRight(w)
  PROVE  /\ r \in ConnState /\ SameCalls(r, w)
         /\ RetryDeps(w) = RetryDeps(r) => TimerRight(r)
         /\ r.paused = w.paused \/ (old.ctx # w.ctx /\ r.attempt = 0 /\ Undismissed(r))
  <1>s. PICK s : s = ConnContextEffect(old, w, w)
    OBVIOUS
  <1>t. PICK t : t = RecoveredEffect(old, w, s)
    OBVIOUS
  <1>1. /\ s \in ConnState /\ SameCalls(s, w)
        /\ old.ctx = w.ctx => s = w
        /\ old.ctx # w.ctx => s.attempt = 0 /\ Undismissed(s) /\ ~s.counting /\ ~s.armed
    BY <1>s, ContextEffectFacts
  <1>2. r = RetryEffect(old, w, t)
    BY <1>s, <1>t DEF Effects
  <1>3. /\ t \in ConnState /\ SameCalls(t, s) /\ t.paused = s.paused
        /\ t = s \/ (t.attempt = 0 /\ ~t.counting /\ ~t.armed /\ (Undismissed(s) => Undismissed(t)))
    BY <1>t, <1>1, RecoveredEffectFacts
  <1>4. /\ r \in ConnState /\ SameCalls(r, t) /\ r.paused = t.paused
        /\ r.attempt = t.attempt /\ r.dismissed = t.dismissed
        /\ RetryDeps(old) = RetryDeps(w) => r = t
        /\ RetryDeps(old) # RetryDeps(w) /\ ~MayRetry(w) => ~r.armed
        /\ RetryDeps(old) # RetryDeps(w) /\ MayRetry(w) => r.armed \/ r.exhausted
    BY <1>2, <1>3, RetryEffectFacts
  <1>5. SameCalls(r, w)
    BY <1>1, <1>3, <1>4 DEF SameCalls
  <1>6. ASSUME RetryDeps(w) = RetryDeps(r) PROVE TimerRight(r)
    <2>1. MayRetry(r) = MayRetry(w)
      BY <1>6, SameDeps
    <2>2. CASE RetryDeps(old) # RetryDeps(w)
      BY <1>4, <2>1, <2>2 DEF TimerRight
    <2>3. CASE RetryDeps(old) = RetryDeps(w)
      <3>1. r = t
        BY <1>4, <2>3
      <3>2. t = w \/ (~t.counting /\ ~t.armed)
        BY <1>1, <1>3
      <3> QED BY <2>3, <3>1, <3>2 DEF TimerRight
    <2> QED BY <2>2, <2>3
  <1>7. r.paused = w.paused \/ (old.ctx # w.ctx /\ r.attempt = 0 /\ Undismissed(r))
    BY <1>1, <1>3, <1>4 DEF Undismissed
  <1> QED BY <1>4, <1>5, <1>6, <1>7

(* The second round changes nothing the timer depends on, so the third changes
   nothing, and what the commit ends with is right. *)
LEMMA CommitRight ==
  ASSUME NEW old \in ConnState, NEW w \in ConnState, n = old, NEW r, r = ConnCommit(w),
         RetryDeps(old) = RetryDeps(w) => TimerRight(w)
  PROVE  r \in ConnState /\ r.ctx = w.ctx /\ r.busy = w.busy /\ TimerRight(r)
  <1>1. PICK a : a = Effects(old, w)
    OBVIOUS
  <1>2. PICK b : b = Effects(w, a)
    OBVIOUS
  <1>3. PICK c : c = Effects(a, b)
    OBVIOUS
  <1>4. r = c
    <2> DEFINE after(pairs) == {<<p[2], Effects(p[1], p[2])>> : p \in pairs}
    <2>1. after({<<n, w>>}) = {<<w, a>>}
      BY <1>1
    <2>2. after({<<w, a>>}) = {<<a, b>>}
      BY <1>2
    <2>3. after({<<a, b>>}) = {<<b, c>>}
      BY <1>3
    <2>4. r = CHOOSE x \in {p[2] : p \in after(after(after({<<n, w>>})))} : TRUE
      BY DEF ConnCommit
    <2> HIDE DEF after
    <2>5. r = CHOOSE x \in {p[2] : p \in {<<b, c>>}} : TRUE
      BY <2>1, <2>2, <2>3, <2>4
    <2>6. {p[2] : p \in {<<b, c>>}} = {c}
      OBVIOUS
    <2> QED BY <2>5, <2>6
  <1>5. /\ a \in ConnState /\ SameCalls(a, w) /\ (RetryDeps(w) = RetryDeps(a) => TimerRight(a))
        /\ a.paused = w.paused \/ (a.attempt = 0 /\ Undismissed(a))
    BY <1>1, EffectsRound
  <1>6. /\ b \in ConnState /\ SameCalls(b, a) /\ (RetryDeps(a) = RetryDeps(b) => TimerRight(b))
    BY <1>2, <1>5, EffectsRound
  <1>7. RetryDeps(a) = RetryDeps(b) /\ Lost(a) = Lost(b)
    <2>s. PICK s : s = ConnContextEffect(w, a, a)
      OBVIOUS
    <2>t. PICK t : t = RecoveredEffect(w, a, s)
      OBVIOUS
    <2>0. w.ctx = a.ctx
      BY <1>5 DEF SameCalls
    <2>1. s = a
      BY <1>5, <2>s, <2>0, ContextEffectFacts
    <2>2. b = RetryEffect(w, a, t)
      BY <1>2, <2>s, <2>t DEF Effects
    <2>3. /\ t \in ConnState /\ SameCalls(t, s) /\ t.paused = s.paused
          /\ Lost(w) = Lost(a) => t = s
          /\ t = s \/ (t.attempt = 0 /\ (Undismissed(s) => Undismissed(t)))
      BY <1>5, <2>t, <2>1, RecoveredEffectFacts
    <2>4. b.paused = t.paused /\ b.attempt = t.attempt /\ b.dismissed = t.dismissed
      BY <1>5, <2>2, <2>3, RetryEffectFacts
    <2>5. a.paused = w.paused => t = a
      BY <1>5, <2>1, <2>3, SameCallsDeps
    <2>6. b.paused = a.paused /\ b.attempt = a.attempt /\ b.dismissed = a.dismissed
      BY <1>5, <2>1, <2>3, <2>4, <2>5 DEF Undismissed
    <2> QED BY <1>5, <1>6, <2>6, SameCallsDeps
  <1>8. c = b
    <2>1. ConnContextEffect(a, b, b) = b
      BY <1>6 DEF SameCalls, ConnContextEffect
    <2>2. RecoveredEffect(a, b, b) = b
      BY <1>7 DEF RecoveredEffect, Lost
    <2>3. RetryEffect(a, b, b) = b
      BY <1>7 DEF RetryEffect
    <2> QED BY <1>3, <2>1, <2>2, <2>3 DEF Effects
  <1> QED BY <1>4, <1>5, <1>6, <1>7, <1>8 DEF SameCalls
-----------------------------------------------------------------------------
(* A step that commits w keeps the invariant if w differs from the state in what
   the timer depends on, or stops the countdown, or leaves the timer alone, and
   if the calls under way agree with busy. *)
LEMMA CommitStep ==
  ASSUME ConnInv, NEW w \in ConnState, w.ctx \in ConnContexts, n' = ConnCommit(w), up' \in BOOLEAN, waits' \subseteq ConnCalls,
         \/ RetryDeps(n) # RetryDeps(w)
         \/ ~w.armed /\ ~w.counting
         \/ w.armed = n.armed /\ w.counting = n.counting /\ w.exhausted = n.exhausted,
         (\A a, b \in Running' : a = b) /\ (w.busy <=> Running' # {})
  PROVE  ConnInv'
  <1>1. RetryDeps(n) = RetryDeps(w) => TimerRight(w)
    <2>1. CASE ~w.armed /\ ~w.counting
      BY <2>1 DEF TimerRight
    <2>2. ASSUME w.armed = n.armed, w.counting = n.counting, w.exhausted = n.exhausted, RetryDeps(n) = RetryDeps(w)
          PROVE  TimerRight(w)
      BY <2>2, SameDeps DEF ConnInv
    <2> QED BY <2>1, <2>2
  <1>2. n' \in ConnState /\ n'.ctx = w.ctx /\ n'.busy = w.busy /\ TimerRight(n')
    BY <1>1, CommitRight DEF ConnInv, ConnTypes
  <1>3. OneRuns'
    BY <1>2 DEF OneRuns
  <1> QED BY <1>2, <1>3 DEF ConnInv, ConnTypes, TimerRight, MayRetry, Disconnected, IsDown

(* What a reconnect does, whoever asks for it: it starts only beside no other. *)
LEMMA ReconnectStep ==
  ASSUME ConnInv, NEW v \in ConnState, v.ctx = n.ctx, ~n.busy, Reconnect(v), up' \in BOOLEAN
  PROVE  ConnInv'
  <1>1. PICK w : w = [v EXCEPT !.armed = FALSE, !.busy = TRUE, !.counting = FALSE, !.syncing = TRUE]
    OBVIOUS
  <1>2. w \in ConnState /\ w.ctx = n.ctx /\ w.busy /\ ~w.armed /\ ~w.counting
    BY <1>1 DEF ConnState, ConnFields
  <1>3. PICK c : c = [kind |-> "reconnect", ctx |-> n.ctx]
    OBVIOUS
  <1>4. n' = ConnCommit(w) /\ waits' = waits \cup {c}
    BY <1>1, <1>3 DEF Reconnect
  <1>5. c \in ConnCalls
    BY <1>3 DEF ConnInv, ConnTypes, ConnCalls, ConnState, ConnFields
  <1>6. Running' = {c}
    BY <1>3, <1>4 DEF ConnInv, OneRuns, Running, Kind
  <1> QED BY <1>2, <1>4, <1>5, <1>6, CommitStep DEF ConnInv, ConnTypes
(* The timer of a retry fires only where a retry may; the buttons work only
   outside a reconnect. *)
LEMMA AskedStep == ASSUME ConnInv, RetryTimer \/ HandleReconnect PROVE ConnInv'
  <1>1. CASE RetryTimer
    <2>1. PICK v : v = [n EXCEPT !.attempt = @ + 1]
      OBVIOUS
    <2>2. ~n.busy
      BY <1>1 DEF RetryTimer, ConnInv, TimerRight, MayRetry
    <2>3. v \in ConnState /\ v.ctx = n.ctx
      BY <2>1 DEF ConnInv, ConnTypes, ConnState, ConnFields
    <2>4. Reconnect(v) /\ up' \in BOOLEAN
      BY <1>1, <2>1 DEF RetryTimer, ConnInv, ConnTypes
    <2> QED BY <2>2, <2>3, <2>4, ReconnectStep
  <1>2. CASE HandleReconnect
    <2>1. PICK v : v = [n EXCEPT !.paused = FALSE, !.dismissed = FALSE, !.attempt = 0, !.exhausted = FALSE]
      OBVIOUS
    <2>2. v \in ConnState /\ v.ctx = n.ctx
      BY <2>1 DEF ConnInv, ConnTypes, ConnState, ConnFields
    <2>3. ~n.busy /\ Reconnect(v) /\ up' \in BOOLEAN
      BY <1>2, <2>1 DEF HandleReconnect, CanReconnect, ConnInv, ConnTypes
    <2> QED BY <2>2, <2>3, ReconnectStep
  <1> QED BY <1>1, <1>2

(* The answers of a reconnect: its synchronisation, then its status. *)
LEMMA ReconnectedStep == ASSUME ConnInv, ReconnectSynced \/ Refreshed PROVE ConnInv'
  <1>0. n \in ConnState /\ n.ctx \in ConnContexts /\ waits \subseteq ConnCalls /\ up \in BOOLEAN
    BY DEF ConnInv, ConnTypes
  <1>1. CASE ReconnectSynced
    <2>1. PICK c \in Kind("reconnect") :
            /\ n' = ConnCommit([Synced(n, c) EXCEPT !.statusLoading = ~n.paused])
            /\ waits' = (waits \ {c}) \cup {[kind |-> IF n.paused THEN "nothing" ELSE "refresh", ctx |-> c.ctx]}
            /\ UNCHANGED <<up, autos>>
      BY <1>1 DEF ReconnectSynced
    <2>2. PICK w : w = [Synced(n, c) EXCEPT !.statusLoading = ~n.paused]
      OBVIOUS
    <2>3. c \in ConnCalls /\ c.ctx \in ConnContexts /\ c \in Running /\ n.busy
      BY <1>0 DEF Kind, ConnCalls, Running, ConnInv, OneRuns
    <2>4. /\ w \in ConnState /\ w.ctx = c.ctx /\ w.busy = n.busy
          /\ w.armed = n.armed /\ w.counting = n.counting /\ w.exhausted = n.exhausted
      BY <1>0, <2>2, <2>3 DEF Synced, ConnState, ConnFields
    <2>5. PICK d : d = [kind |-> IF n.paused THEN "nothing" ELSE "refresh", ctx |-> c.ctx]
      OBVIOUS
    <2>6. d \in ConnCalls /\ d.kind \in {"nothing", "refresh"}
      BY <2>3, <2>5 DEF ConnCalls
    <2>7. Running' = {d}
      BY <2>1, <2>3, <2>5, <2>6 DEF ConnInv, OneRuns, Running, Kind
    <2> QED BY <1>0, <2>1, <2>2, <2>3, <2>4, <2>5, <2>6, <2>7, CommitStep
  <1>2. CASE Refreshed
    <2>1. PICK c \in Kind("refresh") \cup Kind("nothing") :
            /\ n' = ConnCommit([n EXCEPT !.busy = FALSE,
                       !.statusLoading = IF c.kind = "refresh" THEN FALSE ELSE @,
                       !.status = IF c.kind # "refresh" \/ n.paused THEN @ ELSE Reachability])
            /\ waits' = waits \ {c} /\ UNCHANGED up
      BY <1>2 DEF Refreshed
    <2>2. PICK w : w = [n EXCEPT !.busy = FALSE,
                          !.statusLoading = IF c.kind = "refresh" THEN FALSE ELSE @,
                          !.status = IF c.kind # "refresh" \/ n.paused THEN @ ELSE Reachability]
      OBVIOUS
    <2>3. /\ w \in ConnState /\ w.ctx = n.ctx /\ ~w.busy
          /\ w.armed = n.armed /\ w.counting = n.counting /\ w.exhausted = n.exhausted
      BY <1>0, <2>2 DEF ConnState, ConnFields, Reachability
    <2>4. Running' = {}
      BY <2>1 DEF ConnInv, OneRuns, Running, Kind
    <2> QED BY <1>0, <2>1, <2>2, <2>3, <2>4, CommitStep
  <1> QED BY <1>1, <1>2

(* What leaves the calls of a reconnect and its flag alone *)
LEMMA OtherStep ==
  ASSUME ConnInv, NEW w \in ConnState, w.ctx \in ConnContexts, n' = ConnCommit(w), up' = up,
         waits' \subseteq ConnCalls, w.busy = n.busy,
         \A k \in {"reconnect", "refresh", "nothing"} : Kind(k)' = Kind(k),
         \/ RetryDeps(n) # RetryDeps(w)
         \/ ~w.armed /\ ~w.counting
         \/ w.armed = n.armed /\ w.counting = n.counting /\ w.exhausted = n.exhausted
  PROVE  ConnInv'
  <1>1. Running' = Running
    BY DEF Running
  <1>2. (\A a, b \in Running' : a = b) /\ (w.busy <=> Running' # {}) /\ up' \in BOOLEAN
    BY <1>1 DEF ConnInv, OneRuns, ConnTypes
  <1> QED BY <1>2, CommitStep
(* Calls that start: a synchronisation, another context. *)
LEMMA AskStep == ASSUME ConnInv, SyncNow \/ SetContext PROVE ConnInv'
  <1>0. n \in ConnState /\ n.ctx \in ConnContexts /\ waits \subseteq ConnCalls /\ up \in BOOLEAN
    BY DEF ConnInv, ConnTypes, ConnState
  <1>1. CASE SyncNow
    <2>1. PICK w : w = [n EXCEPT !.syncing = TRUE]
      OBVIOUS
    <2>2. /\ w \in ConnState /\ w.ctx = n.ctx /\ w.busy = n.busy
          /\ w.armed = n.armed /\ w.counting = n.counting /\ w.exhausted = n.exhausted
      BY <1>0, <2>1 DEF ConnState, ConnFields
    <2>3. PICK c : c = [kind |-> "sync", ctx |-> n.ctx]
      OBVIOUS
    <2>4. n' = ConnCommit(w) /\ waits' = waits \cup {c} /\ up' = up
      BY <1>1, <2>1, <2>3 DEF SyncNow
    <2>5. c \in ConnCalls /\ \A k \in {"reconnect", "refresh", "nothing"} : Kind(k)' = Kind(k)
      BY <1>0, <2>3, <2>4 DEF ConnCalls, Kind
    <2> QED BY <1>0, <2>2, <2>4, <2>5, OtherStep
  <1>2. CASE SetContext
    <2>1. PICK w : w = [n EXCEPT !.connecting = TRUE]
      OBVIOUS
    <2>2. /\ w \in ConnState /\ w.ctx = n.ctx /\ w.busy = n.busy
          /\ w.armed = n.armed /\ w.counting = n.counting /\ w.exhausted = n.exhausted
      BY <1>0, <2>1 DEF ConnState, ConnFields
    <2>3. PICK x \in ConnContexts :
            n' = ConnCommit(w) /\ waits' = waits \cup {[kind |-> "context", ctx |-> x]} /\ up' = up
      BY <1>2, <2>1 DEF SetContext
    <2>4. PICK c : c = [kind |-> "context", ctx |-> x]
      OBVIOUS
    <2>5. c \in ConnCalls /\ \A k \in {"reconnect", "refresh", "nothing"} : Kind(k)' = Kind(k)
      BY <1>0, <2>3, <2>4 DEF ConnCalls, Kind
    <2> QED BY <1>0, <2>2, <2>3, <2>4, <2>5, OtherStep
  <1> QED BY <1>1, <1>2

(* Their answers, and those of the status hook: the timer is left to the effects. *)
LEMMA AnswerStep ==
  ASSUME ConnInv, SyncAnswered \/ ConnContextAnswered \/ StatusAnswered \/ PollStatus
  PROVE  ConnInv'
  <1>0. n \in ConnState /\ n.ctx \in ConnContexts /\ waits \subseteq ConnCalls /\ up \in BOOLEAN
    BY DEF ConnInv, ConnTypes, ConnState
  <1>1. CASE SyncAnswered
    <2>1. PICK c \in Kind("sync") : n' = ConnCommit(Synced(n, c)) /\ waits' = waits \ {c} /\ up' = up
      BY <1>1 DEF SyncAnswered
    <2>2. PICK w : w = Synced(n, c)
      OBVIOUS
    <2>3. c.ctx \in ConnContexts
      BY <1>0 DEF Kind, ConnCalls
    <2>4. /\ w \in ConnState /\ w.busy = n.busy
          /\ w.armed = n.armed /\ w.counting = n.counting /\ w.exhausted = n.exhausted
      BY <1>0, <2>2, <2>3 DEF Synced, ConnState, ConnFields
    <2>5. \A k \in {"reconnect", "refresh", "nothing"} : Kind(k)' = Kind(k)
      BY <2>1 DEF Kind
    <2> QED BY <1>0, <2>1, <2>2, <2>4, <2>5, OtherStep DEF ConnState
  <1>2. CASE ConnContextAnswered
    <2>1. PICK c \in Kind("context") :
            /\ n' = ConnCommit([n EXCEPT !.ctx = c.ctx, !.syncError = ~up, !.connecting = FALSE,
                                         !.statusLoading = @ \/ c.ctx # n.ctx])
            /\ waits' = (waits \ {c}) \cup
                 (IF c.ctx # n.ctx THEN {[kind |-> "status", ctx |-> c.ctx]} ELSE {})
            /\ up' = up
      BY <1>2 DEF ConnContextAnswered
    <2>2. PICK w : w = [n EXCEPT !.ctx = c.ctx, !.syncError = ~up, !.connecting = FALSE,
                                 !.statusLoading = @ \/ c.ctx # n.ctx]
      OBVIOUS
    <2>3. c.ctx \in ConnContexts
      BY <1>0 DEF Kind, ConnCalls
    <2>4. /\ w \in ConnState /\ w.busy = n.busy
          /\ w.armed = n.armed /\ w.counting = n.counting /\ w.exhausted = n.exhausted
      BY <1>0, <2>2, <2>3 DEF ConnState, ConnFields
    <2>5. PICK d : d = [kind |-> "status", ctx |-> c.ctx]
      OBVIOUS
    <2>6. d \in ConnCalls /\ waits' \subseteq (waits \ {c}) \cup {d} /\ waits \ {c} \subseteq waits'
      BY <2>1, <2>3, <2>5 DEF ConnCalls
    <2>7. \A k \in {"reconnect", "refresh", "nothing"} : Kind(k)' = Kind(k)
      BY <2>5, <2>6 DEF Kind
    <2> QED BY <1>0, <2>1, <2>2, <2>4, <2>6, <2>7, OtherStep DEF ConnState
  <1>3. CASE StatusAnswered
    <2>1. PICK c \in Kind("status") :
            /\ n' = ConnCommit([n EXCEPT !.statusLoading = (Kind("refresh") # {}) /\ @,
                                         !.status = IF n.paused THEN @ ELSE Reachability])
            /\ waits' = waits \ {c} /\ up' = up
      BY <1>3 DEF StatusAnswered
    <2>2. PICK w : w = [n EXCEPT !.statusLoading = (Kind("refresh") # {}) /\ @,
                                 !.status = IF n.paused THEN @ ELSE Reachability]
      OBVIOUS
    <2>3. /\ w \in ConnState /\ w.busy = n.busy
          /\ w.armed = n.armed /\ w.counting = n.counting /\ w.exhausted = n.exhausted
      BY <1>0, <2>2 DEF ConnState, ConnFields, Reachability
    <2>4. \A k \in {"reconnect", "refresh", "nothing"} : Kind(k)' = Kind(k)
      BY <2>1 DEF Kind
    <2> QED BY <1>0, <2>1, <2>2, <2>3, <2>4, OtherStep DEF ConnState
  <1>4. CASE PollStatus
    <2>1. PICK w : w = [n EXCEPT !.status = Reachability]
      OBVIOUS
    <2>2. n' = ConnCommit(w) /\ up' = up /\ waits' = waits
      BY <1>4, <2>1 DEF PollStatus
    <2>3. /\ w \in ConnState /\ w.busy = n.busy
          /\ w.armed = n.armed /\ w.counting = n.counting /\ w.exhausted = n.exhausted
      BY <1>0, <2>1 DEF ConnState, ConnFields, Reachability
    <2> QED BY <1>0, <2>2, <2>3, OtherStep DEF ConnState, Kind
  <1> QED BY <1>1, <1>2, <1>3, <1>4

(* What the user switches: monitoring off, the banner away, the preference. *)
LEMMA SwitchStep == ASSUME ConnInv, Disconnect \/ Dismiss \/ SetAutoMonitor PROVE ConnInv'
  <1>0. n \in ConnState /\ n.ctx \in ConnContexts /\ waits \subseteq ConnCalls /\ up \in BOOLEAN
    BY DEF ConnInv, ConnTypes, ConnState
  <1>1. CASE Disconnect
    <2>1. PICK w : w = [n EXCEPT !.armed = FALSE, !.paused = TRUE, !.dismissed = FALSE, !.attempt = 0,
                                 !.exhausted = FALSE, !.counting = FALSE, !.statusLoading = FALSE]
      OBVIOUS
    <2>2. n' = ConnCommit(w) /\ up' = up /\ waits' = waits
      BY <1>1, <2>1 DEF Disconnect
    <2>3. w \in ConnState /\ w.busy = n.busy /\ ~w.armed /\ ~w.counting
      BY <1>0, <2>1 DEF ConnState, ConnFields
    <2> QED BY <1>0, <2>2, <2>3, OtherStep DEF ConnState, Kind
  <1>2. CASE Dismiss
    <2>1. PICK w : w = [n EXCEPT !.armed = FALSE, !.dismissed = TRUE, !.counting = FALSE]
      OBVIOUS
    <2>2. n' = ConnCommit(w) /\ up' = up /\ waits' = waits
      BY <1>2, <2>1 DEF Dismiss
    <2>3. w \in ConnState /\ w.busy = n.busy /\ ~w.armed /\ ~w.counting
      BY <1>0, <2>1 DEF ConnState, ConnFields
    <2> QED BY <1>0, <2>2, <2>3, OtherStep DEF ConnState, Kind
  <1>3. CASE SetAutoMonitor
    <2>1. PICK w : w = [n EXCEPT !.auto = ~@]
      OBVIOUS
    <2>2. n' = ConnCommit(w) /\ up' = up /\ waits' = waits
      BY <1>3, <2>1 DEF SetAutoMonitor
    <2>3. /\ w \in ConnState /\ w.busy = n.busy
          /\ w.armed = n.armed /\ w.counting = n.counting /\ w.exhausted = n.exhausted
      BY <1>0, <2>1 DEF ConnState, ConnFields
    <2> QED BY <1>0, <2>2, <2>3, OtherStep DEF ConnState, Kind
  <1> QED BY <1>1, <1>2, <1>3

LEMMA ConnIdle == ASSUME ConnInv, n' = n, waits' = waits, up' \in BOOLEAN PROVE ConnInv'
  BY DEF ConnInv, ConnTypes, OneRuns, Running, Kind, TimerRight, MayRetry, Disconnected, IsDown

LEMMA ConnInitInv == ConnInit => ConnInv
  <1> SUFFICES ASSUME ConnInit PROVE ConnInv
    OBVIOUS
  <1>1. PICK c \in ConnContexts, e \in BOOLEAN :
          n = [ctx |-> c, syncError |-> e, status |-> "none", statusLoading |-> FALSE,
               syncing |-> FALSE, connecting |-> FALSE,
               paused |-> FALSE, auto |-> TRUE, dismissed |-> FALSE,
               attempt |-> 0, counting |-> e, exhausted |-> FALSE, armed |-> e, busy |-> FALSE]
    BY DEF ConnInit
  <1>2. n \in ConnState
    <2>1. DOMAIN n = ConnFields /\ n.ctx \in ConnContexts /\ n.attempt \in Nat
      BY <1>1 DEF ConnFields
    <2>2. n = [f \in ConnFields |-> n[f]]
      BY <1>1, <2>1
    <2>3. \A f \in ConnFields : n[f] \in ConnContexts \cup BOOLEAN \cup Nat \cup {"none", "ok", "error"}
      <3>1. n.ctx = c /\ n.status = "none" /\ n.attempt = 0
        BY <1>1
      <3>2. /\ n.syncError \in BOOLEAN /\ n.statusLoading \in BOOLEAN /\ n.syncing \in BOOLEAN
            /\ n.connecting \in BOOLEAN /\ n.paused \in BOOLEAN /\ n.auto \in BOOLEAN
            /\ n.dismissed \in BOOLEAN /\ n.counting \in BOOLEAN /\ n.exhausted \in BOOLEAN
            /\ n.armed \in BOOLEAN /\ n.busy \in BOOLEAN
        BY <1>1
      <3> QED BY <3>1, <3>2 DEF ConnFields
    <2> QED BY <2>1, <2>2, <2>3 DEF ConnState
  <1>3. TimerRight(n)
    BY <1>1 DEF TimerRight, MayRetry, Disconnected, IsDown
  <1>4. OneRuns
    BY <1>1 DEF OneRuns, Running, Kind, ConnInit
  <1> QED BY <1>2, <1>3, <1>4 DEF ConnInv, ConnTypes, ConnInit, ConnState

LEMMA ConnNextInv == ASSUME ConnInv, [ConnNext]_connVars PROVE ConnInv'
  <1>1. CASE ApiChanges \/ UNCHANGED connVars
    BY <1>1, ConnIdle DEF ApiChanges, connVars, ConnInv, ConnTypes
  <1>2. CASE ConnNext
    BY <1>1, <1>2, AskedStep, ReconnectedStep, AskStep, AnswerStep, SwitchStep DEF ConnNext
  <1> QED BY <1>1, <1>2

(* A countdown without a status request under way is one the effect has armed. *)
LEMMA InvHonest == ConnInv => ConnectionHonest
  <1> SUFFICES ASSUME ConnInv PROVE ConnectionHonest
    OBVIOUS
  <1>1. TimerOnlyWhenDown
    BY DEF ConnInv, TimerRight, TimerOnlyWhenDown
  <1>2. CountdownHonest
    <2> SUFFICES ASSUME Phase(n) = "retrying", ~n.statusLoading PROVE n.armed
      BY DEF CountdownHonest
    <2>1. ~n.paused /\ ~(n.syncing \/ n.busy \/ n.connecting)
      BY DEF Phase
    <2>2. ~n.dismissed /\ n.counting /\ Disconnected(n) /\ ~n.exhausted /\ n.auto
      BY <2>1 DEF Phase
    <2> QED BY <2>1, <2>2 DEF ConnInv, TimerRight, MayRetry
  <1>3. OneReconnect
    <2>1. Cardinality(Running) <= 1
      <3>1. CASE Running = {}
        BY <3>1, FS_EmptySet
      <3>2. ASSUME NEW a \in Running PROVE Cardinality(Running) <= 1
        <4>1. Running = {a}
          BY <3>2 DEF ConnInv, OneRuns
        <4>2. Cardinality({a}) = 1
          BY FS_Singleton
        <4> QED BY <4>1, <4>2
      <3> QED BY <3>1, <3>2
    <2> QED BY <2>1 DEF OneReconnect, ConnInv, OneRuns, Running
  <1> QED BY <1>1, <1>2, <1>3 DEF ConnectionHonest

(* Whatever order timers, buttons, polls and answers come in
   (useClusterConnection.js), a retry is pending only where one may be made, the
   banner counts down only to one that is pending, and one reconnect runs. *)
THEOREM ConnectionSafe == ConnSpec => []ConnectionHonest
  <1>1. ConnInit => ConnInv
    BY ConnInitInv
  <1>2. ConnInv /\ [ConnNext]_connVars => ConnInv'
    BY ConnNextInv
  <1>3. ConnInv => ConnectionHonest
    BY InvHonest
  <1> QED BY <1>1, <1>2, <1>3, PTL DEF ConnSpec
-----------------------------------------------------------------------------
(* The history of surfaces, for any tabs, sections and length: the hook's stack and
   index implement the history of BackForward. *)

(* The index is in the stack: every step that moves or cuts relies on it. *)
NavInv == /\ nav.stack \in Seq(NavEntries) /\ nav.index \in 1 .. Len(nav.stack)
          /\ nav = [stack |-> nav.stack, index |-> nav.index, skip |-> nav.skip]
          /\ nav.skip \in BOOLEAN
          /\ shown \in NavEntries
-----------------------------------------------------------------------------
(* What the three moves do to a sequence seen as behind, at and ahead of an
   index. *)

(* Cutting after the index and appending leaves the old entry behind the new. *)
LEMMA CutAppend ==
  ASSUME NEW S, NEW s \in Seq(S), NEW i \in 1 .. Len(s), NEW e \in S,
         NEW t, t = Append(SubSeq(s, 1, i), e)
  PROVE  /\ t \in Seq(S) /\ Len(t) = i + 1 /\ t[i + 1] = e
         /\ SubSeq(t, 1, i) = Append(SubSeq(s, 1, i - 1), s[i])
         /\ SubSeq(t, i + 2, i + 1) = <<>>
  <1>1. /\ SubSeq(s, 1, i) \in Seq(S) /\ Len(SubSeq(s, 1, i)) = i
        /\ \A k \in 1 .. i : SubSeq(s, 1, i)[k] = s[k]
    <2>1. \A k \in 1 .. i : s[k] \in S
      BY ElementOfSeq
    <2> QED BY <2>1, SubSeqProperties
  <1>2. /\ t \in Seq(S) /\ Len(t) = i + 1 /\ t[i + 1] = e
        /\ \A k \in 1 .. i : t[k] = s[k]
    BY <1>1, AppendProperties
  <1>3. SubSeq(t, 1, i) = Append(SubSeq(s, 1, i - 1), s[i])
    <2> DEFINE a == SubSeq(t, 1, i)
               p == SubSeq(s, 1, i - 1)
               b == Append(p, s[i])
    <2>1. \A k \in 1 .. i : t[k] \in S /\ s[k] \in S
      BY <1>2, ElementOfSeq
    <2>2. a \in Seq(S) /\ Len(a) = i /\ \A k \in 1 .. i : a[k] = t[k]
      BY <2>1, SubSeqProperties
    <2>3. p \in Seq(S) /\ Len(p) = i - 1 /\ \A k \in 1 .. i - 1 : p[k] = s[k]
      BY <2>1, SubSeqProperties
    <2>4. b \in Seq(S) /\ Len(b) = i /\ (\A k \in 1 .. i - 1 : b[k] = s[k]) /\ b[i] = s[i]
      <3>1. /\ b \in Seq(S) /\ Len(b) = Len(p) + 1
            /\ (\A k \in 1 .. Len(p) : b[k] = p[k]) /\ b[Len(p) + 1] = s[i]
        <4> HIDE DEF p
        <4> QED BY <2>1, <2>3, AppendProperties
      <3> HIDE DEF p, b
      <3>2. i \in Nat /\ Len(b) = i /\ b[i] = s[i]
        BY <2>3, <3>1
      <3>3. \A k \in 1 .. i - 1 : b[k] = s[k]
        BY <2>3, <3>1
      <3> QED BY <3>1, <3>2, <3>3
    <2>5. \A k \in 1 .. i : a[k] = b[k]
      BY <1>2, <2>2, <2>4
    <2> HIDE DEF a, b
    <2>6. a = b
      BY <2>2, <2>4, <2>5, SeqEqual
    <2> QED BY <2>6 DEF a, b
  <1>4. SubSeq(t, i + 2, i + 1) = <<>>
    BY SubSeqEmpty
  <1> QED BY <1>2, <1>3, <1>4

(* One step back moves the current entry to the head of what is ahead. *)
LEMMA SplitBack ==
  ASSUME NEW S, NEW s \in Seq(S), NEW i \in 2 .. Len(s), NEW p, p = SubSeq(s, 1, i - 1)
  PROVE  /\ p # <<>> /\ p[Len(p)] = s[i - 1]
         /\ SubSeq(p, 1, Len(p) - 1) = SubSeq(s, 1, i - 2)
         /\ SubSeq(s, i, Len(s)) = <<s[i]>> \o SubSeq(s, i + 1, Len(s))
  <1>0. \A k \in 1 .. Len(s) : s[k] \in S
    BY ElementOfSeq
  <1>1. p \in Seq(S) /\ Len(p) = i - 1 /\ \A k \in 1 .. i - 1 : p[k] = s[k]
    BY <1>0, SubSeqProperties
  <1>2. SubSeq(p, 1, Len(p) - 1) = SubSeq(s, 1, i - 2)
    <2> DEFINE a == SubSeq(p, 1, i - 2)
               b == SubSeq(s, 1, i - 2)
    <2>1. a \in Seq(S) /\ Len(a) = i - 2 /\ \A k \in 1 .. i - 2 : a[k] = p[k]
      <3>1. \A k \in 1 .. i - 2 : p[k] \in S
        BY <1>0, <1>1
      <3> QED BY <3>1, SubSeqProperties
    <2>2. b \in Seq(S) /\ Len(b) = i - 2 /\ \A k \in 1 .. i - 2 : b[k] = s[k]
      BY <1>0, SubSeqProperties
    <2>3. \A k \in 1 .. i - 2 : a[k] = b[k]
      BY <1>1, <2>1, <2>2
    <2> HIDE DEF a, b
    <2>4. a = b
      BY <2>1, <2>2, <2>3, SeqEqual
    <2> QED BY <1>1, <2>4 DEF a, b
  <1>3. SubSeq(s, i, Len(s)) = <<s[i]>> \o SubSeq(s, i + 1, Len(s))
    BY LenProperties, SubSeqRecursiveFirst
  <1> QED BY <1>1, <1>2, <1>3

(* A sequence with a length is not the empty one. *)
LEMMA NonEmpty == ASSUME NEW q, Len(q) # 0 PROVE q # <<>>
  OBVIOUS

(* One step forward moves the current entry to the end of what is behind. *)
LEMMA SplitForward ==
  ASSUME NEW S, NEW s \in Seq(S), NEW i \in 1 .. Len(s), i + 1 <= Len(s),
         NEW q, q = SubSeq(s, i + 1, Len(s))
  PROVE  /\ q # <<>> /\ Head(q) = s[i + 1] /\ Tail(q) = SubSeq(s, i + 2, Len(s))
         /\ SubSeq(s, 1, i) = Append(SubSeq(s, 1, i - 1), s[i])
  <1>1. Len(s) \in Nat /\ i + 1 \in 1 .. Len(s) /\ Len(s) \in i + 1 .. Len(s)
    BY LenProperties
  <1>2. Head(q) = s[i + 1] /\ Tail(q) = SubSeq(s, i + 2, Len(s))
    BY <1>1, HeadTailOfSubSeq
  <1>3. q # <<>>
    <2>1. \A k \in 1 .. Len(s) : s[k] \in S
      BY ElementOfSeq
    <2>2. Len(q) = Len(s) - i
      BY <1>1, <2>1, SubSeqProperties
    <2>3. Len(s) - i # 0
      BY <1>1
    <2>4. Len(q) # 0
      BY <2>2, <2>3, Zenon
    <2> QED BY <2>4, NonEmpty
  <1>4. SubSeq(s, 1, i) = Append(SubSeq(s, 1, i - 1), s[i])
    <2>1. SubSeq(s, 1, i) = SubSeq(s, 1, i - 1) \o <<s[i]>>
      BY LenProperties, SubSeqRecursiveSecond
    <2>2. SubSeq(s, 1, i - 1) \in Seq(S) /\ s[i] \in S
      <3>1. \A k \in 1 .. i - 1 : s[k] \in S
        BY ElementOfSeq
      <3> QED BY <3>1, ElementOfSeq, SubSeqProperties
    <2> QED BY <2>1, <2>2, AppendIsConcat
  <1> QED BY <1>2, <1>3, <1>4
-----------------------------------------------------------------------------
(* The invariant. *)

(* The history starts with one entry, the home surface. *)
LEMMA NavInitInv == NavInit => NavInv
  BY NavAssumption DEF NavInit, NavInv, HomeNav, NavEntries

(* A target, normalised, is an entry. *)
LEMMA TargetIsEntry ==
  ASSUME NavInv, NEW t \in NavTargets
  PROVE  NormalizeNavEntry(t, shown) \in NavEntries
  <1>1. CASE t \in NavEntries
    BY <1>1 DEF NormalizeNavEntry, NavEntries
  <1>2. CASE t \in [tab : NavTabs]
    BY <1>2 DEF NavInv, NormalizeNavEntry, NavEntries
  <1> QED BY <1>1, <1>2 DEF NavTargets

(* A push leaves the stack and the index alone, or cuts and appends. *)
LEMMA PushCases ==
  ASSUME NavInv, NEW e \in NavEntries
  PROVE  \/ /\ Push(nav, e).stack = nav.stack /\ Push(nav, e).index = nav.index
            /\ Push(nav, e) = [stack |-> nav.stack, index |-> nav.index, skip |-> FALSE]
         \/ /\ e # CurrentEntry
            /\ Push(nav, e) = [stack |-> Append(SubSeq(nav.stack, 1, nav.index), e),
                               index |-> nav.index + 1, skip |-> FALSE]
  <1>1. CASE nav.skip
    BY <1>1 DEF NavInv, Push
  <1>2. CASE ~nav.skip /\ e = CurrentEntry
    BY <1>2 DEF NavInv, Push, CurrentEntry
  <1>3. CASE ~nav.skip /\ e # CurrentEntry
    BY <1>3 DEF NavInv, Push, CurrentEntry
  <1> QED BY <1>1, <1>2, <1>3 DEF NavInv

(* A visit keeps the invariant and is a Visit of the history or changes nothing
   in it. *)
LEMMA NavigateStep ==
  ASSUME NavInv, NEW e \in NavEntries, shown' = e, nav' = Push(nav, e)
  PROVE  NavInv' /\ (History!Visit \/ UNCHANGED History!hvars)
  <1> DEFINE t == Append(SubSeq(nav.stack, 1, nav.index), e)
  <1>1. CASE nav' = [stack |-> nav.stack, index |-> nav.index, skip |-> FALSE]
    <2>1. nav'.stack = nav.stack /\ nav'.index = nav.index /\ nav'.skip = FALSE
      BY <1>1
    <2>2. NavInv'
      BY <1>1, <2>1 DEF NavInv
    <2>3. UNCHANGED History!hvars
      BY <2>1 DEF History!hvars, CurrentEntry
    <2> QED BY <2>2, <2>3
  <1>2. CASE e # CurrentEntry /\ nav' = [stack |-> t, index |-> nav.index + 1, skip |-> FALSE]
    <2>1. /\ t \in Seq(NavEntries) /\ Len(t) = nav.index + 1 /\ t[nav.index + 1] = e
          /\ SubSeq(t, 1, nav.index) = Append(SubSeq(nav.stack, 1, nav.index - 1), nav.stack[nav.index])
          /\ SubSeq(t, nav.index + 2, nav.index + 1) = <<>>
      <3> DEFINE st == nav.stack
                 ix == nav.index
      <3>1. st \in Seq(NavEntries) /\ ix \in 1 .. Len(st) /\ t = Append(SubSeq(st, 1, ix), e)
        BY DEF NavInv
      <3> HIDE DEF st, ix, t
      <3>2. /\ t \in Seq(NavEntries) /\ Len(t) = ix + 1 /\ t[ix + 1] = e
            /\ SubSeq(t, 1, ix) = Append(SubSeq(st, 1, ix - 1), st[ix])
            /\ SubSeq(t, ix + 2, ix + 1) = <<>>
        BY <3>1, CutAppend
      <3> QED BY <3>2 DEF st, ix
    <2> HIDE DEF t
    <2>2. nav'.stack = t /\ nav'.index = nav.index + 1 /\ nav'.skip = FALSE
      BY <1>2
    <2>3. NavInv'
      BY <1>2, <2>1, <2>2 DEF NavInv
    <2>4. nav'.index - 1 = nav.index /\ nav'.index + 1 = nav.index + 2 /\ Len(nav'.stack) = nav.index + 1
      BY <2>1, <2>2 DEF NavInv
    <2>5. CurrentEntry' = e
      BY <2>1, <2>2 DEF CurrentEntry
    <2>6. History!Visit
      BY <1>2, <2>1, <2>2, <2>4, <2>5 DEF History!Visit, CurrentEntry
    <2> QED BY <2>3, <2>6
  <1> QED BY <1>1, <1>2, PushCases

(* A move along the stack keeps the invariant. *)
LEMMA GoStep ==
  ASSUME NavInv, NEW next, Go(next)
  PROVE  /\ NavInv'
         /\ nav'.stack = nav.stack /\ nav'.index = next /\ next \in 1 .. Len(nav.stack)
  <1>1. nav' = [stack |-> nav.stack, index |-> next, skip |-> TRUE] /\ next \in 1 .. Len(nav.stack)
    BY DEF NavInv, Go
  <1>2. nav.stack[next] \in NavEntries
    BY <1>1, ElementOfSeq DEF NavInv
  <1> QED BY <1>1, <1>2 DEF NavInv, Go

(* Back is a GoBack of the history. *)
LEMMA BackStep ==
  ASSUME NavInv, HandleNavBack
  PROVE  NavInv' /\ History!GoBack
  <1> DEFINE p == SubSeq(nav.stack, 1, nav.index - 1)
  <1>1. /\ NavInv' /\ nav'.stack = nav.stack /\ nav'.index = nav.index - 1
        /\ nav.index - 1 \in 1 .. Len(nav.stack)
    BY GoStep DEF HandleNavBack
  <1>2. nav.index \in 2 .. Len(nav.stack) /\ nav.stack \in Seq(NavEntries)
    BY <1>1 DEF NavInv
  <1>3. /\ p # <<>> /\ p[Len(p)] = nav.stack[nav.index - 1]
        /\ SubSeq(p, 1, Len(p) - 1) = SubSeq(nav.stack, 1, nav.index - 2)
        /\ SubSeq(nav.stack, nav.index, Len(nav.stack))
             = <<nav.stack[nav.index]>> \o SubSeq(nav.stack, nav.index + 1, Len(nav.stack))
    BY <1>2, SplitBack
  <1>4. nav'.index - 1 = nav.index - 2 /\ nav'.index + 1 = nav.index
    BY <1>1, <1>2
  <1> QED BY <1>1, <1>3, <1>4 DEF History!GoBack, CurrentEntry

(* Forward is a GoForward of the history. *)
LEMMA ForwardStep ==
  ASSUME NavInv, HandleNavForward
  PROVE  NavInv' /\ History!GoForward
  <1> DEFINE q == SubSeq(nav.stack, nav.index + 1, Len(nav.stack))
  <1>1. /\ NavInv' /\ nav'.stack = nav.stack /\ nav'.index = nav.index + 1
        /\ nav.index + 1 \in 1 .. Len(nav.stack)
    BY GoStep DEF HandleNavForward
  <1>2. nav.index \in 1 .. Len(nav.stack) /\ nav.index + 1 <= Len(nav.stack) /\ nav.stack \in Seq(NavEntries)
    BY <1>1 DEF NavInv
  <1>3. /\ q # <<>> /\ Head(q) = nav.stack[nav.index + 1]
        /\ Tail(q) = SubSeq(nav.stack, nav.index + 2, Len(nav.stack))
        /\ SubSeq(nav.stack, 1, nav.index) = Append(SubSeq(nav.stack, 1, nav.index - 1), nav.stack[nav.index])
    BY <1>2, SplitForward
  <1>4. nav'.index - 1 = nav.index /\ nav'.index + 1 = nav.index + 2
    BY <1>1, <1>2
  <1> QED BY <1>1, <1>3, <1>4 DEF History!GoForward, CurrentEntry
-----------------------------------------------------------------------------
(* useNavigationHistory.js implements a back-and-forward history, whatever
   order visits, swallowed visits, back and forward come in: what is behind,
   at and ahead of its index changes only as BackForward allows. *)
THEOREM NavImplementsHistory == NavSpec => NavIsHistory
  <1>1. NavInit => History!HistoryInit
    BY SubSeqEmpty DEF NavInit, History!HistoryInit, CurrentEntry
  <1>2. NavInv /\ [NavNext]_navVars
          => NavInv' /\ [History!Visit \/ History!GoBack \/ History!GoForward]_(History!hvars)
    <2>. SUFFICES ASSUME NavInv, [NavNext]_navVars
                  PROVE  NavInv' /\ (\/ History!Visit \/ History!GoBack \/ History!GoForward
                                     \/ UNCHANGED History!hvars)
      OBVIOUS
    <2>1. ASSUME NEW t \in NavTargets, NavigateTo(t)
          PROVE  NavInv' /\ (History!Visit \/ UNCHANGED History!hvars)
      BY <2>1, TargetIsEntry, NavigateStep DEF NavigateTo
    <2>2. CASE HandleNavHome
      <3>1. HomeNav \in NavTargets
        BY NavAssumption DEF HomeNav, NavTargets, NavEntries
      <3> QED BY <2>1, <2>2, <3>1 DEF HandleNavHome
    <2>3. CASE HandleNavBack
      BY <2>3, BackStep
    <2>4. CASE HandleNavForward
      BY <2>4, ForwardStep
    <2>5. CASE UNCHANGED navVars
      BY <2>5 DEF navVars, NavInv, History!hvars, CurrentEntry
    <2> QED BY <2>1, <2>2, <2>3, <2>4, <2>5 DEF NavNext
  <1> QED BY <1>1, <1>2, NavInitInv, PTL DEF NavSpec, NavIsHistory, History!HistorySpec
-----------------------------------------------------------------------------
(* The pickers: a draft is made of the cluster's names, and what each of the two
   confirms agrees with what it shows. *)
PickInv ==
  /\ listed \subseteq Namespaces /\ scope.ns \subseteq Namespaces
  /\ pick \in [open : BOOLEAN, draft : SUBSET Namespaces, all : BOOLEAN]
  /\ modal \in [open : BOOLEAN, matches : SUBSET Matches, selected : SUBSET Matches]
  /\ PickersTrue

LEMMA NamesFinite == \A s \in SUBSET Namespaces : IsFiniteSet(s) /\ Cardinality(s) \in Nat
  BY PickersAssumption, FS_Subset, FS_CardinalityType

(* Opening or reseeding: whatever the scope, the draft is what it stands for. *)
LEMMA SeedStep ==
  ASSUME NEW p \in [open : BOOLEAN, draft : SUBSET Namespaces, all : BOOLEAN], p.open => pick' = Seeded(p, scope', listed'),
         ~p.open => pick' = p, listed' \subseteq Namespaces, scope'.ns \subseteq Namespaces,
         modal' = modal, PickInv
  PROVE  PickInv'
  <1>0. p.open => pick' = [p EXCEPT !.draft = DraftSeed(scope', listed'), !.all = scope'.mode = "all"]
    BY DEF Seeded
  <1>1. pick' \in [open : BOOLEAN, draft : SUBSET Namespaces, all : BOOLEAN] /\ pick'.open = p.open
    <2>1. DraftSeed(scope', listed') \in SUBSET Namespaces
      BY DEF DraftSeed
    <2> QED BY <1>0, <2>1
  <1>2. p.open => pick'.draft = DraftSeed(scope', listed') /\ pick'.all = (scope'.mode = "all")
    BY DEF Seeded
  <1>3. AllMeansAll' /\ OverCapOnlyFromAll'
    BY <1>1, <1>2 DEF AllMeansAll, OverCapOnlyFromAll, DraftSeed
  <1>4. SelectionOwn'
    BY DEF SelectionOwn, PickInv, PickersTrue
  <1> QED BY <1>1, <1>3, <1>4 DEF PickInv, PickersTrue

(* A name checked one at a time passes the cap only where it was passed before. *)
LEMMA NextDraftCap ==
  ASSUME NEW d \in SUBSET Namespaces, NEW x \in Namespaces, NEW checked \in BOOLEAN,
         Cardinality(NextDraft(d, x, checked)) > MaxBrowseNamespaces
  PROVE  Cardinality(d) > MaxBrowseNamespaces /\ NextDraft(d, x, checked) \subseteq d
  <1>1. CASE ~checked
    <2>1. NextDraft(d, x, checked) = d \ {x}
      BY <1>1 DEF NextDraft
    <2>2. Cardinality(d \ {x}) <= Cardinality(d)
      BY NamesFinite, FS_Subset
    <2> QED BY <2>1, <2>2, NamesFinite, PickersAssumption
  <1>2. CASE checked /\ Cardinality(d) > 1 /\ Cardinality(d) >= MaxBrowseNamespaces
    BY <1>2 DEF NextDraft
  <1>3. CASE checked /\ ~ (Cardinality(d) > 1 /\ Cardinality(d) >= MaxBrowseNamespaces)
    <2>1. NextDraft(d, x, checked) = d \cup {x}
      BY <1>3 DEF NextDraft
    <2>2. Cardinality(d \cup {x}) <= Cardinality(d) + 1
      BY NamesFinite, FS_AddElement
    <2>3. Cardinality(d) < MaxBrowseNamespaces
      BY <1>3, NamesFinite, PickersAssumption
    <2> QED BY <2>1, <2>2, <2>3, NamesFinite, PickersAssumption
  <1> QED BY <1>1, <1>2, <1>3

LEMMA CheckStep ==
  ASSUME PickInv, NEW x \in Namespaces, NEW checked \in BOOLEAN, CheckNamespace(x, checked)
  PROVE  PickInv'
  <1>1. PICK leaving : leaving = IsAllDraft(pick.draft, listed, pick.all)
    OBVIOUS
  <1>2. PICK d : d = IF checked /\ leaving THEN {x} ELSE NextDraft(pick.draft, x, checked)
    OBVIOUS
  <1>3. pick.draft \in SUBSET Namespaces /\ pick.open
    BY DEF PickInv, CheckNamespace
  <1>4. d \in SUBSET Namespaces
    BY <1>2, <1>3 DEF NextDraft
  <1>5. pick' = [pick EXCEPT !.all = @ /\ ~leaving /\ ~checked, !.draft = d]
    BY <1>1, <1>2 DEF CheckNamespace, Checked
  <1>6. /\ pick' \in [open : BOOLEAN, draft : SUBSET Namespaces, all : BOOLEAN]
        /\ pick'.draft = d /\ pick'.open /\ (pick'.all <=> pick.all /\ ~leaving /\ ~checked)
    BY <1>3, <1>4, <1>5 DEF PickInv
  <1>7. AllMeansAll'
    <2> SUFFICES ASSUME pick'.all PROVE d = listed
      BY <1>6 DEF AllMeansAll, CheckNamespace
    <2>1. pick.draft = listed
      BY <1>3, <1>6 DEF PickInv, PickersTrue, AllMeansAll
    <2>2. listed = {}
      BY <1>1, <1>6, <2>1 DEF IsAllDraft
    <2> QED BY <1>2, <1>6, <2>1, <2>2 DEF NextDraft
  <1>8. OverCapOnlyFromAll'
    <2> SUFFICES ASSUME Cardinality(d) > MaxBrowseNamespaces PROVE d \subseteq listed \cup scope.ns
      BY <1>6 DEF OverCapOnlyFromAll, CheckNamespace
    <2>1. d # {x}
      <3>1. Cardinality({x}) = 1
        BY FS_Singleton
      <3> QED BY <3>1, PickersAssumption
    <2>2. d = NextDraft(pick.draft, x, checked)
      BY <1>2, <2>1
    <2>3. Cardinality(pick.draft) > MaxBrowseNamespaces /\ d \subseteq pick.draft
      BY <1>3, <2>2, NextDraftCap
    <2> QED BY <1>3, <2>3 DEF PickInv, PickersTrue, OverCapOnlyFromAll
  <1>9. SelectionOwn'
    BY DEF SelectionOwn, PickInv, PickersTrue, CheckNamespace
  <1> QED BY <1>6, <1>7, <1>8, <1>9 DEF PickInv, PickersTrue, CheckNamespace

LEMMA PopoverStep == ASSUME PickInv, PopoverNext PROVE PickInv'
  <1>0. /\ listed \subseteq Namespaces /\ scope.ns \subseteq Namespaces
        /\ pick \in [open : BOOLEAN, draft : SUBSET Namespaces, all : BOOLEAN]
    BY DEF PickInv
  <1>1. ASSUME NEW names \in SUBSET Namespaces, NamespacesListed(names) PROVE PickInv'
    BY <1>0, <1>1, SeedStep DEF NamespacesListed, Seeded
  <1>2. CASE ContextReset
    BY <1>0, <1>2, SeedStep DEF ContextReset, Seeded, AllScope
  <1>3. CASE TogglePopover
    <2>1. PICK p : p = [pick EXCEPT !.open = ~@]
      OBVIOUS
    <2>2. p \in [open : BOOLEAN, draft : SUBSET Namespaces, all : BOOLEAN]
      BY <1>0, <2>1
    <2>3. pick' = Seeded(p, scope', listed') /\ listed' = listed /\ scope' = scope /\ modal' = modal
      BY <1>3, <2>1 DEF TogglePopover
    <2> QED BY <1>0, <2>2, <2>3, SeedStep DEF Seeded
  <1>4. ASSUME NEW x \in Namespaces, NEW checked \in BOOLEAN, CheckNamespace(x, checked) PROVE PickInv'
    BY <1>4, CheckStep
  <1>5. ASSUME NEW checked \in BOOLEAN, CheckAll(checked) PROVE PickInv'
    <2>1. PICK d : d = IF checked THEN listed ELSE {}
      OBVIOUS
    <2>2. /\ pick' \in [open : BOOLEAN, draft : SUBSET Namespaces, all : BOOLEAN]
          /\ pick'.draft = d /\ pick'.all = checked
          /\ UNCHANGED <<listed, scope, modal>>
      BY <1>0, <1>5, <2>1 DEF CheckAll
    <2>3. AllMeansAll' /\ SelectionOwn'
      BY <2>1, <2>2 DEF AllMeansAll, SelectionOwn, PickInv, PickersTrue
    <2>4. OverCapOnlyFromAll'
      BY <2>1, <2>2 DEF OverCapOnlyFromAll
    <2> QED BY <2>2, <2>3, <2>4 DEF PickInv, PickersTrue
  <1>6. CASE ApplyDraft
    <2>1. PICK next \in FromDraft(pick.draft, listed, pick.all) :
            scope' = next /\ pick' = [pick EXCEPT !.open = FALSE]
      BY <1>6 DEF ApplyDraft
    <2>2. scope'.ns \subseteq Namespaces
      BY <1>0, <2>1 DEF FromDraft, AllScope, MultiScope, SingleScope
    <2>3. pick' \in [open : BOOLEAN, draft : SUBSET Namespaces, all : BOOLEAN] /\ ~pick'.open
      BY <1>0, <2>1
    <2>4. UNCHANGED <<listed, modal>>
      BY <1>6 DEF ApplyDraft
    <2> QED BY <2>2, <2>3, <2>4 DEF PickInv, PickersTrue, AllMeansAll, OverCapOnlyFromAll, SelectionOwn
  <1> QED BY <1>1, <1>2, <1>3, <1>4, <1>5, <1>6 DEF PopoverNext, PickInv

LEMMA ModalStep == ASSUME PickInv, ModalNext PROVE PickInv'
  <1> DEFINE ModalType == [open : BOOLEAN, matches : SUBSET Matches, selected : SUBSET Matches]
  <1>1. modal' \in ModalType /\ SelectionOwn'
    <2>0. modal \in ModalType /\ SelectionOwn
      BY DEF PickInv, PickersTrue
    <2>1. ASSUME NEW ms \in SUBSET Matches, OpenModal(ms) PROVE modal' \in ModalType /\ SelectionOwn'
      <3>1. PICK chosen \in DefaultSelections(ms) : modal' = [open |-> TRUE, matches |-> ms, selected |-> chosen]
        BY <2>1 DEF OpenModal
      <3>2. chosen \subseteq ms
        BY <3>1 DEF DefaultSelections
      <3> QED BY <3>1, <3>2 DEF SelectionOwn
    <2>2. CASE SelectMatches
      <3>1. ASSUME NEW s \in SUBSET modal.matches, modal' = [modal EXCEPT !.selected = s]
            PROVE  modal' \in ModalType /\ SelectionOwn'
        BY <2>0, <3>1 DEF SelectionOwn
      <3>2. modal.selected \subseteq modal.matches
        BY <2>0, <2>2 DEF SelectMatches, SelectionOwn
      <3>3. \E s \in SUBSET modal.matches : modal' = [modal EXCEPT !.selected = s]
        <4>1. ASSUME NEW m \in modal.matches,
                     modal' = [modal EXCEPT !.selected = IF m \in @ THEN @ \ {m} ELSE @ \cup {m}]
              PROVE  \E s \in SUBSET modal.matches : modal' = [modal EXCEPT !.selected = s]
          BY <3>2, <4>1
        <4>2. ASSUME NEW v \in SUBSET modal.matches, modal' = [modal EXCEPT !.selected = @ \cup v]
              PROVE  \E s \in SUBSET modal.matches : modal' = [modal EXCEPT !.selected = s]
          BY <3>2, <4>2
        <4> QED BY <2>2, <4>1, <4>2 DEF SelectMatches
      <3> QED BY <3>1, <3>3
    <2>3. CASE CloseModal
      BY <2>0, <2>3 DEF CloseModal, SelectionOwn
    <2> QED BY <2>1, <2>2, <2>3 DEF ModalNext
  <1>2. UNCHANGED <<listed, scope, pick>>
    BY DEF ModalNext, OpenModal, SelectMatches, CloseModal
  <1> QED BY <1>1, <1>2 DEF PickInv, PickersTrue, AllMeansAll, OverCapOnlyFromAll

LEMMA PickInitInv == PickInit => PickInv
  BY DEF PickInit, PickInv, AllScope, PickersTrue, AllMeansAll, OverCapOnlyFromAll, SelectionOwn

LEMMA PickIdle == ASSUME PickInv, UNCHANGED pickVars PROVE PickInv'
  BY DEF pickVars, PickInv, PickersTrue, AllMeansAll, OverCapOnlyFromAll, SelectionOwn
-----------------------------------------------------------------------------
(* The page of one kind.  A payload as the page, the cache and the events have it *)
ErrorPayload == [EmptyPayload EXCEPT !.access = "error"]

Listed == UNION {AnswersOf(k) : k \in Keys}

Payloads == Listed \cup {EmptyPayload, ErrorPayload}

OwnData(d, key) == d.of \in {NoKey, key}

Entries == [key : Keys, data : Payloads, fresh : BOOLEAN]

Asked == [id : Nat, key : Keys, stale : Payloads \cup {NoData}]

Caches == [store : Seq(Entries), inflight : [Keys -> Nat], fetches : SUBSET Asked]

Pages == [rows : Payloads, loading : BOOLEAN, refreshing : BOOLEAN, live : BOOLEAN]

Waiting == [wait : Nat, latest : BOOLEAN, cached : BOOLEAN]

Hooks == [page : Pages, cache : Caches, awaits : SUBSET Waiting]

StoreOwn(store) == \A i \in DOMAIN store : OwnData(store[i].data, store[i].key)

(* What is true of the cache and of who waits for it, whatever is selected *)
CacheRight(h) ==
  /\ h \in Hooks
  /\ StoreOwn(h.cache.store)
  /\ \A f \in h.cache.fetches : f.stale # NoData => OwnData(f.stale, f.key)
  /\ \A f, g \in h.cache.fetches : f.id = g.id => f = g
  /\ \A a, b \in h.awaits : a.wait = b.wait => a = b
  /\ \A a \in h.awaits : \E f \in h.cache.fetches : f.id = a.wait
  /\ InflightAlive(h.cache)

(* and of the page, for what is selected *)
PageRight(h, s) ==
  /\ OwnData(h.page.rows, CacheKey(s))
  /\ \A a \in h.awaits, f \in h.cache.fetches : a.latest /\ f.id = a.wait => f.key = CacheKey(s)
  /\ h.page.loading \/ h.page.refreshing => \E a \in h.awaits : a.latest
  /\ h.page.live => Watching(s) /\ h.page.rows.of = CacheKey(s)

BridgeCalls == [op : {"start", "stop"}, key : Keys \cup {NoKey}]

(* A snapshot lists the objects of the key it is sent for. *)
Snapshots == {e \in [of : Keys, list : Payloads, live : BOOLEAN] : e.list.of = e.of}

(* The backend's side *)
BridgeRight ==
  /\ calls \in Seq(BridgeCalls)
  /\ watch \in [key : Keys \cup {NoKey}, pending : Snapshots \cup {NoData}]
  /\ events \in Seq(Snapshots)

ListInv ==
  /\ CacheKey(sel) \in Keys \cup {NoKey}
  /\ CacheRight(Hook) /\ PageRight(Hook, sel)
  /\ BridgeRight
-----------------------------------------------------------------------------
(* Writing an entry: what is left of the others, and the new one, fresh. *)
LEMMA WriteFacts ==
  ASSUME NEW store \in Seq(Entries), NEW key \in Keys, NEW data \in Payloads, NEW r, r = WriteCache(store, key, data)
  PROVE  /\ r \in Seq(Entries) /\ Fresh(r, key)
         /\ \A i \in DOMAIN r : (r[i].key = key /\ r[i].data = data) \/ \E j \in DOMAIN store : r[i] = store[j]
  <1>1. PICK left : left = Keeping(store, {e \in Held(store) : e.key # key})
    OBVIOUS
  <1>2. PICK new : new = [key |-> key, data |-> data, fresh |-> TRUE]
    OBVIOUS
  <1>3. PICK kept : kept = Append(left, new)
    OBVIOUS
  <1>4. PICK over : over = IF Len(kept) > MaxEntries THEN Len(kept) - MaxEntries ELSE 0
    OBVIOUS
  <1>5. r = SubSeq(kept, over + 1, Len(kept))
    BY <1>1, <1>2, <1>3, <1>4 DEF WriteCache
  <1>6. left \in Seq(Entries) /\ \A k \in 1..Len(left) : \E j \in 1..Len(store) : left[k] = store[j]
    <2>1. store \in Seq(Entries)
      OBVIOUS
    <2>0. PICK Q : Q = {e \in Held(store) : e.key # key}
      OBVIOUS
    <2>2. /\ Keeping(store, Q) \in Seq(Entries) /\ Len(Keeping(store, Q)) <= Len(store)
          /\ \E h \in [1..Len(Keeping(store, Q)) -> 1..Len(store)] :
               /\ \A k \in 1..Len(Keeping(store, Q)) : Keeping(store, Q)[k] = store[h[k]] /\ store[h[k]] \in Q
               /\ \A k, l \in 1..Len(Keeping(store, Q)) : k < l => h[k] < h[l]
               /\ \A i \in 1..Len(store) : store[i] \in Q => \E k \in 1..Len(Keeping(store, Q)) : h[k] = i
      BY <2>1, KeepingFacts
    <2>3. left = Keeping(store, Q)
      BY <1>1, <2>0
    <2>4. \E h \in [1..Len(left) -> 1..Len(store)] : \A k \in 1..Len(left) : left[k] = store[h[k]]
      BY <2>2, <2>3
    <2> QED BY <2>2, <2>3, <2>4
  <1>7. new \in Entries
    BY <1>2 DEF Entries
  <1>8. /\ kept \in Seq(Entries) /\ Len(kept) = Len(left) + 1 /\ kept[Len(left) + 1] = new /\ Len(left) \in Nat
        /\ \A i \in 1..Len(left) : kept[i] = left[i]
    BY <1>3, <1>6, <1>7, AppendProperties
  <1>9. over \in 0..Len(left)
    BY <1>4, <1>8, CacheAssumption
  <1>10. /\ r \in Seq(Entries) /\ Len(r) = Len(kept) - over
         /\ \A i \in 1..Len(kept) - over : r[i] = kept[over + i]
    BY <1>5, <1>8, <1>9
  <1>11. DOMAIN r = 1..Len(r) /\ DOMAIN store = 1..Len(store)
    BY <1>10, LenProperties
  <1>12. Fresh(r, key)
    <2>1. Len(r) \in DOMAIN r /\ r[Len(r)] = new
      BY <1>8, <1>9, <1>10, <1>11
    <2> QED BY <1>2, <2>1 DEF Fresh
  <1>13. ASSUME NEW i \in DOMAIN r
         PROVE  (r[i].key = key /\ r[i].data = data) \/ \E j \in DOMAIN store : r[i] = store[j]
    <2>1. r[i] = kept[over + i] /\ over + i \in 1..Len(left) + 1
      BY <1>8, <1>9, <1>10, <1>11
    <2>2. CASE over + i = Len(left) + 1
      BY <1>2, <1>8, <2>1, <2>2
    <2>3. CASE over + i \in 1..Len(left)
      BY <1>6, <1>8, <1>11, <2>1, <2>3
    <2> QED BY <2>1, <2>2, <2>3, <1>8
  <1> QED BY <1>10, <1>12, <1>13

(* What is found is of the key it is asked for. *)
LEMMA PeekFacts ==
  ASSUME NEW store \in Seq(Entries), StoreOwn(store), NEW key, NEW d, d = Peek(store, key)
  PROVE  (d # NoData \/ Fresh(store, key)) => d \in Payloads /\ OwnData(d, key)
  <1> DEFINE at == {i \in DOMAIN store : store[i].key = key}
  <1>1. d = IF at = {} THEN NoData ELSE store[CHOOSE i \in at : TRUE].data
    BY DEF Peek
  <1>2. Fresh(store, key) => at # {}
    BY DEF Fresh
  <1>3. \A i \in at : store[i].key = key /\ store[i] \in Entries /\ i \in DOMAIN store
    OBVIOUS
  <1> HIDE DEF at
  <1>4. SUFFICES ASSUME at # {} PROVE d \in Payloads /\ OwnData(d, key)
    BY <1>1, <1>2
  <1>5. PICK i \in at : d = store[i].data
    BY <1>1, <1>4
  <1> QED BY <1>3, <1>5 DEF StoreOwn, Entries

(* The parts of a hook's state *)
LEMMA HookParts ==
  ASSUME NEW h \in Hooks
  PROVE  /\ h.page \in Pages /\ h.cache \in Caches /\ h.awaits \subseteq Waiting
         /\ h.page.rows \in Payloads /\ h.page.loading \in BOOLEAN /\ h.page.refreshing \in BOOLEAN /\ h.page.live \in BOOLEAN
         /\ h.cache.store \in Seq(Entries) /\ h.cache.inflight \in [Keys -> Nat] /\ h.cache.fetches \subseteq Asked
  <1>1. h.page \in Pages /\ h.cache \in Caches /\ h.awaits \subseteq Waiting
    BY DEF Hooks
  <1> QED BY <1>1 DEF Pages, Caches

(* Only the page, the store of the cache and who waits matter to each part of the
   invariant. *)
LEMMA PageOnly ==
  ASSUME NEW h, CacheRight(h), NEW g \in Hooks, g.cache = h.cache, g.awaits = h.awaits
  PROVE  CacheRight(g)
  BY DEF CacheRight

(* A payload of its key is shown and kept. *)
LEMMA ApplyFacts ==
  ASSUME NEW h, CacheRight(h), NEW key \in Keys \cup {NoKey}, NEW d \in Payloads, OwnData(d, key),
         NEW live, live \in BOOLEAN, NEW g, g = ApplyPayload(h, key, d, live)
  PROVE  /\ CacheRight(g) /\ g.awaits = h.awaits
         /\ g.cache.fetches = h.cache.fetches /\ g.cache.inflight = h.cache.inflight
         /\ g.page.rows = d /\ g.page.live = live
         /\ g.page.loading = h.page.loading /\ g.page.refreshing = h.page.refreshing
         /\ key # NoKey => Fresh(g.cache.store, key)
  <1>1. h \in Hooks
    BY DEF CacheRight
  <1>2. PICK st : st = IF key = NoKey THEN h.cache.store ELSE WriteCache(h.cache.store, key, d)
    OBVIOUS
  <1>3. /\ h.page \in Pages /\ h.cache \in Caches /\ h.awaits \subseteq Waiting
        /\ h.cache.store \in Seq(Entries)
    BY <1>1, HookParts
  <1>4. /\ st \in Seq(Entries) /\ (key # NoKey => Fresh(st, key))
        /\ \A i \in DOMAIN st : \/ st[i].key = key /\ st[i].data = d
                                \/ \E j \in DOMAIN h.cache.store : st[i] = h.cache.store[j]
    BY <1>2, <1>3, WriteFacts
  <1>5. PICK p : p = [h.page EXCEPT !.rows = d, !.live = live]
    OBVIOUS
  <1>6. PICK c : c = [h.cache EXCEPT !.store = st]
    OBVIOUS
  <1>7. p \in Pages /\ p.rows = d /\ p.live = live /\ p.loading = h.page.loading /\ p.refreshing = h.page.refreshing
    BY <1>3, <1>5 DEF Pages
  <1>8. c \in Caches /\ c.store = st /\ c.fetches = h.cache.fetches /\ c.inflight = h.cache.inflight
    BY <1>3, <1>4, <1>6 DEF Caches
  <1>9. g = [h EXCEPT !.page = p, !.cache = c]
    BY <1>1, <1>2, <1>3, <1>5, <1>6 DEF ApplyPayload, Hooks, Pages
  <1>10. g \in Hooks /\ g.page = p /\ g.cache = c /\ g.awaits = h.awaits
    BY <1>1, <1>7, <1>8, <1>9 DEF Hooks
  <1>11. StoreOwn(c.store)
    BY <1>4, <1>8 DEF StoreOwn, CacheRight
  <1>12. CacheRight(g)
    BY <1>8, <1>10, <1>11 DEF CacheRight, InflightAlive
  <1> QED BY <1>4, <1>7, <1>8, <1>10, <1>12

LEMMA SettledFacts ==
  ASSUME NEW h, CacheRight(h), NEW g, g = Settled(h)
  PROVE  /\ CacheRight(g) /\ g.awaits = h.awaits /\ g.cache = h.cache
         /\ ~g.page.loading /\ ~g.page.refreshing /\ g.page.rows = h.page.rows /\ g.page.live = h.page.live
  <1>1. h \in Hooks /\ h.page \in Pages
    BY HookParts DEF CacheRight
  <1>2. PICK p : p = [h.page EXCEPT !.loading = FALSE, !.refreshing = FALSE]
    OBVIOUS
  <1>3. p \in Pages /\ ~p.loading /\ ~p.refreshing /\ p.rows = h.page.rows /\ p.live = h.page.live
    BY <1>1, <1>2 DEF Pages
  <1>4. g = [h EXCEPT !.page = p]
    BY <1>1, <1>2 DEF Settled, Hooks, Pages
  <1>5. g \in Hooks /\ g.page = p /\ g.cache = h.cache /\ g.awaits = h.awaits
    BY <1>1, <1>3, <1>4 DEF Hooks
  <1> QED BY <1>3, <1>5, PageOnly

(* A newer request: nobody who waits is the latest any more. *)
LEMMA SupersededFacts ==
  ASSUME NEW h, CacheRight(h), NEW g, g = Superseded(h)
  PROVE  /\ CacheRight(g) /\ g.page = h.page /\ g.cache = h.cache
         /\ \A a \in g.awaits : ~a.latest /\ \E b \in h.awaits : a.wait = b.wait
  <1>1. h \in Hooks /\ h.awaits \subseteq Waiting
    BY HookParts DEF CacheRight
  <1>2. PICK w : w = {[a EXCEPT !.latest = FALSE] : a \in h.awaits}
    OBVIOUS
  <1>3. \A a \in w : a \in Waiting /\ ~a.latest /\ \E b \in h.awaits : a.wait = b.wait /\ a = [b EXCEPT !.latest = FALSE]
    BY <1>1, <1>2 DEF Waiting
  <1>4. g = [h EXCEPT !.awaits = w]
    BY <1>2 DEF Superseded
  <1>5. g \in Hooks /\ g.page = h.page /\ g.cache = h.cache /\ g.awaits = w
    BY <1>1, <1>3, <1>4 DEF Hooks
  <1>6. ASSUME NEW a \in w, NEW b \in w, a.wait = b.wait PROVE a = b
    <2>1. PICK x \in h.awaits : a.wait = x.wait /\ a = [x EXCEPT !.latest = FALSE]
      BY <1>3
    <2>2. PICK y \in h.awaits : b.wait = y.wait /\ b = [y EXCEPT !.latest = FALSE]
      BY <1>3
    <2>3. x = y
      BY <1>6, <2>1, <2>2 DEF CacheRight
    <2> QED BY <2>1, <2>2, <2>3
  <1>7. \A a \in w : \E f \in h.cache.fetches : f.id = a.wait
    BY <1>3 DEF CacheRight
  <1> QED BY <1>3, <1>5, <1>6, <1>7 DEF CacheRight

(* Who waits as the latest waits for the selected key. *)
WaitsOwn(h, s) == \A a \in h.awaits, f \in h.cache.fetches : a.latest /\ f.id = a.wait => f.key = CacheKey(s)

LEMMA NoneLatest == ASSUME NEW h, NEW s, \A a \in h.awaits : ~a.latest PROVE WaitsOwn(h, s)
  BY DEF WaitsOwn

(* What ends a load: a payload of the selected key, and no spinner. *)
LEMMA ShownFacts ==
  ASSUME NEW h, CacheRight(h), NEW s, WaitsOwn(h, s), NEW key \in Keys \cup {NoKey}, key = CacheKey(s),
         NEW d \in Payloads, OwnData(d, key), NEW g, g = Settled(ApplyPayload(h, key, d, FALSE))
  PROVE  CacheRight(g) /\ PageRight(g, s)
  <1>0. PICK off : off = FALSE /\ off \in BOOLEAN
    OBVIOUS
  <1>1. PICK k : k = ApplyPayload(h, key, d, off)
    OBVIOUS
  <1>2. /\ CacheRight(k) /\ k.awaits = h.awaits /\ k.cache.fetches = h.cache.fetches
        /\ k.page.rows = d /\ ~k.page.live
    BY <1>0, <1>1, ApplyFacts
  <1>3. /\ CacheRight(g) /\ g.awaits = k.awaits /\ g.cache = k.cache
        /\ ~g.page.loading /\ ~g.page.refreshing /\ g.page.rows = k.page.rows /\ g.page.live = k.page.live
    BY <1>0, <1>1, <1>2, SettledFacts
  <1>4. OwnData(g.page.rows, CacheKey(s))
    BY <1>2, <1>3
  <1>n. g.awaits = h.awaits /\ g.cache.fetches = h.cache.fetches
    BY <1>2, <1>3
  <1>5. \A a \in g.awaits, f \in g.cache.fetches : a.latest /\ f.id = a.wait => f.key = CacheKey(s)
    BY <1>n DEF WaitsOwn
  <1>6. ~g.page.loading /\ ~g.page.refreshing /\ ~g.page.live
    BY <1>2, <1>3
  <1>7. PageRight(g, s)
    BY <1>4, <1>5, <1>6 DEF PageRight
  <1> QED BY <1>3, <1>7

LEMMA EmptyOwn == EmptyPayload \in Payloads /\ \A key : OwnData(EmptyPayload, key)
  <1>1. EmptyPayload \in Payloads
    BY DEF Payloads
  <1>2. EmptyPayload.of = NoKey
    BY DEF EmptyPayload
  <1> QED BY <1>1, <1>2 DEF OwnData

(* Only what the page shows changes. *)
LEMMA PageSet ==
  ASSUME NEW h, CacheRight(h), NEW p \in Pages, NEW g, g = [h EXCEPT !.page = p]
  PROVE  CacheRight(g) /\ g.page = p /\ g.cache = h.cache /\ g.awaits = h.awaits
  <1>1. h \in Hooks
    BY DEF CacheRight
  <1>2. g \in Hooks /\ g.page = p /\ g.cache = h.cache /\ g.awaits = h.awaits
    BY <1>1 DEF Hooks
  <1> QED BY <1>2, PageOnly

(* What a reload shows while it asks: the entry it finds, or the rows that were. *)
ReloadShown(h, key) ==
  LET h1 == Superseded(h)
      entry == Peek(h.cache.store, key)
  IN  IF entry # NoData
      THEN [ApplyPayload(h1, key, entry, FALSE) EXCEPT !.page.loading = FALSE, !.page.refreshing = TRUE]
      ELSE [h1 EXCEPT !.page.loading = TRUE]

LEMMA ReloadShownFacts ==
  ASSUME NEW h, CacheRight(h), NEW key \in Keys, NEW g, g = ReloadShown(h, key)
  PROVE  /\ CacheRight(g) /\ \A a \in g.awaits : ~a.latest /\ \E b \in h.awaits : a.wait = b.wait
         /\ g.cache.fetches = h.cache.fetches /\ g.cache.inflight = h.cache.inflight
         /\ OwnData(g.page.rows, key) \/ g.page.rows = h.page.rows
         /\ g.page.live => h.page.live /\ g.page.rows = h.page.rows
         /\ Fresh(h.cache.store, key) => Fresh(g.cache.store, key)
  <1>1. PICK h1 : h1 = Superseded(h)
    OBVIOUS
  <1>2. /\ CacheRight(h1) /\ h1.page = h.page /\ h1.cache = h.cache
        /\ \A a \in h1.awaits : ~a.latest /\ \E b \in h.awaits : a.wait = b.wait
    BY <1>1, SupersededFacts
  <1>3. PICK entry : entry = Peek(h.cache.store, key)
    OBVIOUS
  <1>4. CASE entry # NoData
    <2>1. entry \in Payloads /\ OwnData(entry, key)
      BY <1>3, <1>4, PeekFacts, HookParts DEF CacheRight
    <2>0. PICK off : off = FALSE /\ off \in BOOLEAN
      OBVIOUS
    <2>2. PICK k : k = ApplyPayload(h1, key, entry, off)
      OBVIOUS
    <2>3. /\ CacheRight(k) /\ k.awaits = h1.awaits /\ k.cache.fetches = h1.cache.fetches
          /\ k.cache.inflight = h1.cache.inflight /\ k.page.rows = entry /\ ~k.page.live
          /\ key # NoKey => Fresh(k.cache.store, key)
      BY <1>2, <2>0, <2>1, <2>2, ApplyFacts
    <2>n. k \in Hooks /\ k.page \in Pages
      BY <2>3, HookParts DEF CacheRight
    <2>p. PICK p : p = [k.page EXCEPT !.loading = FALSE, !.refreshing = TRUE]
      OBVIOUS
    <2>4. g = [k EXCEPT !.page = p]
      BY <1>1, <1>3, <1>4, <2>0, <2>2, <2>n, <2>p DEF ReloadShown, Hooks, Pages
    <2>q. p \in Pages /\ p.rows = k.page.rows /\ p.live = k.page.live
      BY <2>n, <2>p DEF Pages
    <2>5. /\ CacheRight(g) /\ g.cache = k.cache /\ g.awaits = k.awaits
          /\ g.page.rows = k.page.rows /\ g.page.live = k.page.live
      BY <2>q, <2>3, <2>4, PageSet
    <2>6. Fresh(h.cache.store, key) => Fresh(k.cache.store, key)
      <3>1. CASE key = NoKey
        BY <3>1, <2>2, <1>2 DEF ApplyPayload, CacheRight, Hooks, Caches
      <3> QED BY <2>3, <3>1
    <2> QED BY <1>2, <2>1, <2>3, <2>5, <2>6
  <1>5. CASE entry = NoData
    <2>0. h1 \in Hooks /\ h1.page \in Pages
      BY <1>2, HookParts DEF CacheRight
    <2>1. PICK p : p = [h1.page EXCEPT !.loading = TRUE]
      OBVIOUS
    <2>2. g = [h1 EXCEPT !.page = p]
      BY <1>1, <1>3, <1>5, <2>0, <2>1 DEF ReloadShown, Hooks, Pages
    <2>3. p \in Pages /\ p.rows = h1.page.rows /\ p.live = h1.page.live
      BY <2>0, <2>1 DEF Pages
    <2>4. CacheRight(g) /\ g.page = p /\ g.cache = h1.cache /\ g.awaits = h1.awaits
      BY <1>2, <2>2, <2>3, PageSet
    <2> QED BY <1>2, <2>3, <2>4
  <1> QED BY <1>4, <1>5

(* A load that is not forced, of a key that was just written: it is answered from
   the cache, at once. *)
LEMMA FreshReload ==
  ASSUME NEW h, CacheRight(h), NEW s, WaitsOwn(h, s), NEW key \in Keys \cup {NoKey}, key = CacheKey(s),
         key # NoKey => Fresh(h.cache.store, key), NEW id, NEW g, g = Reload(h, s, FALSE, id)
  PROVE  CacheRight(g) /\ PageRight(g, s)
  <1>1. CASE ~s.on \/ key = NoKey \/ ~ScopeReady(s)
    <2>1. g = Settled(ApplyPayload(h, key, EmptyPayload, FALSE))
      BY <1>1 DEF Reload
    <2> QED BY <2>1, EmptyOwn, ShownFacts
  <1>2. CASE ~ (~s.on \/ key = NoKey \/ ~ScopeReady(s))
    <2>1. PICK h2 : h2 = ReloadShown(h, key)
      OBVIOUS
    <2>2. key \in Keys
      BY <1>2
    <2>3. CacheRight(h2) /\ (\A a \in h2.awaits : ~a.latest) /\ Fresh(h2.cache.store, key)
      BY <1>2, <2>1, <2>2, ReloadShownFacts
    <2>4. PICK d : d = Peek(h2.cache.store, key)
      OBVIOUS
    <2>5. d \in Payloads /\ OwnData(d, key)
      BY <2>3, <2>4, PeekFacts, HookParts DEF CacheRight
    <2>l. PICK l : l = Load(h2.cache, key, FALSE, id)
      OBVIOUS
    <2>6. l = [cache |-> h2.cache, data |-> d, wait |-> 0]
      BY <2>l, <2>3, <2>4 DEF Load
    <2>7. [h2 EXCEPT !.cache = h2.cache] = h2
      BY <2>3 DEF CacheRight, Hooks
    <2>8. Superseded(h).cache = h.cache
      BY SupersededFacts
    <2>9. g = Settled(ApplyPayload(h2, key, d, FALSE))
      <3>2. l.wait = 0 /\ l.data = d /\ l.cache = h2.cache
        BY <2>6
      <3>3. g = IF l.wait = 0 THEN Settled(ApplyPayload([h2 EXCEPT !.cache = l.cache], key, l.data, FALSE))
                ELSE [[h2 EXCEPT !.cache = l.cache] EXCEPT !.awaits = @ \cup
                        {[wait |-> l.wait, latest |-> TRUE, cached |-> Peek(h.cache.store, key) # NoData]}]
        BY <1>2, <2>1, <2>l DEF Reload, ReloadShown
      <3> QED BY <2>7, <3>2, <3>3
    <2> QED BY <2>3, <2>5, <2>9, NoneLatest, ShownFacts
  <1> QED BY <1>1, <1>2

(* The effect of another key, of enabling or of a synchronisation: whatever was
   under way before, the page shows the key's rows, or none, and nobody waits. *)
LEMMA LoadEffectFacts ==
  ASSUME NEW h, CacheRight(h), NEW s, CacheKey(s) \in Keys \cup {NoKey}, NEW id, NEW g, g = LoadEffect(h, s, id)
  PROVE  CacheRight(g) /\ PageRight(g, s)
  <1>1. PICK key \in Keys \cup {NoKey} : key = CacheKey(s)
    OBVIOUS
  <1>2. PICK h1 : h1 = Superseded(h)
    OBVIOUS
  <1>3. CacheRight(h1) /\ \A a \in h1.awaits : ~a.latest
    BY <1>2, SupersededFacts
  <1>4. WaitsOwn(h1, s)
    BY <1>3, NoneLatest
  <1>5. CASE ~s.on \/ key = NoKey
    <2>1. g = Settled(ApplyPayload(h1, key, EmptyPayload, FALSE))
      BY <1>1, <1>2, <1>5 DEF LoadEffect
    <2> QED BY <1>1, <1>3, <1>4, <2>1, EmptyOwn, ShownFacts
  <1>6. CASE ~ (~s.on \/ key = NoKey)
    <2>1. PICK entry : entry = Peek(h1.cache.store, key)
      OBVIOUS
    <2>2. PICK d : d = IF entry # NoData THEN entry ELSE EmptyPayload
      OBVIOUS
    <2>3. d \in Payloads /\ OwnData(d, key)
      BY <1>3, <2>1, <2>2, EmptyOwn, PeekFacts, HookParts DEF CacheRight
    <2>4. PICK off : off = FALSE /\ off \in BOOLEAN
      OBVIOUS
    <2>5. PICK k : k = ApplyPayload(h1, key, d, off)
      OBVIOUS
    <2>6. CacheRight(k) /\ k.awaits = h1.awaits /\ Fresh(k.cache.store, key)
      BY <1>3, <1>6, <2>3, <2>4, <2>5, ApplyFacts
    <2>7. PICK p \in Pages : p = IF entry # NoData THEN [k.page EXCEPT !.loading = FALSE]
                                                   ELSE [k.page EXCEPT !.loading = TRUE]
      BY <2>6, HookParts DEF CacheRight, Pages
    <2>8. PICK h2 : h2 = [k EXCEPT !.page = p]
      OBVIOUS
    <2>9. CacheRight(h2) /\ h2.cache = k.cache /\ h2.awaits = k.awaits
      BY <2>6, <2>8, PageSet
    <2>10. g = Reload(h2, s, FALSE, id)
      <3>1. k.page \in Pages /\ k \in Hooks
        BY <2>6, HookParts DEF CacheRight
      <3>2. h2 = IF entry # NoData THEN [ApplyPayload(h1, key, entry, FALSE) EXCEPT !.page.loading = FALSE]
                 ELSE [ApplyPayload(h1, key, EmptyPayload, FALSE) EXCEPT !.page.loading = TRUE]
        BY <2>2, <2>4, <2>5, <2>7, <2>8, <3>1 DEF Hooks, Pages
      <3> QED BY <1>1, <1>2, <1>6, <2>1, <3>2 DEF LoadEffect
    <2>11. WaitsOwn(h2, s)
      BY <1>3, <2>6, <2>9, NoneLatest
    <2> QED BY <1>1, <2>6, <2>9, <2>10, <2>11, FreshReload
  <1> QED BY <1>5, <1>6

(* A forced reload asks again: its answer is waited for, as the latest. *)
LEMMA ForcedReload ==
  ASSUME NEW h, CacheRight(h), NEW s, PageRight(h, s), CacheKey(s) \in Keys \cup {NoKey}, NEW id \in Nat \ {0},
         \A f \in h.cache.fetches : f.id # id, \A a \in h.awaits : a.wait # id,
         NEW g, g = Reload(h, s, TRUE, id)
  PROVE  CacheRight(g) /\ PageRight(g, s)
  <1>0. PICK key \in Keys \cup {NoKey} : key = CacheKey(s)
    OBVIOUS
  <1>1. CASE ~s.on \/ key = NoKey \/ ~ScopeReady(s)
    <2>1. g = Settled(ApplyPayload(h, key, EmptyPayload, FALSE))
      BY <1>0, <1>1 DEF Reload
    <2>2. WaitsOwn(h, s)
      BY DEF PageRight, WaitsOwn
    <2> QED BY <1>0, <2>1, <2>2, EmptyOwn, ShownFacts
  <1>2. CASE ~ (~s.on \/ key = NoKey \/ ~ScopeReady(s))
    <2>1. PICK h2 : h2 = ReloadShown(h, key)
      OBVIOUS
    <2>2. key \in Keys
      BY <1>2
    <2>3. /\ CacheRight(h2) /\ \A a \in h2.awaits : ~a.latest /\ \E b \in h.awaits : a.wait = b.wait
          /\ h2.cache.fetches = h.cache.fetches
          /\ OwnData(h2.page.rows, key) \/ h2.page.rows = h.page.rows
          /\ h2.page.live => h.page.live /\ h2.page.rows = h.page.rows
      BY <2>1, <2>2, ReloadShownFacts
    <2>4. /\ h2 \in Hooks /\ h2.cache \in Caches /\ h2.awaits \subseteq Waiting /\ h2.cache.store \in Seq(Entries)
          /\ h2.cache.inflight \in [Keys -> Nat] /\ h2.cache.fetches \subseteq Asked
      BY <2>3, HookParts DEF CacheRight
    <2>5. PICK d : d = Peek(h2.cache.store, key)
      OBVIOUS
    <2>6. d # NoData => d \in Payloads /\ OwnData(d, key)
      BY <2>3, <2>4, <2>5, PeekFacts DEF CacheRight
    <2>7. PICK f : f = [id |-> id, key |-> key, stale |-> d]
      OBVIOUS
    <2>8. f \in Asked
      BY <2>2, <2>6, <2>7 DEF Asked
    <2>9. PICK c : c = [h2.cache EXCEPT !.inflight[key] = id, !.fetches = @ \cup {f}]
      OBVIOUS
    <2>10. /\ c \in Caches /\ c.store = h2.cache.store /\ c.fetches = h2.cache.fetches \cup {f}
           /\ c.inflight = [h2.cache.inflight EXCEPT ![key] = id]
      BY <2>2, <2>4, <2>8, <2>9 DEF Caches
    <2>11. PICK l : l = Load(h2.cache, key, TRUE, id)
      OBVIOUS
    <2>12. l.cache = c /\ l.wait = id
      BY <2>5, <2>7, <2>9, <2>11 DEF Load
    <2>13. PICK w : w = [wait |-> id, latest |-> TRUE, cached |-> Peek(h.cache.store, key) # NoData]
      OBVIOUS
    <2>14. w \in Waiting /\ w.wait = id /\ w.latest
      BY <2>13 DEF Waiting
    <2>15. g = [[h2 EXCEPT !.cache = c] EXCEPT !.awaits = @ \cup {w}]
      <3>1. Superseded(h).cache = h.cache
        BY SupersededFacts
      <3>2. g = IF l.wait = 0 THEN Settled(ApplyPayload([h2 EXCEPT !.cache = l.cache], key, l.data, FALSE))
                ELSE [[h2 EXCEPT !.cache = l.cache] EXCEPT !.awaits = @ \cup
                        {[wait |-> l.wait, latest |-> TRUE, cached |-> Peek(h.cache.store, key) # NoData]}]
        BY <1>0, <1>2, <2>1, <2>11, <3>1 DEF Reload, ReloadShown
      <3> QED BY <2>12, <2>13, <3>2
    <2>16. g \in Hooks /\ g.cache = c /\ g.awaits = h2.awaits \cup {w} /\ g.page = h2.page
      <3>1. PICK k : k = [h2 EXCEPT !.cache = c]
        OBVIOUS
      <3>2. k \in Hooks /\ k.cache = c /\ k.awaits = h2.awaits /\ k.page = h2.page
        BY <2>4, <2>10, <3>1 DEF Hooks
      <3>3. PICK ws : ws = h2.awaits \cup {w}
        OBVIOUS
      <3>4. g = [k EXCEPT !.awaits = ws] /\ ws \subseteq Waiting
        BY <2>4, <2>14, <2>15, <3>1, <3>2, <3>3
      <3> QED BY <3>2, <3>3, <3>4 DEF Hooks
    <2>s. StoreOwn(h2.cache.store) /\ InflightAlive(h2.cache)
      BY <2>3 DEF CacheRight
    <2>t. \A e \in h2.cache.fetches : e.stale # NoData => OwnData(e.stale, e.key)
      BY <2>3 DEF CacheRight
    <2>u. /\ \A e, j \in h2.cache.fetches : e.id = j.id => e = j
          /\ \A e \in h2.cache.fetches : e.id # id
      BY <2>3 DEF CacheRight
    <2>v. /\ \A a, b \in h2.awaits : a.wait = b.wait => a = b
          /\ \A a \in h2.awaits : a.wait # id /\ \E e \in h2.cache.fetches : e.id = a.wait
      BY <2>3 DEF CacheRight
    <2>w. f.id = id /\ f.key = key /\ f.stale = d
      BY <2>7
    <2>17. CacheRight(g)
      <3>1. StoreOwn(g.cache.store) /\ \A e \in g.cache.fetches : e.stale # NoData => OwnData(e.stale, e.key)
        BY <2>s, <2>t, <2>w, <2>6, <2>10, <2>16
      <3>2. \A e, j \in g.cache.fetches : e.id = j.id => e = j
        <4>1. \A e \in g.cache.fetches : e = f \/ (e \in h2.cache.fetches /\ e.id # f.id)
          BY <2>u, <2>w, <2>10, <2>16
        <4> QED BY <2>u, <4>1
      <3>3. \A a, b \in g.awaits : a.wait = b.wait => a = b
        BY <2>v, <2>14, <2>16
      <3>4. \A a \in g.awaits : \E e \in g.cache.fetches : e.id = a.wait
        <4>1. g.cache.fetches = h2.cache.fetches \cup {f} /\ g.awaits = h2.awaits \cup {w}
          BY <2>10, <2>16
        <4>2. \E e \in g.cache.fetches : e.id = w.wait
          BY <2>w, <2>14, <4>1
        <4>3. \A a \in h2.awaits : \E e \in g.cache.fetches : e.id = a.wait
          BY <2>v, <4>1
        <4> QED BY <4>1, <4>2, <4>3
      <3>5. InflightAlive(g.cache)
        <4>1. \A x \in Keys : h2.cache.inflight[x] # 0 =>
                \E e \in h2.cache.fetches : e.id = h2.cache.inflight[x] /\ e.key = x
          BY <2>s, <2>4 DEF InflightAlive
        <4>2. ASSUME NEW x \in Keys, c.inflight[x] # 0
              PROVE  \E e \in c.fetches : e.id = c.inflight[x] /\ e.key = x
          <5>1. CASE x = key
            BY <2>2, <2>4, <2>w, <2>10, <5>1
          <5>2. CASE x # key
            BY <2>2, <2>4, <2>10, <4>1, <4>2, <5>2
          <5> QED BY <5>1, <5>2
        <4>3. DOMAIN c.inflight = Keys
          BY <2>2, <2>4, <2>10
        <4> QED BY <2>16, <4>2, <4>3 DEF InflightAlive
      <3> QED BY <2>16, <3>1, <3>2, <3>3, <3>4, <3>5 DEF CacheRight
    <2>18. PageRight(g, s)
      <3>1. OwnData(g.page.rows, CacheKey(s))
        BY <1>0, <2>3, <2>16 DEF PageRight
      <3>2. \A a \in g.awaits, e \in g.cache.fetches : a.latest /\ e.id = a.wait => e.key = CacheKey(s)
        <4>1. \A a \in g.awaits : a.latest => a.wait = id
          BY <2>3, <2>14, <2>16
        <4>2. \A e \in g.cache.fetches : e.id = id => e = f
          BY <2>u, <2>10, <2>16
        <4> QED BY <1>0, <2>w, <4>1, <4>2
      <3>3. \E a \in g.awaits : a.latest
        BY <2>14, <2>16
      <3>4. g.page.live => Watching(s) /\ g.page.rows.of = CacheKey(s)
        BY <2>3, <2>16 DEF PageRight
      <3> QED BY <3>1, <3>2, <3>3, <3>4 DEF PageRight
    <2> QED BY <2>17, <2>18
  <1> QED BY <1>1, <1>2

(* An answer, or a rejection, of f: what it leaves of the cache *)
LEMMA AnsweredFacts ==
  ASSUME NEW h, CacheRight(h), NEW f \in h.cache.fetches,
         NEW d \in Payloads, OwnData(d, f.key), NEW c, c = Resolved(h.cache, f, d) \/ c = Rejected(h.cache, f)
  PROVE  /\ c \in Caches /\ c.fetches = h.cache.fetches \ {f}
         /\ StoreOwn(c.store) /\ InflightAlive(c)
  <1>1. /\ h.cache \in Caches /\ h.cache.store \in Seq(Entries)
        /\ h.cache.inflight \in [Keys -> Nat] /\ h.cache.fetches \subseteq Asked
    BY HookParts DEF CacheRight
  <1>2. f \in Asked /\ f.key \in Keys
    BY <1>1 DEF Asked
  <1>3. /\ c.fetches = h.cache.fetches \ {f} /\ c.inflight = [h.cache.inflight EXCEPT ![f.key] = 0]
        /\ c.inflight \in [Keys -> Nat]
    <2>1. CASE c = Rejected(h.cache, f)
      BY <1>1, <1>2, <2>1 DEF Rejected, Caches
    <2>2. CASE c = Resolved(h.cache, f, d)
      BY <1>1, <1>2, <2>2 DEF Resolved
    <2> QED BY <2>1, <2>2
  <1>4. InflightAlive(c)
    BY <1>1, <1>2, <1>3 DEF CacheRight, InflightAlive
  <1>5. CASE c = Rejected(h.cache, f)
    <2>1. c \in Caches /\ c.store = h.cache.store
      BY <1>1, <1>2, <1>5 DEF Rejected, Caches
    <2> QED BY <1>3, <1>4, <2>1 DEF CacheRight
  <1>6. CASE c = Resolved(h.cache, f, d)
    <2>1. PICK st : st = WriteCache(h.cache.store, f.key, d)
      OBVIOUS
    <2>2. /\ st \in Seq(Entries)
          /\ \A i \in DOMAIN st : \/ st[i].key = f.key /\ st[i].data = d
                                  \/ \E j \in DOMAIN h.cache.store : st[i] = h.cache.store[j]
      BY <1>1, <1>2, <2>1, WriteFacts
    <2>3. c = [store |-> st, inflight |-> [h.cache.inflight EXCEPT ![f.key] = 0], fetches |-> h.cache.fetches \ {f}]
      BY <1>6, <2>1 DEF Resolved
    <2>4. c \in Caches /\ c.store = st
      BY <1>1, <1>2, <2>2, <2>3 DEF Caches
    <2>5. StoreOwn(st)
      BY <2>2 DEF StoreOwn, CacheRight
    <2> QED BY <1>3, <1>4, <2>4, <2>5
  <1> QED BY <1>5, <1>6

(* The cache c is h's without the fetch f, and w are waiters of h, none of them for f. *)
Drops(h, f, c) ==
  c \in Caches /\ c.fetches = h.cache.fetches \ {f} /\ StoreOwn(c.store) /\ InflightAlive(c)

Leaves(h, f, w) == w \subseteq h.awaits /\ \A a \in w : a.wait # f.id

Moved(h, c, w) == [[h EXCEPT !.cache = c] EXCEPT !.awaits = w]

(* Once f is out and nobody waits for it, the rest is right. *)
LEMMA WithoutFetch ==
  ASSUME NEW h, CacheRight(h), NEW s, PageRight(h, s), NEW f \in h.cache.fetches,
         NEW c, Drops(h, f, c), NEW w, Leaves(h, f, w), NEW g, g = Moved(h, c, w)
  PROVE  /\ CacheRight(g) /\ g.page = h.page /\ g.awaits = w /\ g.cache = c
         /\ WaitsOwn(g, s)
  <1>1. h \in Hooks /\ w \subseteq Waiting
    BY HookParts DEF CacheRight, Leaves
  <1>c. /\ c \in Caches /\ c.fetches = h.cache.fetches \ {f} /\ StoreOwn(c.store) /\ InflightAlive(c)
        /\ w \subseteq h.awaits /\ \A a \in w : a.wait # f.id
    BY DEF Drops, Leaves
  <1>2. PICK k : k = [h EXCEPT !.cache = c]
    OBVIOUS
  <1>3. k \in Hooks /\ k.cache = c /\ k.page = h.page
    BY <1>1, <1>2, <1>c DEF Hooks
  <1>4. g \in Hooks /\ g.cache = c /\ g.page = h.page /\ g.awaits = w
    BY <1>1, <1>2, <1>3 DEF Hooks, Moved
  <1>5. /\ \A e \in c.fetches : e.stale # NoData => OwnData(e.stale, e.key)
        /\ \A e, j \in c.fetches : e.id = j.id => e = j
        /\ \A a, b \in w : a.wait = b.wait => a = b
    BY <1>c DEF CacheRight
  <1>6. \A a \in w : \E e \in c.fetches : e.id = a.wait
    BY <1>c DEF CacheRight
  <1>7. CacheRight(g)
    BY <1>4, <1>5, <1>6, <1>c DEF CacheRight
  <1>8. WaitsOwn(g, s)
    BY <1>4, <1>c DEF PageRight, WaitsOwn
  <1> QED BY <1>4, <1>7, <1>8

LEMMA AnswerDrops ==
  ASSUME NEW h, CacheRight(h), NEW f \in h.cache.fetches, NEW data \in AnswersOf(f.key) \cup {NoData},
         NEW c, c = IF data = NoData THEN Rejected(h.cache, f) ELSE Resolved(h.cache, f, data)
  PROVE  Drops(h, f, c) /\ (data # NoData => data \in Payloads /\ data.of = f.key)
  <1>1. f \in Asked /\ f.key \in Keys
    BY HookParts DEF CacheRight, Asked
  <1>2. data # NoData => data \in Payloads /\ data.of = f.key
    BY <1>1 DEF Payloads, Listed, AnswersOf
  <1>3. CASE data = NoData
    BY <1>3, EmptyOwn, AnsweredFacts DEF Drops
  <1>4. CASE data # NoData
    BY <1>2, <1>4, AnsweredFacts DEF Drops, OwnData
  <1> QED BY <1>2, <1>3, <1>4

(* Its waiter resumes, if there is one, and shows its own key's rows. *)
LEMMA AnswerFacts ==
  ASSUME NEW h, CacheRight(h), NEW s, PageRight(h, s), CacheKey(s) \in Keys \cup {NoKey},
         NEW f \in h.cache.fetches, NEW data \in AnswersOf(f.key) \cup {NoData},
         NEW c, c = IF data = NoData THEN Rejected(h.cache, f) ELSE Resolved(h.cache, f, data),
         NEW a \in h.awaits, a.wait = f.id,
         NEW back, back = IF data = NoData THEN f.stale ELSE data,
         NEW g, g = Resumed([h EXCEPT !.cache = c], s, a, back)
  PROVE  CacheRight(g) /\ PageRight(g, s)
  <1>0. PICK key \in Keys \cup {NoKey} : key = CacheKey(s)
    OBVIOUS
  <1>1. /\ h \in Hooks /\ h.awaits \subseteq Waiting /\ h.cache.fetches \subseteq Asked
        /\ f \in Asked /\ f.key \in Keys /\ a \in Waiting
    BY HookParts DEF CacheRight, Asked
  <1>2. Drops(h, f, c) /\ (data # NoData => data \in Payloads /\ data.of = f.key)
    BY AnswerDrops
  <1>4. PICK w : w = h.awaits \ {a}
    OBVIOUS
  <1>5. PICK h1 : h1 = Moved(h, c, w)
    OBVIOUS
  <1>6. Leaves(h, f, w)
    BY <1>4 DEF CacheRight, Leaves
  <1>7. /\ CacheRight(h1) /\ h1.page = h.page /\ h1.awaits = w /\ h1.cache = c
        /\ WaitsOwn(h1, s)
    BY <1>2, <1>5, <1>6, WithoutFetch
  <1>8. h1 = [[h EXCEPT !.cache = c] EXCEPT !.awaits = @ \ {a}]
    BY <1>1, <1>4, <1>5 DEF Hooks, Moved
  <1>9. CASE ~a.latest
    <2>1. g = h1
      BY <1>8, <1>9 DEF Resumed
    <2>2. OwnData(h1.page.rows, CacheKey(s)) /\ (h1.page.live => Watching(s) /\ h1.page.rows.of = CacheKey(s))
      BY <1>7 DEF PageRight
    <2>3. h1.page.loading \/ h1.page.refreshing => \E b \in w : b.latest
      BY <1>4, <1>7, <1>9 DEF PageRight
    <2>4. PageRight(h1, s)
      BY <1>7, <2>2, <2>3 DEF PageRight, WaitsOwn
    <2> QED BY <1>7, <2>1, <2>4
  <1>10. CASE a.latest /\ back # NoData
    <2>1. f.key = key
      BY <1>0, <1>10 DEF PageRight
    <2>2. back \in Payloads /\ OwnData(back, key)
      BY <1>1, <1>2, <1>10, <2>1 DEF CacheRight, OwnData, Asked
    <2>3. g = Settled(ApplyPayload(h1, key, back, FALSE))
      BY <1>0, <1>8, <1>10 DEF Resumed
    <2> QED BY <1>0, <1>7, <2>2, <2>3, ShownFacts
  <1>11. CASE a.latest /\ back = NoData
    <2>1. h1 \in Hooks /\ h1.page \in Pages
      BY <1>7, HookParts DEF CacheRight
    <2>2. PICK p : p = IF a.cached THEN h1.page ELSE [h1.page EXCEPT !.rows = ErrorPayload]
      OBVIOUS
    <2>3. p \in Pages /\ OwnData(p.rows, key)
      <3>1. ErrorPayload \in Payloads /\ ErrorPayload.of = NoKey
        BY DEF Payloads, ErrorPayload, EmptyPayload
      <3>2. OwnData(h1.page.rows, key)
        BY <1>0, <1>7 DEF PageRight
      <3> QED BY <2>1, <2>2, <3>1, <3>2 DEF Pages, OwnData
    <2>4. PICK q : q = [p EXCEPT !.live = FALSE]
      OBVIOUS
    <2>5. q \in Pages /\ ~q.live /\ q.rows = p.rows
      BY <2>3, <2>4 DEF Pages
    <2>6. PICK k : k = [h1 EXCEPT !.page = q]
      OBVIOUS
    <2>7. CacheRight(k) /\ k.page = q /\ k.cache = c /\ k.awaits = w
      BY <1>7, <2>5, <2>6, PageSet
    <2>8. g = Settled(k)
      <3>1. PICK h2 : h2 = IF a.cached THEN h1 ELSE [h1 EXCEPT !.page.rows = [EmptyPayload EXCEPT !.access = "error"]]
        OBVIOUS
      <3>2. h2 = [h1 EXCEPT !.page = p]
        BY <2>1, <2>2, <3>1 DEF Hooks, Pages, ErrorPayload
      <3>3. [h2 EXCEPT !.page.live = FALSE] = k
        BY <2>1, <2>3, <2>4, <2>6, <3>2 DEF Hooks, Pages
      <3> QED BY <1>8, <1>11, <3>1, <3>3 DEF Resumed
    <2>9. /\ CacheRight(g) /\ g.awaits = w /\ g.cache = c
          /\ ~g.page.loading /\ ~g.page.refreshing /\ g.page.rows = q.rows /\ g.page.live = q.live
      BY <2>7, <2>8, SettledFacts
    <2>10. OwnData(g.page.rows, CacheKey(s)) /\ ~g.page.live
      BY <1>0, <2>3, <2>5, <2>9
    <2>11. WaitsOwn(g, s)
      BY <1>7, <2>9 DEF WaitsOwn
    <2>12. PageRight(g, s)
      BY <2>9, <2>10, <2>11 DEF PageRight, WaitsOwn
    <2> QED BY <2>9, <2>12
  <1> QED BY <1>9, <1>10, <1>11
-----------------------------------------------------------------------------
(* What the page does: the hook's state goes on as g. *)
LEMMA HookNext ==
  ASSUME NEW g, CacheRight(g), Becomes(g), PageRight(g, sel'), CacheKey(sel') \in Keys \cup {NoKey}, BridgeRight'
  PROVE  ListInv'
  <1>1. Hook' = g
    BY DEF Hook, Becomes, CacheRight, Hooks
  <1>2. CacheRight(Hook)' /\ PageRight(Hook, sel)'
    BY <1>1
  <1>3. CacheKey(sel)' \in Keys \cup {NoKey}
    OBVIOUS
  <1> QED BY <1>2, <1>3 DEF ListInv

LEMMA HookNow == ASSUME CacheRight(Hook) PROVE Hook.page = page /\ Hook.cache = cache /\ Hook.awaits = awaits
  BY DEF Hook

LEMMA BridgeIdle == ASSUME BridgeRight, UNCHANGED <<calls, watch, events>> PROVE BridgeRight'
  BY DEF BridgeRight

LEMMA SyncTyped == ASSUME NEW s, CacheKey(s) \in Keys \cup {NoKey}, NEW v PROVE SyncCall(s, v) \in BridgeCalls
  BY DEF SyncCall, BridgeCalls

LEMMA SelectStep ==
  ASSUME ListInv, NEW s \in Selections, Select(s)
  PROVE  ListInv'
  <1>1. CacheRight(Hook) /\ CacheKey(sel) \in Keys \cup {NoKey} /\ BridgeRight
    BY DEF ListInv
  <1>2. PICK id \in FreshIds : Becomes(Cancelled(LoadEffect(Hook, s, id), sel))
    BY DEF Select
  <1>3. CacheKey(s) \in Keys \cup {NoKey}
    BY DEF Selections, CacheKey, Keys
  <1>4. PICK g : g = LoadEffect(Hook, s, id)
    OBVIOUS
  <1>5. CacheRight(g) /\ PageRight(g, s)
    BY <1>1, <1>3, <1>4, LoadEffectFacts
  <1>6. PICK k : k = Cancelled(g, sel)
    OBVIOUS
  <1>7. CacheRight(k) /\ PageRight(k, s)
    <2>1. CASE ~Watching(sel)
      BY <1>5, <1>6, <2>1 DEF Cancelled
    <2>2. CASE Watching(sel)
      <3>1. g \in Hooks /\ g.page \in Pages
        BY <1>5, HookParts DEF CacheRight
      <3>2. PICK p : p = [g.page EXCEPT !.live = FALSE]
        OBVIOUS
      <3>3. p \in Pages /\ ~p.live /\ p.rows = g.page.rows /\ p.loading = g.page.loading /\ p.refreshing = g.page.refreshing
        BY <3>1, <3>2 DEF Pages
      <3>4. k = [g EXCEPT !.page = p]
        BY <1>6, <2>2, <3>1, <3>2 DEF Cancelled, Hooks, Pages
      <3>5. CacheRight(k) /\ k.page = p /\ k.cache = g.cache /\ k.awaits = g.awaits
        BY <1>5, <3>3, <3>4, PageSet
      <3>6. PageRight(k, s)
        BY <1>5, <3>3, <3>5 DEF PageRight
      <3> QED BY <3>5, <3>6
    <2> QED BY <2>1, <2>2
  <1>8. Becomes(k) /\ sel' = s
    BY <1>2, <1>4, <1>6 DEF Select
  <1>9. BridgeRight'
    <2>1. calls' = calls \o WatchCalls(sel, s) /\ UNCHANGED <<watch, events>>
      BY DEF Select
    <2>2. WatchCalls(sel, s) \in Seq(BridgeCalls)
      <3>1. PICK a : a = SyncCall(sel, FALSE)
        OBVIOUS
      <3>2. PICK b : b = SyncCall(s, visible)
        OBVIOUS
      <3>3. a \in BridgeCalls /\ b \in BridgeCalls
        BY <1>1, <1>3, <3>1, <3>2, SyncTyped
      <3>4. PICK x : x = IF Watching(sel) THEN <<a>> ELSE <<>>
        OBVIOUS
      <3>5. PICK y : y = IF Watching(s) THEN <<b>> ELSE <<>>
        OBVIOUS
      <3>6. x \in Seq(BridgeCalls) /\ y \in Seq(BridgeCalls)
        BY <3>3, <3>4, <3>5
      <3>7. WatchCalls(sel, s) = x \o y
        BY <3>1, <3>2, <3>4, <3>5 DEF WatchCalls
      <3> QED BY <3>6, <3>7, ConcatProperties
    <2>3. calls \in Seq(BridgeCalls)
      BY <1>1 DEF BridgeRight
    <2>4. calls' \in Seq(BridgeCalls)
      BY <2>1, <2>2, <2>3, ConcatProperties
    <2> QED BY <1>1, <2>1, <2>4 DEF BridgeRight
  <1> QED BY <1>3, <1>7, <1>8, <1>9, HookNext

LEMMA SyncedStep == ASSUME ListInv, CatalogSynced PROVE ListInv'
  <1>1. CacheRight(Hook) /\ CacheKey(sel) \in Keys \cup {NoKey} /\ BridgeRight
    BY DEF ListInv
  <1>2. PICK id \in FreshIds : Becomes(LoadEffect(Hook, sel, id))
    BY DEF CatalogSynced
  <1>3. PICK g : g = LoadEffect(Hook, sel, id)
    OBVIOUS
  <1>4. CacheRight(g) /\ PageRight(g, sel)
    BY <1>1, <1>3, LoadEffectFacts
  <1>5. sel' = sel /\ BridgeRight'
    BY <1>1, BridgeIdle DEF CatalogSynced
  <1> QED BY <1>1, <1>2, <1>3, <1>4, <1>5, HookNext

LEMMA RefreshStep == ASSUME ListInv, Refresh PROVE ListInv'
  <1>1. CacheRight(Hook) /\ PageRight(Hook, sel) /\ CacheKey(sel) \in Keys \cup {NoKey} /\ BridgeRight
    BY DEF ListInv
  <1>2. PICK id \in FreshIds : Becomes(Reload(Hook, sel, TRUE, id))
    BY DEF Refresh
  <1>3. /\ id \in Nat \ {0} /\ \A f \in cache.fetches : f.id # id
        /\ \A a \in awaits : a.wait # id
    BY BoundsAssumption DEF FreshIds
  <1>4. /\ \A f \in Hook.cache.fetches : f.id # id
        /\ \A a \in Hook.awaits : a.wait # id
    BY <1>1, <1>3, HookNow
  <1>5. PICK g : g = Reload(Hook, sel, TRUE, id)
    OBVIOUS
  <1>6. CacheRight(g) /\ PageRight(g, sel)
    BY <1>1, <1>3, <1>4, <1>5, ForcedReload
  <1>7. sel' = sel /\ BridgeRight'
    BY <1>1, BridgeIdle DEF Refresh
  <1> QED BY <1>1, <1>2, <1>5, <1>6, <1>7, HookNext

LEMMA InvalidateStep == ASSUME ListInv, InvalidateAll PROVE ListInv'
  <1>1. /\ CacheRight(Hook) /\ PageRight(Hook, sel) /\ CacheKey(sel) \in Keys \cup {NoKey} /\ BridgeRight
        /\ Hook.page = page /\ Hook.cache = cache /\ Hook.awaits = awaits
    BY HookNow DEF ListInv
  <1>2. /\ Hook \in Hooks /\ cache \in Caches /\ cache.store \in Seq(Entries)
        /\ cache.inflight \in [Keys -> Nat] /\ cache.fetches \subseteq Asked
    BY <1>1, HookParts DEF CacheRight
  <1>3. PICK Q : Q = {e \in Held(cache.store) : e.key \notin Keys}
    OBVIOUS
  <1>4. PICK st : st = Keeping(cache.store, Q)
    OBVIOUS
  <1>5. /\ Keeping(cache.store, Q) \in Seq(Entries) /\ Len(Keeping(cache.store, Q)) <= Len(cache.store)
        /\ \E h \in [1..Len(Keeping(cache.store, Q)) -> 1..Len(cache.store)] :
             /\ \A k \in 1..Len(Keeping(cache.store, Q)) :
                  Keeping(cache.store, Q)[k] = cache.store[h[k]] /\ cache.store[h[k]] \in Q
             /\ \A k, l \in 1..Len(Keeping(cache.store, Q)) : k < l => h[k] < h[l]
             /\ \A i \in 1..Len(cache.store) : cache.store[i] \in Q => \E k \in 1..Len(Keeping(cache.store, Q)) : h[k] = i
    BY <1>2, KeepingFacts
  <1>6. st \in Seq(Entries) /\ \A k \in 1..Len(st) : \E j \in 1..Len(cache.store) : st[k] = cache.store[j]
    BY <1>4, <1>5
  <1>7. PICK c : c = Invalidate(cache, Keys)
    OBVIOUS
  <1>8. c \in Caches /\ c.store = st /\ c.fetches = cache.fetches /\ c.inflight = [k \in Keys |-> 0]
    <2>1. PICK infl : infl = [k \in Keys |-> 0]
      OBVIOUS
    <2>2. infl \in [Keys -> Nat]
      BY <2>1
    <2>3. [k \in DOMAIN cache.inflight |-> IF k \in Keys THEN 0 ELSE cache.inflight[k]] = infl
      BY <1>2, <2>1
    <2>4. c = [cache EXCEPT !.store = st, !.inflight = infl]
      BY <1>2, <1>3, <1>4, <1>7, <2>3 DEF Invalidate, Caches
    <2> QED BY <1>2, <1>6, <2>1, <2>2, <2>4 DEF Caches
  <1>9. StoreOwn(st)
    <2>1. DOMAIN st = 1..Len(st) /\ DOMAIN cache.store = 1..Len(cache.store)
      BY <1>2, <1>6, LenProperties
    <2> QED BY <1>1, <1>6, <2>1 DEF CacheRight, StoreOwn
  <1>10. InflightAlive(c)
    BY <1>8 DEF InflightAlive
  <1>11. PICK g : g = [Hook EXCEPT !.cache = c]
    OBVIOUS
  <1>12. g \in Hooks /\ g.page = page /\ g.cache = c /\ g.awaits = awaits
    BY <1>1, <1>2, <1>8, <1>11 DEF Hooks
  <1>13. CacheRight(g)
    BY <1>1, <1>8, <1>9, <1>10, <1>12 DEF CacheRight
  <1>14. PageRight(g, sel)
    BY <1>1, <1>8, <1>12 DEF PageRight
  <1>15. Becomes(g) /\ sel' = sel /\ BridgeRight'
    BY <1>1, <1>7, <1>12, BridgeIdle DEF InvalidateAll, Becomes
  <1> QED BY <1>1, <1>13, <1>14, <1>15, HookNext

LEMMA AnsweredStep == ASSUME ListInv, ListAnswered PROVE ListInv'
  <1>1. /\ CacheRight(Hook) /\ PageRight(Hook, sel) /\ CacheKey(sel) \in Keys \cup {NoKey} /\ BridgeRight
        /\ Hook.page = page /\ Hook.cache = cache /\ Hook.awaits = awaits
    BY HookNow DEF ListInv
  <1>2. sel' = sel /\ BridgeRight'
    BY <1>1, BridgeIdle DEF ListAnswered
  <1>3. PICK f \in cache.fetches : \E data \in AnswersOf(f.key) \cup {NoData} :
          LET mine == {a \in awaits : a.wait = f.id}
              back == IF data = NoData THEN f.stale ELSE data
              h    == [Hook EXCEPT !.cache = IF data = NoData THEN Rejected(@, f) ELSE Resolved(@, f, data)]
          IN  Becomes(IF mine = {} THEN h ELSE Resumed(h, sel, CHOOSE a \in mine : TRUE, back))
    BY DEF ListAnswered
  <1>4. PICK data \in AnswersOf(f.key) \cup {NoData} :
          LET mine == {a \in awaits : a.wait = f.id}
              back == IF data = NoData THEN f.stale ELSE data
              h    == [Hook EXCEPT !.cache = IF data = NoData THEN Rejected(@, f) ELSE Resolved(@, f, data)]
          IN  Becomes(IF mine = {} THEN h ELSE Resumed(h, sel, CHOOSE a \in mine : TRUE, back))
    BY <1>3
  <1>5. PICK c : c = IF data = NoData THEN Rejected(Hook.cache, f) ELSE Resolved(Hook.cache, f, data)
    OBVIOUS
  <1>6. PICK back : back = IF data = NoData THEN f.stale ELSE data
    OBVIOUS
  <1>7. PICK mine : mine = {a \in awaits : a.wait = f.id}
    OBVIOUS
  <1>8. Becomes(IF mine = {} THEN [Hook EXCEPT !.cache = c]
                ELSE Resumed([Hook EXCEPT !.cache = c], sel, CHOOSE a \in mine : TRUE, back))
    BY <1>1, <1>4, <1>5, <1>6, <1>7
  <1>9. f \in Hook.cache.fetches
    BY <1>1
  <1>10. CASE mine = {}
    <2>1. PICK g : g = Moved(Hook, c, Hook.awaits)
      OBVIOUS
    <2>2. Hook \in Hooks /\ f \in Asked
      BY <1>1, <1>9, HookParts DEF CacheRight
    <2>3. g = [Hook EXCEPT !.cache = c]
      BY <2>1, <2>2 DEF Moved, Hooks
    <2>4. Drops(Hook, f, c)
      BY <1>1, <1>5, <1>9, AnswerDrops
    <2>5. PICK w : w = Hook.awaits
      OBVIOUS
    <2>6. Leaves(Hook, f, w)
      BY <1>1, <1>7, <1>10, <2>5 DEF Leaves
    <2>7. /\ CacheRight(g) /\ g.page = Hook.page /\ g.awaits = w /\ g.cache = c
          /\ WaitsOwn(g, sel)
      BY <1>1, <1>9, <2>1, <2>4, <2>5, <2>6, WithoutFetch
    <2>8. PageRight(g, sel)
      BY <1>1, <2>5, <2>7 DEF PageRight, WaitsOwn
    <2> QED BY <1>1, <1>2, <1>8, <1>10, <2>3, <2>7, <2>8, HookNext
  <1>11. CASE mine # {}
    <2>1. PICK a \in mine : a = CHOOSE b \in mine : TRUE
      BY <1>11
    <2>2. a \in Hook.awaits /\ a.wait = f.id
      BY <1>1, <1>7
    <2>3. PICK g : g = Resumed([Hook EXCEPT !.cache = c], sel, a, back)
      OBVIOUS
    <2>4. CacheRight(g) /\ PageRight(g, sel)
      BY <1>1, <1>5, <1>6, <1>9, <2>2, <2>3, AnswerFacts
    <2> QED BY <1>1, <1>2, <1>8, <1>11, <2>1, <2>3, <2>4, HookNext
  <1> QED BY <1>10, <1>11


LEMMA VisibilityStep == ASSUME ListInv, Visibility PROVE ListInv'
  <1>1. /\ CacheRight(Hook) /\ PageRight(Hook, sel) /\ CacheKey(sel) \in Keys \cup {NoKey} /\ BridgeRight
        /\ Hook.page = page /\ Hook.cache = cache /\ Hook.awaits = awaits
    BY HookNow DEF ListInv
  <1>2. Hook \in Hooks /\ page \in Pages
    BY <1>1, HookParts DEF CacheRight
  <1>3. PICK p : p = IF Watching(sel) /\ visible THEN [page EXCEPT !.live = FALSE] ELSE page
    OBVIOUS
  <1>4. /\ p \in Pages /\ p.rows = page.rows /\ p.loading = page.loading /\ p.refreshing = page.refreshing
        /\ p.live => page.live
    BY <1>2, <1>3 DEF Pages
  <1>5. PICK g : g = [Hook EXCEPT !.page = p]
    OBVIOUS
  <1>6. CacheRight(g) /\ g.page = p /\ g.cache = cache /\ g.awaits = awaits
    BY <1>1, <1>4, <1>5, PageSet
  <1>7. PageRight(g, sel)
    BY <1>1, <1>4, <1>6 DEF PageRight
  <1>8. Becomes(g) /\ sel' = sel
    BY <1>3, <1>6 DEF Visibility, Becomes
  <1>9. BridgeRight'
    <2>1. PICK b : b = SyncCall(sel, visible')
      OBVIOUS
    <2>2. b \in BridgeCalls /\ calls \in Seq(BridgeCalls)
      BY <1>1, <2>1, SyncTyped DEF BridgeRight
    <2>3. calls' = IF Watching(sel) THEN Append(calls, b) ELSE calls
      BY <2>1 DEF Visibility
    <2>4. calls' \in Seq(BridgeCalls)
      BY <2>2, <2>3
    <2> QED BY <1>1, <2>4 DEF Visibility, BridgeRight
  <1> QED BY <1>1, <1>6, <1>7, <1>8, <1>9, HookNext

LEMMA DeliverStep == ASSUME ListInv, Deliver PROVE ListInv'
  <1>1. /\ CacheRight(Hook) /\ PageRight(Hook, sel) /\ CacheKey(sel) \in Keys \cup {NoKey} /\ BridgeRight
        /\ Hook.page = page /\ Hook.cache = cache /\ Hook.awaits = awaits
    BY HookNow DEF ListInv
  <1>2. PICK e : e = Head(events)
    OBVIOUS
  <1>3. e \in Snapshots /\ events' \in Seq(Snapshots)
    BY <1>1, <1>2 DEF Deliver, BridgeRight
  <1>4. BridgeRight' /\ sel' = sel
    BY <1>1, <1>3 DEF Deliver, BridgeRight
  <1>5. CASE ~ (Watching(sel) /\ e.of = CacheKey(sel))
    <2>1. PICK g : g = Hook
      OBVIOUS
    <2>2. Becomes(g)
      BY <1>1, <1>2, <1>5, <2>1 DEF Deliver, Becomes
    <2> QED BY <1>1, <1>4, <2>1, <2>2, HookNext
  <1>6. CASE Watching(sel) /\ e.of = CacheKey(sel)
    <2>1. PICK d : d = e.list
      OBVIOUS
    <2>2. PICK live : live = e.live
      OBVIOUS
    <2>3. PICK key \in Keys \cup {NoKey} : key = CacheKey(sel)
      BY <1>1
    <2>4. d \in Payloads /\ OwnData(d, key) /\ live \in BOOLEAN /\ d.of = key
      BY <1>3, <1>6, <2>1, <2>2, <2>3 DEF Snapshots, OwnData
    <2>5. PICK k : k = ApplyPayload(Hook, key, d, live)
      OBVIOUS
    <2>6. /\ CacheRight(k) /\ k.awaits = Hook.awaits /\ k.cache.fetches = Hook.cache.fetches
          /\ k.page.rows = d
      BY <1>1, <2>4, <2>5, ApplyFacts
    <2>7. PICK g : g = Settled(k)
      OBVIOUS
    <2>8. /\ CacheRight(g) /\ g.awaits = k.awaits /\ g.cache = k.cache
          /\ ~g.page.loading /\ ~g.page.refreshing /\ g.page.rows = k.page.rows
      BY <2>6, <2>7, SettledFacts
    <2>9. g.awaits = Hook.awaits /\ g.cache.fetches = Hook.cache.fetches /\ g.page.rows = d
      BY <2>6, <2>8
    <2>10. OwnData(g.page.rows, CacheKey(sel)) /\ (g.page.live => Watching(sel) /\ g.page.rows.of = CacheKey(sel))
      BY <1>6, <2>3, <2>4, <2>9
    <2>11. \A a \in g.awaits, f \in g.cache.fetches : a.latest /\ f.id = a.wait => f.key = CacheKey(sel)
      BY <1>1, <2>9 DEF PageRight
    <2>12. PageRight(g, sel)
      BY <2>8, <2>10, <2>11 DEF PageRight
    <2>13. Becomes(g)
      BY <1>2, <1>6, <2>1, <2>2, <2>3, <2>5, <2>7 DEF Deliver
    <2> QED BY <1>1, <1>4, <2>8, <2>12, <2>13, HookNext
  <1> QED BY <1>5, <1>6

(* The backend touches neither the page nor its cache. *)
LEMMA PageIdle ==
  ASSUME ListInv, UNCHANGED <<sel, page, cache, awaits>>, BridgeRight'
  PROVE  ListInv'
  <1>1. Hook' = Hook
    BY DEF Hook
  <1>2. CacheRight(Hook)' /\ PageRight(Hook, sel)' /\ CacheKey(sel)' \in Keys \cup {NoKey}
    BY <1>1 DEF ListInv
  <1> QED BY <1>2 DEF ListInv

LEMMA BackendStep == ASSUME ListInv, HandleCall \/ Emit \/ EmitPending PROVE ListInv'
  <1>1. BridgeRight
    BY DEF ListInv
  <1>2. UNCHANGED <<sel, page, cache, awaits>>
    BY DEF HandleCall, Emit, EmitPending
  <1>3. ASSUME HandleCall PROVE BridgeRight'
    <2>1. PICK i \in DOMAIN calls :
             /\ calls' = Without(calls, i)
             /\ watch' = [key |-> calls[i].key, pending |-> NoData] \/ watch' = watch
             /\ events' = events
      BY <1>3 DEF HandleCall
    <2>c. calls \in Seq(BridgeCalls) /\ i \in 1..Len(calls) /\ Len(calls) \in Nat
      BY <1>1, LenProperties DEF BridgeRight
    <2>d. calls[i] \in BridgeCalls
      BY <2>c, ElementOfSeq
    <2>2. calls \in Seq(BridgeCalls) /\ i \in 1..Len(calls) /\ calls[i].key \in Keys \cup {NoKey}
      BY <2>c, <2>d DEF BridgeCalls
    <2>3. calls' \in Seq(BridgeCalls)
      <3>1. PICK x : x = SubSeq(calls, 1, i - 1)
        OBVIOUS
      <3>2. PICK y : y = SubSeq(calls, i + 1, Len(calls))
        OBVIOUS
      <3>3. x \in Seq(BridgeCalls) /\ y \in Seq(BridgeCalls)
        <4>1. \A j \in 1..Len(calls) : calls[j] \in BridgeCalls
          BY <2>c, ElementOfSeq
        <4>2. x \in Seq(BridgeCalls)
          BY <2>c, <3>1, <4>1, SubSeqProperties
        <4>3. y \in Seq(BridgeCalls)
          BY <2>c, <3>2, <4>1, SubSeqProperties
        <4> QED BY <4>2, <4>3
      <3>4. calls' = x \o y
        BY <2>1, <3>1, <3>2 DEF Without
      <3> QED BY <3>3, <3>4, ConcatProperties
    <2>4. watch' \in [key : Keys \cup {NoKey}, pending : Snapshots \cup {NoData}]
      BY <1>1, <2>1, <2>2 DEF BridgeRight
    <2> QED BY <1>1, <2>1, <2>3, <2>4 DEF BridgeRight
  <1>4. ASSUME Emit PROVE BridgeRight'
    <2>1. PICK list \in AnswersOf(watch.key), live \in BOOLEAN :
            LET e == [of |-> watch.key, list |-> list, live |-> live]
            IN  \/ events' = Append(events, e) /\ watch' = watch
                \/ watch' = [watch EXCEPT !.pending = e] /\ events' = events
      BY <1>4 DEF Emit
    <2>2. PICK e : e = [of |-> watch.key, list |-> list, live |-> live]
      OBVIOUS
    <2>3. watch.key \in Keys
      BY <1>1, <1>4 DEF Emit, BridgeRight
    <2>4. list \in Payloads /\ list.of = watch.key
      BY <2>3 DEF Payloads, Listed, AnswersOf
    <2>5. e \in Snapshots
      BY <2>2, <2>3, <2>4 DEF Snapshots
    <2>6. (events' = Append(events, e) /\ watch' = watch) \/ (watch' = [watch EXCEPT !.pending = e] /\ events' = events)
      BY <2>1, <2>2
    <2>7. calls' = calls
      BY <1>4 DEF Emit
    <2>8. events \in Seq(Snapshots) /\ watch \in [key : Keys \cup {NoKey}, pending : Snapshots \cup {NoData}]
          /\ calls \in Seq(BridgeCalls)
      BY <1>1 DEF BridgeRight
    <2>9. CASE events' = Append(events, e) /\ watch' = watch
      <3>1. events' \in Seq(Snapshots)
        BY <2>5, <2>8, <2>9, AppendProperties
      <3> QED BY <2>7, <2>8, <2>9, <3>1 DEF BridgeRight
    <2>10. CASE watch' = [watch EXCEPT !.pending = e] /\ events' = events
      <3>1. watch' \in [key : Keys \cup {NoKey}, pending : Snapshots \cup {NoData}]
        BY <2>5, <2>8, <2>10
      <3> QED BY <2>7, <2>8, <2>10, <3>1 DEF BridgeRight
    <2> QED BY <2>6, <2>9, <2>10
  <1>5. ASSUME EmitPending PROVE BridgeRight'
    <2>1. /\ watch.pending \in Snapshots /\ events' = Append(events, watch.pending) /\ calls' = calls
          /\ watch' = [watch EXCEPT !.pending = NoData]
      BY <1>1, <1>5 DEF EmitPending, BridgeRight
    <2> QED BY <1>1, <2>1 DEF BridgeRight
  <1> QED BY <1>2, <1>3, <1>4, <1>5, PageIdle

LEMMA ListStep == ASSUME ListInv, ListNext PROVE ListInv'
  BY SelectStep, SyncedStep, RefreshStep, InvalidateStep, AnsweredStep, VisibilityStep, DeliverStep, BackendStep
     DEF ListNext

LEMMA ListIdle == ASSUME ListInv, UNCHANGED listVars PROVE ListInv'
  <1>1. BridgeRight'
    BY BridgeIdle DEF ListInv, listVars
  <1> QED BY <1>1, PageIdle DEF listVars

LEMMA ListInitInv == ListInit => ListInv
  <1> SUFFICES ASSUME ListInit PROVE ListInv
    OBVIOUS
  <1>1. CacheKey(sel) = NoKey
    BY DEF ListInit, CacheKey
  <1>2. Hook \in Hooks
    <2>1. page \in Pages
      BY EmptyOwn DEF ListInit, Pages
    <2>2. cache \in Caches
      BY DEF ListInit, Caches
    <2> QED BY <2>1, <2>2 DEF ListInit, Hook, Hooks
  <1>3. CacheRight(Hook)
    BY <1>2 DEF ListInit, Hook, CacheRight, StoreOwn, InflightAlive
  <1>4. PageRight(Hook, sel)
    BY EmptyOwn DEF ListInit, Hook, PageRight
  <1>5. BridgeRight
    BY DEF ListInit, BridgeRight
  <1> QED BY <1>1, <1>3, <1>4, <1>5 DEF ListInv

LEMMA ListHolds == ListInv => ListOwn
  <1> SUFFICES ASSUME ListInv PROVE ListOwn
    OBVIOUS
  <1>1. /\ CacheRight(Hook) /\ PageRight(Hook, sel)
        /\ Hook.page = page /\ Hook.cache = cache /\ Hook.awaits = awaits
    BY HookNow DEF ListInv
  <1>2. OwnRows
    BY <1>1 DEF OwnRows, CacheRight, PageRight, StoreOwn, OwnData
  <1>3. NoLostWaiter
    BY <1>1 DEF NoLostWaiter, CacheRight
  <1>4. SpinnerBacked
    <2> SUFFICES ASSUME page.loading \/ page.refreshing
                 PROVE  \E a \in awaits : a.latest /\ \E f \in cache.fetches : f.id = a.wait /\ f.key = CacheKey(sel)
      BY DEF SpinnerBacked
    <2>1. PICK a \in awaits : a.latest
      BY <1>1 DEF PageRight
    <2>2. PICK f \in cache.fetches : f.id = a.wait
      BY <1>3 DEF NoLostWaiter
    <2>3. f.key = CacheKey(sel)
      BY <1>1, <2>1, <2>2 DEF PageRight
    <2> QED BY <2>1, <2>2, <2>3
  <1>5. LiveIsOwn
    BY <1>1 DEF LiveIsOwn, PageRight
  <1> QED BY <1>2, <1>3, <1>4, <1>5 DEF ListOwn

-----------------------------------------------------------------------------
(* A browse list shows rows of the kind and scope it is asked for and waits only for
   what comes, however answers, events, selections and the watch interleave
   (useCatalogEntities.js, catalogCache.js), for any kinds, scopes and answers. *)
THEOREM ListSafe == ListSpec => []ListOwn
  <1>1. ListInit => ListInv
    BY ListInitInv
  <1>2. ListInv /\ [ListNext]_listVars => ListInv'
    BY ListStep, ListIdle
  <1>3. ListInv => ListOwn
    BY ListHolds
  <1> QED BY <1>1, <1>2, <1>3, PTL DEF ListSpec

(* The window's connection, pickers and list together: whichever of them runs, the
   others keep what is true of them. *)
DeskInv == ConnInv /\ PickInv /\ ListInv

LEMMA DeskStep ==
  ASSUME DeskInv, [DeskNext]_<<area, connVars, navVars, pickVars, paneVars, listVars>>
  PROVE  DeskInv'
  <1>1. [ConnNext]_connVars
    BY DEF DeskNext
  <1>2. PopoverNext \/ ModalNext \/ UNCHANGED pickVars
    BY DEF DeskNext
  <1>3. [ListNext]_listVars
    BY DEF DeskNext
  <1>4. ConnInv'
    BY <1>1, ConnNextInv DEF DeskInv
  <1>5. PickInv'
    BY <1>2, PopoverStep, ModalStep, PickIdle DEF DeskInv
  <1>6. ListInv'
    BY <1>3, ListStep, ListIdle DEF DeskInv
  <1> QED BY <1>4, <1>5, <1>6 DEF DeskInv

(* What the window says of its connection and what its pickers and list show are
   right in every behaviour of the composition that Desk.cfg runs (useCluster.js,
   NamespacePopover.jsx, ScopePickerModal.jsx, useCatalogEntities.js). *)
THEOREM DeskSafe == DeskSpec => [](ConnectionHonest /\ BrowseTrue)
  <1>1. DeskInit => DeskInv
    BY ConnInitInv, PickInitInv, ListInitInv DEF DeskInit, DeskInv
  <1>2. DeskInv /\ [DeskNext]_<<area, connVars, navVars, pickVars, paneVars, listVars>> => DeskInv'
    BY DeskStep
  <1>3. DeskInv => ConnectionHonest /\ BrowseTrue
    BY InvHonest, ListHolds DEF DeskInv, BrowseTrue, PickInv
  <1> QED BY <1>1, <1>2, <1>3, PTL DEF DeskSpec
-----------------------------------------------------------------------------
(* The terminal pane, for any number of shells and of starts under way: no shell
   is left behind, nothing typed is lost, no session is taken away by the exit of
   another. *)
Sessions == Nat \cup {NoShell}

RunType == [pc : {"closing", "ending", "dropping", "asking", "started", "failed", "writing"},
            id : Sessions, current : BOOLEAN, sent : BOOLEAN]

PaneFields == [mounted : BOOLEAN, session : Sessions, pending : BOOLEAN, sent : BOOLEAN,
               ready : BOOLEAN, connecting : BOOLEAN, known : BOOLEAN]

PaneType ==
  /\ pane \in PaneFields
  /\ starts \subseteq RunType
  /\ shells \subseteq Nat /\ exits \subseteq Nat /\ made \in Nat

(* A shell is new, and it ends once. *)
ShellsNew == (\A id \in shells \cup exits : id <= made) /\ shells \cap exits = {}

(* startGenRef: one start is current, and while it has no answer the pane has no
   shell; an unmounted pane has neither a current start nor a frame to come. *)
OneCurrent ==
  /\ frames # {} => pane.mounted
  /\ \A r \in starts : r.current => pane.mounted /\ (r.pc # "writing" => pane.session = NoShell)
  /\ \A r, s \in starts :
       r.current /\ s.current /\ r.pc # "writing" /\ s.pc # "writing" => r = s

PaneInv == PaneType /\ ShellsNew /\ OneCurrent /\ NoShellLeft /\ TypedIsSent

(* What a step may do to the session: SessionKept without the box. *)
KeepsSession ==
  pane.session # NoShell /\ pane'.session = NoShell
    => pane.session \notin shells \/ ~pane'.mounted \/ starts' # starts
-----------------------------------------------------------------------------
(* Initially there is no pane, no start and no shell. *)
LEMMA InitInv == PaneInit => PaneInv
  BY DEF PaneInit, PaneInv, PaneType, RunType, PaneFields, Sessions, ShellsNew, OneCurrent, NoShellLeft, TypedIsSent

(* A run is one. *)
LEMMA RunIsTyped ==
  ASSUME NEW pc \in {"closing", "ending", "asking"}, NEW id \in Sessions,
         NEW current \in BOOLEAN, NEW sent \in BOOLEAN
  PROVE  /\ Run(pc, id, current, sent) \in RunType
         /\ Run(pc, id, current, sent).pc = pc /\ Run(pc, id, current, sent).id = id
         /\ Run(pc, id, current, sent).current = current
  BY DEF Run, RunType

(* The runs of an overtaken set are the old ones, none of them current. *)
LEMMA OvertakenRuns ==
  ASSUME PaneType, NEW r \in Overtaken(starts)
  PROVE  /\ ~r.current
         /\ r \in RunType
         /\ \E s \in starts : s.pc = r.pc /\ s.id = r.id
  BY DEF PaneType, RunType, PaneFields, Overtaken

(* Every old run is there, overtaken. *)
LEMMA OvertakenKeeps ==
  ASSUME PaneType, NEW s \in starts
  PROVE  \E r \in Overtaken(starts) : r.pc = s.pc /\ r.id = s.id
  <1> DEFINE r == [s EXCEPT !.current = FALSE]
  <1>1. r \in Overtaken(starts)
    BY DEF Overtaken
  <1>2. r.pc = s.pc /\ r.id = s.id
    BY DEF PaneType, RunType, PaneFields
  <1> QED BY <1>1, <1>2

(* Mounting: no start was current. *)
LEMMA MountStep == ASSUME PaneInv, MountPane PROVE PaneInv' /\ KeepsSession
  <1>1. /\ pane' = [pane EXCEPT !.mounted = TRUE, !.pending = FALSE, !.ready = FALSE, !.connecting = FALSE]
        /\ ~pane.mounted /\ UNCHANGED <<starts, shells, made, exits>>
    BY DEF MountPane
  <1>2. pane'.mounted /\ pane'.session = pane.session /\ ~pane'.pending /\ PaneType'
    BY <1>1 DEF PaneInv, PaneType, RunType, PaneFields
  <1>3. OneCurrent'
    BY <1>1, <1>2 DEF PaneInv, OneCurrent
  <1>4. NoShellLeft' /\ TypedIsSent'
    BY <1>1, <1>2 DEF PaneInv, NoShellLeft, TypedIsSent
  <1> QED BY <1>1, <1>2, <1>3, <1>4 DEF PaneInv, ShellsNew, KeepsSession

(* Unmounting: the session's close is under way. *)
LEMMA UnmountStep == ASSUME PaneInv, UnmountPane PROVE PaneInv' /\ KeepsSession
  <1> DEFINE last == IF pane.session = NoShell THEN {} ELSE {Run("ending", pane.session, FALSE, TRUE)}
  <1>1. /\ pane.mounted /\ pane' = [Forget(pane) EXCEPT !.mounted = FALSE]
        /\ frames' = {} /\ starts' = Overtaken(starts) \cup last /\ UNCHANGED <<shells, made, exits>>
    BY DEF UnmountPane
  <1>2. ~pane'.mounted /\ pane'.session = NoShell
    BY <1>1 DEF PaneInv, PaneType, RunType, PaneFields, Forget
  <1>3. \A r \in last : ~r.current /\ r \in RunType
    <2>1. pane.session \in Sessions
      BY DEF PaneInv, PaneType, PaneFields
    <2> DEFINE a == Run("ending", pane.session, FALSE, TRUE)
    <2>2. a \in RunType /\ a.current = FALSE
      BY <2>1, RunIsTyped
    <2>3. \A r \in last : r = a
      OBVIOUS
    <2> HIDE DEF last, a
    <2> QED BY <2>2, <2>3
  <1>4. \A r \in starts' : ~r.current /\ r \in RunType
    <2> HIDE DEF last
    <2>1. \A r \in Overtaken(starts) : ~r.current /\ r \in RunType
      BY OvertakenRuns DEF PaneInv
    <2> QED BY <1>1, <1>3, <2>1
  <1>5. PaneType'
    <2>1. pane' \in PaneFields
      BY <1>1 DEF PaneInv, PaneType, RunType, PaneFields, Forget, Sessions
    <2> QED BY <1>1, <1>4, <2>1 DEF PaneInv, PaneType
  <1>6. NoShellLeft'
    <2>1. SUFFICES ASSUME NEW id \in shells
                   PROVE  \E r \in starts' : r.id = id /\ r.pc \in {"closing", "ending", "dropping", "started"}
      BY <1>1 DEF NoShellLeft
    <2>2. CASE pane.session = id
      <3>1. id # NoShell
        BY PaneAssumption DEF PaneInv, PaneType, RunType, PaneFields
      <3>2. Run("ending", pane.session, FALSE, TRUE) \in starts'
        BY <1>1, <2>2, <3>1
      <3> QED BY <2>2, <3>2 DEF Run
    <2>3. CASE pane.session # id
      <3>1. PICK s \in starts : s.id = id /\ s.pc \in {"closing", "ending", "dropping", "started"}
        BY <2>3 DEF PaneInv, NoShellLeft
      <3>2. PICK r \in Overtaken(starts) : r.pc = s.pc /\ r.id = s.id
        BY OvertakenKeeps DEF PaneInv
      <3> QED BY <1>1, <3>1, <3>2
    <2> QED BY <2>2, <2>3
  <1>7. OneCurrent'
    BY <1>1, <1>4 DEF OneCurrent
  <1>8. ShellsNew' /\ TypedIsSent' /\ KeepsSession
    BY <1>1, <1>2 DEF PaneInv, ShellsNew, TypedIsSent, KeepsSession
  <1> QED BY <1>5, <1>6, <1>7, <1>8 DEF PaneInv

(* A start: it overtakes all others, and the session it found is being closed. *)
LEMMA StartStep ==
  ASSUME PaneInv, NEW f \in frames, f.sent \in BOOLEAN, StartSession(f)
  PROVE  PaneInv' /\ KeepsSession
  <1> DEFINE next == IF pane.known THEN "closing" ELSE "ending"
             new == IF pane.session # NoShell THEN {Run(next, pane.session, TRUE, f.sent)}
                    ELSE IF pane.known THEN {Run("asking", NoShell, TRUE, f.sent)} ELSE {}
  <1>1. /\ frames' = frames \ {f} /\ starts' = Overtaken(starts) \cup new
        /\ UNCHANGED <<shells, made, exits>>
    BY DEF StartSession
  <1>2. pane.mounted /\ pane.known \in BOOLEAN
    BY DEF PaneInv, PaneType, RunType, PaneFields, OneCurrent
  <1>3. /\ pane'.mounted /\ pane'.session = NoShell
        /\ pane' \in PaneFields
    BY <1>2 DEF StartSession, Forget, AfterClose, PaneInv, PaneType, RunType, PaneFields, Sessions
  <1>4. \A r \in new : r.current /\ r.pc \in {"closing", "ending", "asking"} /\ r \in RunType
    <2>1. pane.session \in Sessions /\ NoShell \in Sessions /\ next \in {"closing", "ending"}
      BY <1>2 DEF PaneInv, PaneType, PaneFields, Sessions
    <2>2. \A r \in new : \/ r = Run(next, pane.session, TRUE, f.sent)
                         \/ r = Run("asking", NoShell, TRUE, f.sent)
      OBVIOUS
    <2> DEFINE a == Run(next, pane.session, TRUE, f.sent)
               b == Run("asking", NoShell, TRUE, f.sent)
    <2>3. \A x \in BOOLEAN : /\ Run(next, pane.session, TRUE, x) \in RunType
                             /\ Run(next, pane.session, TRUE, x).pc = next
                             /\ Run(next, pane.session, TRUE, x).current
      <3> HIDE DEF next
      <3> QED BY <2>1 DEF Run, RunType
    <2>4. a \in RunType /\ a.pc = next /\ a.current
      BY <2>3, Zenon
    <2>5. b \in RunType /\ b.pc = "asking" /\ b.current
      <3>1. \A x \in BOOLEAN : /\ Run("asking", NoShell, TRUE, x) \in RunType
                               /\ Run("asking", NoShell, TRUE, x).pc = "asking"
                               /\ Run("asking", NoShell, TRUE, x).current
        BY <2>1 DEF Run, RunType
      <3> QED BY <3>1, Zenon
    <2>6. \A r \in new : r = a \/ r = b
      BY <2>2
    <2> HIDE DEF next, new, a, b
    <2> QED BY <2>1, <2>4, <2>5, <2>6
  <1>5. \A r, s \in new : r = s
    OBVIOUS
  <1> HIDE DEF new
  <1>6. PaneType'
    <2>1. ASSUME NEW r \in starts'
          PROVE  r \in RunType
      BY <1>1, <1>4, OvertakenRuns DEF PaneInv
    <2> QED BY <1>1, <1>3, <2>1 DEF PaneInv, PaneType, RunType, PaneFields
  <1>7. OneCurrent'
    <2>1. \A r \in starts' : r.current => r \in new
      BY <1>1, OvertakenRuns DEF PaneInv
    <2> QED BY <1>1, <1>3, <1>5, <2>1 DEF OneCurrent
  <1>8. NoShellLeft'
    <2>1. SUFFICES ASSUME NEW id \in shells
                   PROVE  \E r \in starts' : r.id = id /\ r.pc \in {"closing", "ending", "dropping", "started"}
      BY <1>1 DEF NoShellLeft
    <2>2. CASE pane.session = id
      <3>1. id # NoShell
        BY PaneAssumption DEF PaneInv, PaneType, RunType, PaneFields
      <3>2. Run(next, pane.session, TRUE, f.sent) \in starts'
        BY <1>1, <2>2, <3>1 DEF new
      <3> QED BY <1>2, <2>2, <3>2 DEF Run
    <2>3. CASE pane.session # id
      <3>1. PICK s \in starts : s.id = id /\ s.pc \in {"closing", "ending", "dropping", "started"}
        BY <2>3 DEF PaneInv, NoShellLeft
      <3>2. PICK r \in Overtaken(starts) : r.pc = s.pc /\ r.id = s.id
        BY OvertakenKeeps DEF PaneInv
      <3> QED BY <1>1, <3>1, <3>2
    <2> QED BY <2>2, <2>3
  <1>9. KeepsSession
    <2>1. SUFFICES ASSUME pane.session # NoShell PROVE starts' # starts
      BY DEF KeepsSession
    <2>2. Run(next, pane.session, TRUE, f.sent) \in starts'
      BY <1>1, <2>1 DEF new
    <2>3. Run(next, pane.session, TRUE, f.sent) \notin starts
      BY <2>1 DEF Run, PaneInv, OneCurrent
    <2> QED BY <2>2, <2>3
  <1> QED BY <1>1, <1>3, <1>6, <1>7, <1>8, <1>9 DEF PaneInv, ShellsNew, TypedIsSent

(* A close that is answered ends its shell, and only that. *)
LEMMA CloseStep ==
  ASSUME PaneInv, NEW r \in starts, CloseAnswered(r)
  PROVE  PaneInv' /\ KeepsSession
  <1> DEFINE ask == [r EXCEPT !.pc = "asking", !.id = NoShell]
  <1>1. /\ r.pc \in {"closing", "ending", "dropping"} /\ shells' = shells \ {r.id}
        /\ exits' = exits \cup (IF r.id \in shells THEN {r.id} ELSE {})
        /\ UNCHANGED <<frames, made>>
    BY DEF CloseAnswered
  <1>2. /\ pane'.mounted = pane.mounted /\ pane'.session = pane.session /\ pane'.pending = pane.pending
        /\ pane' \in PaneFields
    <2>1. PICK p : p = AfterClose(pane)
      OBVIOUS
    <2>2. pane \in PaneFields
      BY DEF PaneInv, PaneType
    <2>3. p \in PaneFields /\ p.mounted = pane.mounted /\ p.session = pane.session /\ p.pending = pane.pending
      BY <2>1, <2>2 DEF AfterClose, PaneFields
    <2>4. PICK q : q = [p EXCEPT !.connecting = TRUE]
      OBVIOUS
    <2>5. q \in PaneFields /\ q.mounted = p.mounted /\ q.session = p.session /\ q.pending = p.pending
      BY <2>3, <2>4 DEF PaneFields
    <2>6. pane' = q \/ pane' = p \/ pane' = pane
      BY <2>1, <2>4 DEF CloseAnswered
    <2> QED BY <2>2, <2>3, <2>5, <2>6
  <1>3. \/ starts' = starts \ {r}
        \/ r.current /\ r.pc = "closing" /\ starts' = (starts \ {r}) \cup {ask}
    BY DEF CloseAnswered
  <1>4. /\ ask.pc = "asking" /\ ask.id = NoShell /\ ask.current = r.current
        /\ ask \in RunType
    BY DEF PaneInv, PaneType, RunType, PaneFields, Sessions
  <1> HIDE DEF ask
  <1>5. PaneType'
    BY <1>1, <1>2, <1>3, <1>4 DEF PaneInv, PaneType, RunType, PaneFields
  <1>6. OneCurrent'
    <2>1. \A s \in starts' : s \in starts \ {r} \/ (s = ask /\ r.current /\ r.pc = "closing")
      BY <1>3
    <2>2. \A s \in starts' : s.current => pane.mounted /\ (s.pc # "writing" => pane.session = NoShell)
      BY <1>4, <2>1 DEF PaneInv, OneCurrent
    <2>3. ASSUME NEW s \in starts', NEW t \in starts', s.current, t.current, s.pc # "writing", t.pc # "writing"
          PROVE  s = t
      BY <1>4, <2>1, <2>3 DEF PaneInv, OneCurrent
    <2> QED BY <1>1, <1>2, <2>2, <2>3 DEF PaneInv, OneCurrent
  <1>7. NoShellLeft'
    <2>1. SUFFICES ASSUME NEW id \in shells, id # r.id
                   PROVE  \/ pane'.mounted /\ pane'.session = id
                          \/ \E s \in starts' : s.id = id /\ s.pc \in {"closing", "ending", "dropping", "started"}
      BY <1>1 DEF NoShellLeft
    <2>2. CASE pane.mounted /\ pane.session = id
      BY <1>2, <2>2
    <2>3. CASE ~(pane.mounted /\ pane.session = id)
      <3>1. PICK s \in starts : s.id = id /\ s.pc \in {"closing", "ending", "dropping", "started"}
        BY <2>3 DEF PaneInv, NoShellLeft
      <3> QED BY <1>3, <2>1, <3>1
    <2> QED BY <2>2, <2>3
  <1>8. ShellsNew'
    BY <1>1 DEF PaneInv, ShellsNew
  <1>9. TypedIsSent' /\ KeepsSession
    BY <1>2 DEF PaneInv, TypedIsSent, KeepsSession
  <1> QED BY <1>5, <1>6, <1>7, <1>8, <1>9 DEF PaneInv

(* A shell that starts is its start's. *)
LEMMA ShellStep ==
  ASSUME PaneInv, NEW r \in starts, ShellStarts(r)
  PROVE  PaneInv' /\ KeepsSession
  <1>1. r.pc = "asking" /\ UNCHANGED <<pane, frames, exits>>
    BY DEF ShellStarts
  <1>2. PICK s : /\ starts' = (starts \ {r}) \cup {s} /\ s.current = r.current /\ s.sent = r.sent
                 /\ s \in RunType
                 /\ \/ /\ s.pc = "started" /\ s.id = made + 1 /\ made' = made + 1
                       /\ shells' = shells \cup {made + 1}
                    \/ s.pc = "failed" /\ UNCHANGED <<made, shells>>
    <2>1. CASE starts' = (starts \ {r}) \cup {[r EXCEPT !.pc = "failed"]} /\ UNCHANGED <<made, shells>>
      <3> DEFINE v == [r EXCEPT !.pc = "failed"]
      <3>1. v.pc = "failed" /\ v.current = r.current /\ v.sent = r.sent /\ v \in RunType
        BY DEF PaneInv, PaneType, RunType
      <3> HIDE DEF v
      <3>2. starts' = (starts \ {r}) \cup {v}
        BY <2>1 DEF v
      <3> QED BY <2>1, <3>1, <3>2
    <2>2. CASE /\ starts' = (starts \ {r}) \cup {[r EXCEPT !.pc = "started", !.id = made + 1]}
               /\ made' = made + 1 /\ shells' = shells \cup {made + 1}
      <3> DEFINE v == [r EXCEPT !.pc = "started", !.id = made + 1]
      <3>0. made + 1 \in Sessions /\ r \in RunType
        BY DEF PaneInv, PaneType, Sessions
      <3>1. v.pc = "started" /\ v.id = made + 1 /\ v.current = r.current /\ v.sent = r.sent /\ v \in RunType
        BY <3>0 DEF RunType
      <3> HIDE DEF v
      <3>2. starts' = (starts \ {r}) \cup {v}
        BY <2>2 DEF v
      <3> QED BY <2>2, <3>1, <3>2
    <2> QED BY <2>1, <2>2 DEF ShellStarts
  <1>3. PaneType'
    <2>0. made \in Nat /\ made + 1 \in Nat /\ shells \subseteq Nat
      BY DEF PaneInv, PaneType
    <2>1. made' \in Nat /\ shells' \subseteq Nat
      BY <1>2, <2>0, Zenon
    <2>2. starts' \subseteq RunType
      BY <1>2 DEF PaneInv, PaneType
    <2> QED BY <1>1, <2>1, <2>2 DEF PaneInv, PaneType
  <1>4. OneCurrent'
    <2>1. \A t \in starts' : t \in starts \ {r} \/ t = s
      BY <1>2
    <2>2. s.pc # "writing" /\ r.pc # "writing"
      BY <1>1, <1>2
    <2>3. \A t \in starts' : t.current => pane.mounted /\ (t.pc # "writing" => pane.session = NoShell)
      BY <1>2, <2>1, <2>2 DEF PaneInv, OneCurrent
    <2>4. ASSUME NEW t \in starts', NEW v \in starts', t.current, v.current, t.pc # "writing", v.pc # "writing"
          PROVE  t = v
      BY <1>2, <2>1, <2>2, <2>4 DEF PaneInv, OneCurrent
    <2> QED BY <1>1, <2>3, <2>4 DEF PaneInv, OneCurrent
  <1>5. NoShellLeft'
    <2>1. SUFFICES ASSUME NEW id \in shells'
                   PROVE  \/ pane.mounted /\ pane.session = id
                          \/ \E t \in starts' : t.id = id /\ t.pc \in {"closing", "ending", "dropping", "started"}
      BY <1>1 DEF NoShellLeft
    <2>2. CASE id \in shells
      BY <1>1, <1>2, <2>2 DEF PaneInv, NoShellLeft
    <2>3. CASE id \notin shells
      BY <1>2, <2>1, <2>3
    <2> QED BY <2>2, <2>3
  <1>6. ShellsNew'
    <2>1. CASE UNCHANGED <<made, shells>>
      BY <1>1, <2>1 DEF PaneInv, ShellsNew
    <2>2. CASE made' = made + 1 /\ shells' = shells \cup {made + 1}
      <3>1. made \in Nat /\ exits \subseteq Nat /\ shells \subseteq Nat /\ \A id \in shells \cup exits : id <= made
        BY DEF PaneInv, PaneType, ShellsNew
      <3>2. \A id \in shells' \cup exits : id <= made + 1
        BY <2>2, <3>1
      <3>3. made + 1 \notin exits
        BY <3>1
      <3> QED BY <1>1, <2>2, <3>2, <3>3 DEF PaneInv, ShellsNew
    <2> QED BY <1>2, <2>1, <2>2
  <1>7. TypedIsSent' /\ KeepsSession
    BY <1>1 DEF PaneInv, TypedIsSent, KeepsSession
  <1> QED BY <1>3, <1>4, <1>5, <1>6, <1>7 DEF PaneInv

(* A start that is answered: the pane, which has no shell, takes its own; or it
   is overtaken and the shell is closed. *)
LEMMA PaneAnswerStep ==
  ASSUME PaneInv, NEW r \in starts, StartAnswered(r)
  PROVE  PaneInv' /\ KeepsSession
  <1>0. r.pc = "started" /\ r.id \in Sessions /\ UNCHANGED <<frames, shells, made, exits>>
    BY DEF StartAnswered, PaneInv, PaneType, RunType, PaneFields
  <1>1. CASE ~r.current
    <2> DEFINE d == [r EXCEPT !.pc = "dropping"]
    <2>1. starts' = (starts \ {r}) \cup {d} /\ UNCHANGED pane
      BY <1>1 DEF StartAnswered
    <2>2. /\ ~d.current /\ d.pc = "dropping" /\ d.id = r.id
          /\ d \in RunType
      BY <1>1 DEF PaneInv, PaneType, RunType, PaneFields
    <2> HIDE DEF d
    <2>3. PaneType'
      BY <1>0, <2>1, <2>2 DEF PaneInv, PaneType, RunType, PaneFields
    <2>4. OneCurrent'
      BY <1>0, <2>1, <2>2 DEF PaneInv, OneCurrent
    <2>5. NoShellLeft'
      BY <1>0, <2>1, <2>2 DEF PaneInv, NoShellLeft
    <2> QED BY <1>0, <2>1, <2>3, <2>4, <2>5 DEF PaneInv, ShellsNew, TypedIsSent, KeepsSession
  <1>2. CASE r.current
    <2> DEFINE w == [r EXCEPT !.pc = "writing"]
    <2>1. pane.mounted /\ pane.session = NoShell
      BY <1>0, <1>2 DEF PaneInv, OneCurrent
    <2>2. /\ pane'.mounted /\ pane'.session = r.id /\ ~pane'.pending
          /\ pane' \in PaneFields
      BY <1>0, <1>2, <2>1 DEF StartAnswered, PaneInv, PaneType, RunType, PaneFields
    <2>3. starts' = starts \ {r} \/ starts' = (starts \ {r}) \cup {w}
      BY <1>2 DEF StartAnswered
    <2>4. /\ w.pc = "writing"
          /\ w \in RunType
      BY DEF PaneInv, PaneType, RunType, PaneFields
    <2> HIDE DEF w
    <2>5. PaneType'
      BY <1>0, <2>2, <2>3, <2>4 DEF PaneInv, PaneType, RunType, PaneFields
    <2>6. \A s \in starts' : s.current => s.pc = "writing"
      BY <1>0, <1>2, <2>3, <2>4 DEF PaneInv, OneCurrent
    <2>7. OneCurrent'
      BY <1>0, <2>2, <2>6 DEF PaneInv, OneCurrent
    <2>8. NoShellLeft'
      <3>1. SUFFICES ASSUME NEW id \in shells, id # r.id
                     PROVE  \E s \in starts' : s.id = id /\ s.pc \in {"closing", "ending", "dropping", "started"}
        BY <1>0, <2>2 DEF NoShellLeft
      <3>2. id # NoShell
        BY PaneAssumption DEF PaneInv, PaneType, RunType, PaneFields
      <3>3. PICK s \in starts : s.id = id /\ s.pc \in {"closing", "ending", "dropping", "started"}
        BY <2>1, <3>2 DEF PaneInv, NoShellLeft
      <3> QED BY <2>3, <3>1, <3>3
    <2>9. TypedIsSent' /\ KeepsSession
      BY <2>1, <2>2 DEF TypedIsSent, KeepsSession
    <2> QED BY <1>0, <2>5, <2>7, <2>8, <2>9 DEF PaneInv, ShellsNew
  <1> QED BY <1>1, <1>2 DEF PaneInv, PaneType, RunType, PaneFields

(* A start that has failed, and one whose command was written, just end. *)
LEMMA EndStep ==
  ASSUME PaneInv, NEW r \in starts, StartFailed(r) \/ WriteAnswered(r)
  PROVE  PaneInv' /\ KeepsSession
  <1>1. /\ r.pc \in {"failed", "writing"} /\ starts' = starts \ {r}
        /\ UNCHANGED <<frames, shells, made, exits>>
    BY DEF StartFailed, WriteAnswered
  <1>2. /\ pane'.mounted = pane.mounted /\ pane'.session = pane.session /\ pane'.pending = pane.pending
        /\ pane' \in PaneFields
    BY DEF StartFailed, WriteAnswered, AfterClose, PaneInv, PaneType, RunType, PaneFields
  <1>3. PaneType' /\ OneCurrent'
    BY <1>1, <1>2 DEF PaneInv, PaneType, RunType, PaneFields, OneCurrent
  <1>4. NoShellLeft'
    BY <1>1, <1>2 DEF PaneInv, NoShellLeft
  <1> QED BY <1>1, <1>2, <1>3, <1>4 DEF PaneInv, ShellsNew, TypedIsSent, KeepsSession

(* A shell that ends by itself is no longer one, whoever has it. *)
LEMMA ExitStep ==
  ASSUME PaneInv, NEW id \in shells, ShellExits(id)
  PROVE  PaneInv' /\ KeepsSession
  <1>1. shells' = shells \ {id} /\ exits' = exits \cup {id} /\ UNCHANGED <<pane, frames, starts, made>>
    BY DEF ShellExits
  <1>2. PaneType' /\ OneCurrent' /\ ShellsNew' /\ NoShellLeft'
    BY <1>1 DEF PaneInv, PaneType, RunType, PaneFields, OneCurrent, ShellsNew, NoShellLeft
  <1> QED BY <1>1, <1>2 DEF PaneInv, TypedIsSent, KeepsSession

(* An exit that is delivered is of a shell that has ended. *)
LEMMA PaneDeliverStep ==
  ASSUME PaneInv, NEW e \in exits, DeliverEvent(e)
  PROVE  PaneInv' /\ KeepsSession
  <1>1. exits' = exits \ {e} /\ UNCHANGED <<frames, starts, shells, made>> /\ e \notin shells
    BY DEF DeliverEvent, PaneInv, ShellsNew
  <1>2. CASE pane' = pane
    BY <1>1, <1>2 DEF PaneInv, PaneType, RunType, PaneFields, OneCurrent, ShellsNew, NoShellLeft, TypedIsSent, KeepsSession
  <1>3. CASE e = pane.session /\ pane' = [Forget(pane) EXCEPT !.ready = FALSE, !.connecting = FALSE]
    <2>1. /\ pane'.mounted = pane.mounted /\ pane'.session = NoShell
          /\ pane' \in PaneFields
      BY <1>3 DEF PaneInv, PaneType, RunType, PaneFields, Forget, Sessions
    <2>2. PaneType' /\ OneCurrent' /\ ShellsNew' /\ NoShellLeft'
      BY <1>1, <1>3, <2>1 DEF PaneInv, PaneType, RunType, PaneFields, OneCurrent, ShellsNew, NoShellLeft
    <2> QED BY <1>1, <1>3, <2>1, <2>2 DEF PaneInv, TypedIsSent, KeepsSession
  <1> QED BY <1>2, <1>3 DEF DeliverEvent

(* The other steps change what the pane shows, or note a restart. *)
LEMMA ShowStep ==
  ASSUME PaneInv, RestartTab \/ ContextKnown \/ (\E id \in shells : ShellWrites(id)) \/ TypeInput \/ ConnectingTimeout
  PROVE  PaneInv' /\ KeepsSession
  <1>1. UNCHANGED <<starts, shells, made, exits>> /\ (frames' = frames \/ pane.mounted)
    BY DEF RestartTab, ContextKnown, ShellWrites, TypeInput, ConnectingTimeout
  <1>2. /\ pane'.mounted = pane.mounted /\ pane'.session = pane.session
        /\ pane'.pending = pane.pending \/ pane.session = NoShell
        /\ pane' \in PaneFields
    BY DEF RestartTab, ContextKnown, ShellWrites, TypeInput, ConnectingTimeout, PaneInv, PaneType, RunType, PaneFields
  <1>3. PaneType' /\ OneCurrent' /\ ShellsNew' /\ NoShellLeft'
    BY <1>1, <1>2 DEF PaneInv, PaneType, RunType, PaneFields, OneCurrent, ShellsNew, NoShellLeft
  <1> QED BY <1>1, <1>2, <1>3 DEF PaneInv, TypedIsSent, KeepsSession

(* A step that changes nothing. *)
LEMMA StutterStep == ASSUME PaneInv, UNCHANGED paneVars PROVE PaneInv' /\ KeepsSession
  BY DEF paneVars, PaneInv, PaneType, RunType, PaneFields, OneCurrent, ShellsNew, NoShellLeft, TypedIsSent, KeepsSession

(* Every frame knows whether the tab's command was sent. *)
FramesType == \A f \in frames : f.sent \in BOOLEAN

LEMMA FramesStep == ASSUME PaneInv, FramesType, [PaneNext]_paneVars PROVE FramesType'
  <1>1. pane.sent \in BOOLEAN
    BY DEF PaneInv, PaneType, RunType, PaneFields
  <1>2. CASE MountPane
    BY <1>1, <1>2 DEF MountPane, FramesType
  <1>3. CASE RestartTab
    BY <1>1, <1>3 DEF RestartTab, FramesType
  <1>4. CASE frames' \subseteq frames
    BY <1>4 DEF FramesType
  <1>5. MountPane \/ RestartTab \/ frames' \subseteq frames
    BY DEF PaneNext, paneVars, UnmountPane, ContextKnown, StartSession, CloseAnswered, ShellStarts,
           StartAnswered, StartFailed, WriteAnswered, ShellExits, ShellWrites, DeliverEvent, TypeInput,
           ConnectingTimeout
  <1> QED BY <1>2, <1>3, <1>4, <1>5

(* Every step keeps the invariant and the session. *)
LEMMA NextInv == ASSUME PaneInv, FramesType, [PaneNext]_paneVars PROVE PaneInv' /\ KeepsSession
  <1>1. CASE MountPane
    BY <1>1, MountStep
  <1>2. CASE UnmountPane
    BY <1>2, UnmountStep
  <1>3. ASSUME NEW f \in frames, StartSession(f) PROVE PaneInv' /\ KeepsSession
    BY <1>3, StartStep DEF FramesType
  <1>4. ASSUME NEW r \in starts, CloseAnswered(r) \/ ShellStarts(r) \/ StartAnswered(r) \/ StartFailed(r) \/ WriteAnswered(r)
        PROVE  PaneInv' /\ KeepsSession
    BY <1>4, CloseStep, ShellStep, PaneAnswerStep, EndStep
  <1>5. ASSUME NEW id \in shells, ShellExits(id) PROVE PaneInv' /\ KeepsSession
    BY <1>5, ExitStep
  <1>6. ASSUME NEW e \in exits, DeliverEvent(e) PROVE PaneInv' /\ KeepsSession
    BY <1>6, PaneDeliverStep
  <1>7. CASE RestartTab \/ ContextKnown \/ (\E id \in shells : ShellWrites(id)) \/ TypeInput \/ ConnectingTimeout
    BY <1>7, ShowStep
  <1>8. CASE UNCHANGED paneVars
    BY <1>8, StutterStep
  <1> QED BY <1>1, <1>2, <1>3, <1>4, <1>5, <1>6, <1>7, <1>8 DEF PaneNext

-----------------------------------------------------------------------------
(* Whatever order restarts, unmounts, closes, answers and exits come in
   (TerminalTabPane.jsx), every running shell is the mounted pane's or is being
   started or closed, nothing typed waits beside a shell, and no late exit takes
   the session away. *)
THEOREM PaneOwnsShells == PaneSpec => ShellsOwned
  <1>1. PaneInit => PaneInv /\ FramesType
    BY InitInv DEF PaneInit, FramesType
  <1>2. PaneInv /\ FramesType /\ [PaneNext]_paneVars => PaneInv' /\ FramesType'
    BY NextInv, FramesStep
  <1>3. PaneInv /\ FramesType /\ [PaneNext]_paneVars
          => [pane.session # NoShell /\ pane'.session = NoShell
                => pane.session \notin shells \/ ~pane'.mounted \/ starts' # starts]_paneVars
    BY NextInv DEF KeepsSession
  <1>4. PaneInv => NoShellLeft /\ TypedIsSent
    BY DEF PaneInv
  <1> QED BY <1>1, <1>2, <1>3, <1>4, PTL DEF PaneSpec, ShellsOwned, SessionKept
=============================================================================
