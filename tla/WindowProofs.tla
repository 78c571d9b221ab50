---------------------------- MODULE WindowProofs ----------------------------
(***************************************************************************)
(* Proofs about what a window holds for all of its pages: about Session,   *)
(* for any queries, namespaces and contexts and any number of handlers     *)
(* that wait, that the window's lock, its search bar and the view it shows *)
(* stay those of the session it controls; about Console, for any           *)
(* contexts, pods and tabs, that the terminal's tabs stay their context's; *)
(* and about FetchHooks, for any keys, requests and generations, that each *)
(* hook shows the answers of its own request.                              *)
(***************************************************************************)
EXTENDS Session, Console, FetchHooks, KeptProofs, SequenceTheorems

NsOrNone == Namespaces \cup {NoNs}
Texts == Queries \cup {Blank}
ViewTexts == Queries \cup {Blank, EmptyView}
Lenses == {"matches", "all"}
Clusters == [ctx : Contexts, ns : NsOrNone]

Window == [cluster : Clusters, scope : NsOrNone, browse : Scopes, lens : Lenses,
           locked : SUBSET NsOrNone, saved : SUBSET Scopes, invNs : NsOrNone,
           running : BOOLEAN, starting : BOOLEAN, active : Texts,
           view : ViewTexts, pending : SUBSET ViewTexts, picker : BOOLEAN]

Closures == [scope : NsOrNone, browse : Scopes, lens : Lenses, cluster : Clusters]
RunPcs == {"namespace", "start", "starting", "started", "failed"}

DiscoverCalls == [pc : {"discover"}, q : Texts, at : Closures]
RunCalls == [pc : RunPcs, q : Texts, ns : Namespaces, ctx : Contexts, lens : Lenses]
OtherCalls == [pc : {"view"}] \cup [pc : {"stop"}, lens : Lenses]
                \cup [pc : {"context"}, ctx : Contexts] \cup [pc : {"browse"}, ns : Namespaces]
CallSet == DiscoverCalls \cup RunCalls \cup OtherCalls

LiveSessions == [q : Texts, ns : Namespaces, ctx : Contexts]

SessType == /\ u \in Window /\ calls \subseteq CallSet /\ raced \in BOOLEAN
            /\ svc \in LiveSessions \cup {NoSession}

(* A locked Resources view belongs to a session, a start or the picker. *)
LockOwned == u.locked # {} => u.running \/ u.starting \/ u.picker

Owned == /\ svc = [q |-> u.active, ns |-> u.invNs, ctx |-> u.cluster.ctx]
         /\ u.locked = {u.invNs}

(* What the pending call of an operation that runs alone knows of the window. *)
Agrees(c) ==
  /\ c.pc = "discover" => u.starting /\ u.active = c.q /\ c.at.cluster.ctx = u.cluster.ctx
  /\ c.pc \in {"namespace", "start", "starting", "started"} =>
       /\ u.running /\ u.active = c.q /\ u.invNs = c.ns /\ u.locked = {c.ns} /\ u.cluster.ctx = c.ctx
  /\ c.pc = "started" => svc = [q |-> c.q, ns |-> c.ns, ctx |-> c.ctx]
  /\ c.pc = "context" => ~u.running

Passive == {"browse", "view", "stop", "context"}

Alone ==
  /\ \A c, d \in calls : c.pc # "browse" /\ d.pc # "browse" => c = d
  /\ \A c \in calls : Agrees(c)
  /\ (\A c \in calls : c.pc \in Passive) /\ u.running /\ u.active # Blank => Owned

SessInv == /\ SessType /\ SavedWhileLocked /\ LockOwned /\ StartingBacked /\ ViewOwn
           /\ ~raced => Alone
-----------------------------------------------------------------------------
(* The invariant is what the window promises, and more. *)
LEMMA InvHolds == SessInv => SessionHolds
  BY DEF SessInv, SessionHolds, SavedWhileLocked, LockOwned, NoStuckLock, StartingBacked, ViewOwn,
         SessionShown, Alone, Owned

(* A scope names namespaces only, and all namespaces is one. *)
LEMMA ScopeNames == AllScope \in Scopes /\ \A s \in Scopes : s.ns \subseteq Namespaces
  BY DEF Scopes, AllScope, SingleScope, MultiScope

(* A window without a session. *)
LEMMA InitInv == SessInit => SessInv
  <1> SUFFICES ASSUME SessInit PROVE SessInv
    OBVIOUS
  <1>1. PICK c \in Contexts, n \in NsOrNone :
          u = [cluster |-> [ctx |-> c, ns |-> n], scope |-> n, browse |-> AllScope, lens |-> "matches",
            locked |-> {}, saved |-> {}, invNs |-> NoNs,
            running |-> FALSE, starting |-> FALSE, active |-> Blank,
            view |-> EmptyView, pending |-> {}, picker |-> FALSE]
    BY DEF SessInit, NsOrNone
  <1>2. u \in Window
    BY <1>1, ScopeNames DEF Window, Clusters, Lenses, NsOrNone, Texts, ViewTexts
  <1>3. SessType
    BY <1>2 DEF SessInit, SessType
  <1>4. u.locked = {} /\ u.saved = {} /\ ~u.running /\ ~u.starting /\ u.active = Blank
    BY <1>1
  <1> QED
    BY <1>3, <1>4, SessionAssumption DEF SessInit, SessInv, SavedWhileLocked, LockOwned, StartingBacked, ViewOwn, Alone
-----------------------------------------------------------------------------
(* What the pieces of the handlers leave alone. *)

SameSession(v, w) == /\ v.running = w.running /\ v.starting = w.starting /\ v.picker = w.picker
                     /\ v.cluster = w.cluster /\ v.active = w.active /\ v.view = w.view

LEMMA LockFields ==
  ASSUME NEW w \in Window, NEW scope \in NsOrNone, NEW ns \in NsOrNone, NEW browse \in Scopes,
         NEW v, v = LockResources(w, scope, ns, browse)
  PROVE  /\ v \in Window /\ v.locked = {InvestigationLockNs(scope, ns)} /\ v.saved # {}
         /\ SameSession(v, w) /\ v.invNs = w.invNs
  <1>1. InvestigationLockNs(scope, ns) \in NsOrNone
    BY DEF InvestigationLockNs
  <1>2. (IF w.saved = {} THEN {browse} ELSE w.saved) \in SUBSET Scopes
    BY DEF Window
  <1>3. (IF w.saved = {} THEN {browse} ELSE w.saved) # {}
    OBVIOUS
  <1> HIDE DEF InvestigationLockNs
  <1> QED BY <1>1, <1>2, <1>3 DEF LockResources, Window, SameSession, Lenses

LEMMA UnlockFields ==
  ASSUME NEW w \in Window, NEW lens, NEW v, v = Unlock(w, lens)
  PROVE  v \in Window /\ v.locked = {} /\ v.saved = {} /\ SameSession(v, w)
  <1> DEFINE b == IF w.saved # {} /\ lens = "matches" THEN CHOOSE s \in w.saved : TRUE ELSE w.browse
  <1>1. b \in Scopes
    BY DEF Window
  <1>2. v = [w EXCEPT !.saved = {}, !.locked = {}, !.invNs = NoNs, !.lens = "matches", !.browse = b]
    BY DEF Unlock
  <1> HIDE DEF b
  <1> QED BY <1>1, <1>2 DEF Window, SameSession, Lenses, NsOrNone

LEMMA ReleasedFields ==
  ASSUME NEW w \in Window, NEW v, v = Released(w)
  PROVE  v \in Window /\ v.locked = {} /\ v.saved = {} /\ SameSession(v, w)
  BY DEF Released, Window, SameSession, NsOrNone

LEMMA EndedFields ==
  ASSUME NEW w \in Window, NEW v, v = Ended(w)
  PROVE  /\ v \in Window /\ v.active = Blank /\ v.view = EmptyView
         /\ v.running = w.running /\ v.starting = w.starting /\ v.picker = w.picker
         /\ v.cluster = w.cluster /\ v.locked = w.locked /\ v.saved = w.saved
  BY DEF Ended, Window, Texts, ViewTexts

LEMMA FailedFields ==
  ASSUME NEW w \in Window, NEW lens, NEW v, v = Failed(w, lens)
  PROVE  /\ v \in Window /\ v.active = Blank /\ v.view = EmptyView /\ v.locked = {} /\ v.saved = {}
         /\ ~v.running /\ v.starting = w.starting /\ v.picker = w.picker
  <1> DEFINE e == Ended(w)
             r == [e EXCEPT !.running = FALSE]
  <1>1. /\ e \in Window /\ e.active = Blank /\ e.view = EmptyView
        /\ e.starting = w.starting /\ e.picker = w.picker
    BY EndedFields
  <1> HIDE DEF e
  <1>2. /\ r \in Window /\ r.active = Blank /\ r.view = EmptyView /\ ~r.running
        /\ r.starting = w.starting /\ r.picker = w.picker
    BY <1>1 DEF Window
  <1>3. v = Unlock(r, lens)
    BY DEF Failed, e
  <1> HIDE DEF r
  <1> QED BY <1>2, <1>3, UnlockFields DEF SameSession

LEMMA BeginFields ==
  ASSUME NEW w \in Window, NEW q \in Texts, NEW v, v = BeginTransition(w, q)
  PROVE  /\ v \in Window /\ v.active = q /\ v.view = EmptyView
         /\ v.running = w.running /\ v.starting = w.starting /\ v.picker = w.picker
         /\ v.cluster = w.cluster
  BY DEF BeginTransition, Window, ViewTexts

(* runInvestigation up to its first await: it fails, or locks and waits. *)
LEMMA RunFields ==
  ASSUME NEW w \in Window, NEW q \in Texts, NEW at \in Closures, NEW ns \in NsOrNone, NEW others,
         RunInvestigation(w, q, at, others, ns)
  PROVE  \/ /\ calls' = others /\ u' \in Window /\ u'.active = Blank /\ u'.view = EmptyView
            /\ u'.locked = {} /\ u'.saved = {} /\ ~u'.running /\ u'.starting = w.starting
         \/ /\ u' \in Window /\ u'.locked = {ns} /\ u'.saved # {} /\ u'.invNs = ns /\ u'.view = EmptyView
            /\ u'.running = w.running /\ u'.starting = w.starting /\ u'.active = w.active
            /\ u'.cluster = w.cluster
            /\ \E r \in RunCalls : /\ calls' = others \cup {r} /\ r.pc \in {"namespace", "start"}
                                   /\ r.q = q /\ r.ns = ns /\ r.ctx = at.cluster.ctx
  <1>1. CASE ns = NoNs
    BY <1>1, FailedFields DEF RunInvestigation
  <1>2. CASE ns # NoNs
    <2> DEFINE v == LockResources(w, at.scope, ns, at.browse)
               r == [pc |-> IF ns # at.cluster.ns THEN "namespace" ELSE "start",
                     q |-> q, ns |-> ns, ctx |-> at.cluster.ctx, lens |-> at.lens]
    <2>1. at.scope \in NsOrNone /\ at.browse \in Scopes
      BY DEF Closures
    <2>2. /\ v \in Window /\ v.locked = {InvestigationLockNs(at.scope, ns)} /\ v.saved # {}
          /\ SameSession(v, w)
      BY <2>1, LockFields
    <2>3. InvestigationLockNs(at.scope, ns) = ns
      BY <1>2 DEF InvestigationLockNs
    <2>4. u' = [v EXCEPT !.view = EmptyView, !.invNs = ns] /\ calls' = others \cup {r}
      BY <1>2 DEF RunInvestigation
    <2>5. r \in RunCalls /\ r.pc \in {"namespace", "start"} /\ r.q = q /\ r.ns = ns /\ r.ctx = at.cluster.ctx
      <3>1. ns \in Namespaces /\ at.cluster.ctx \in Contexts /\ at.lens \in Lenses
        BY <1>2 DEF NsOrNone, Closures, Clusters
      <3> QED BY <3>1 DEF RunCalls, RunPcs
    <2> HIDE DEF v, r
    <2>6. /\ u' \in Window /\ u'.locked = {ns} /\ u'.saved # {} /\ u'.invNs = ns /\ u'.view = EmptyView
          /\ u'.running = w.running /\ u'.starting = w.starting /\ u'.active = w.active
          /\ u'.cluster = w.cluster
      BY <2>2, <2>3, <2>4 DEF Window, ViewTexts, SameSession
    <2> QED BY <2>4, <2>5, <2>6
  <1> QED BY <1>1, <1>2
-----------------------------------------------------------------------------
(* Operations that run alone. *)

(* Nothing but browse scope changes is under way, and no session is shown. *)
LEMMA AloneAfter ==
  ASSUME \A d \in calls' : d.pc = "browse", u'.active = Blank \/ ~u'.running
  PROVE  Alone'
  BY DEF Alone, Agrees

(* One run is under way that the window agrees with. *)
LEMMA AloneRun ==
  ASSUME NEW r, \A d \in calls' : d.pc = "browse" \/ d = r, r \in calls',
         r.pc \notin Passive, Agrees(r)'
  PROVE  Alone'
  BY DEF Alone, Agrees, Passive

(* A step that neither an operation nor the lock is concerned with. *)
LEMMA AloneKept ==
  ASSUME Alone, svc' = svc,
         \A c \in calls \ calls' : c.pc \in Passive,
         \A c \in calls' \ calls : c.pc = "browse",
         u'.running = u.running, u'.starting = u.starting, u'.active = u.active,
         u'.cluster.ctx = u.cluster.ctx,
         u.running => u'.locked = u.locked /\ u'.invNs = u.invNs
  PROVE  Alone'
  <1>1. \A c, d \in calls' : c.pc # "browse" /\ d.pc # "browse" => c = d
    BY DEF Alone
  <1>2. ASSUME NEW c \in calls' PROVE Agrees(c)'
    <2>1. CASE c \in calls
      BY <2>1 DEF Alone, Agrees
    <2>2. CASE c \notin calls
      BY <2>2 DEF Agrees
    <2> QED BY <2>1, <2>2
  <1>3. (\A c \in calls' : c.pc \in Passive) /\ u'.running /\ u'.active # Blank => Owned'
    BY DEF Alone, Owned
  <1> QED BY <1>1, <1>2, <1>3 DEF Alone

(* When an operation runs alone, the other calls are browse scope changes. *)
LEMMA OthersBrowse ==
  ASSUME Alone, NEW c \in calls, c.pc # "browse"
  PROVE  \A d \in calls \ {c} : d.pc = "browse"
  BY DEF Alone
-----------------------------------------------------------------------------
(* The steps. *)

(* The closure of a render. *)
LEMMA ClosureFields ==
  ASSUME u \in Window
  PROVE  Scope(u) \in NsOrNone /\ Closure \in Closures /\ Closure.cluster = u.cluster
  BY DEF Window, Scope, InvestigationNs, Clusters, Closure, Closures

LEMMA StartStep == ASSUME SessInv, OnStart PROVE SessInv'
  <1>1. PICK q \in Texts :
          /\ u' = [LockResources(BeginTransition(u, q), Scope(u), Scope(u), u.browse) EXCEPT !.starting = TRUE]
          /\ calls' = calls \cup {[pc |-> "discover", q |-> q, at |-> Closure]}
          /\ raced' = (raced \/ calls # {}) /\ svc' = svc
    BY DEF OnStart, Begins, Texts
  <1> DEFINE b == BeginTransition(u, q)
             v == LockResources(b, Scope(u), Scope(u), u.browse)
  <1>2. u \in Window /\ u.browse \in Scopes
    BY DEF SessInv, SessType, Window
  <1>3. b \in Window /\ b.active = q /\ b.view = EmptyView /\ b.cluster = u.cluster
    BY <1>2, BeginFields
  <1> HIDE DEF b
  <1>4. v \in Window /\ v.locked # {} /\ v.saved # {} /\ SameSession(v, b)
    <2>1. /\ v \in Window /\ v.locked = {InvestigationLockNs(Scope(u), Scope(u))} /\ v.saved # {}
          /\ SameSession(v, b)
      BY <1>2, <1>3, ClosureFields, LockFields
    <2> QED BY <2>1
  <1>5. u' = [v EXCEPT !.starting = TRUE]
    BY <1>1 DEF b
  <1> HIDE DEF v
  <1>6. /\ u' \in Window /\ u'.locked # {} /\ u'.saved # {} /\ u'.starting
        /\ u'.active = q /\ u'.view = EmptyView /\ u'.cluster = u.cluster
    BY <1>3, <1>4, <1>5 DEF Window, SameSession
  <1>7. PICK c \in DiscoverCalls : /\ c.pc = "discover" /\ c.q = q /\ c.at.cluster = u.cluster
                                   /\ calls' = calls \cup {c}
    <2> DEFINE d == [pc |-> "discover", q |-> q, at |-> Closure]
    <2>1. d \in DiscoverCalls /\ d.pc = "discover" /\ d.q = q /\ d.at.cluster = u.cluster
      BY <1>2, ClosureFields DEF DiscoverCalls
    <2>2. calls' = calls \cup {d}
      BY <1>1
    <2> HIDE DEF d
    <2> QED BY <2>1, <2>2
  <1>8. calls' = calls \cup {c}
    BY <1>7
  <1>9. SessType'
    BY <1>1, <1>6, <1>7, <1>8 DEF SessInv, SessType, CallSet
  <1>10. SavedWhileLocked' /\ LockOwned' /\ StartingBacked' /\ ViewOwn'
    BY <1>6, <1>7, <1>8, SessionAssumption DEF SavedWhileLocked, LockOwned, StartingBacked, ViewOwn
  <1>11. ASSUME ~raced' PROVE Alone'
    <2>1. calls' = {c}
      BY <1>1, <1>8, <1>11
    <2>2. Agrees(c)'
      BY <1>6, <1>7 DEF Agrees
    <2> QED BY <1>7, <2>1, <2>2, AloneRun DEF Passive
  <1> QED BY <1>9, <1>10, <1>11 DEF SessInv

LEMMA DiscoverStep == ASSUME SessInv, DiscoverAnswered PROVE SessInv'
  <1>1. PICK c \in calls : c.pc = "discover" /\ Discovered(c)
    BY DEF DiscoverAnswered
  <1> DEFINE w == [u EXCEPT !.starting = FALSE]
             rest == calls \ {c}
  <1>2. svc' = svc /\ raced' = raced /\ calls \subseteq CallSet /\ u \in Window
    BY DEF DiscoverAnswered, SessInv, SessType
  <1>3. c.q \in Texts /\ c.at \in Closures
    <2>1. c \in DiscoverCalls
      BY <1>1, <1>2 DEF CallSet, RunCalls, RunPcs, OtherCalls
    <2> QED BY <2>1 DEF DiscoverCalls
  <1>4. w \in Window /\ ~w.starting /\ SameSession(w, [u EXCEPT !.starting = FALSE])
        /\ w.running = u.running /\ w.active = u.active /\ w.view = u.view /\ w.cluster = u.cluster
        /\ w.locked = u.locked /\ w.saved = u.saved
    BY <1>2 DEF Window, SameSession
  <1>5. ~raced => /\ \A d \in rest : d.pc = "browse"
                  /\ u.active = c.q /\ c.at.cluster.ctx = u.cluster.ctx
    <2>1. ~raced => Alone
      BY DEF SessInv
    <2> QED BY <1>1, <2>1, OthersBrowse DEF Alone, Agrees
  <1>6. CASE c.q = Blank /\ u' = [w EXCEPT !.picker = TRUE] /\ calls' = rest
    <2> HIDE DEF w
    <2>1. /\ u' \in Window /\ u'.picker /\ ~u'.starting /\ u'.active = u.active /\ u'.view = u.view
          /\ u'.locked = u.locked /\ u'.saved = u.saved
      BY <1>4, <1>6 DEF Window
    <2>2. SessType' /\ SavedWhileLocked' /\ LockOwned' /\ StartingBacked' /\ ViewOwn'
      BY <1>2, <1>6, <2>1 DEF SessInv, SessType, SavedWhileLocked, LockOwned, StartingBacked, ViewOwn
    <2>3. ~raced => Alone'
      BY <1>5, <1>6, <2>1, AloneAfter
    <2> QED BY <1>2, <2>2, <2>3 DEF SessInv
  <1>7. ASSUME NEW x \in {w, [w EXCEPT !.running = FALSE]}, u' = Released(Ended(x)), calls' = rest
        PROVE  SessInv'
    <2>1. x \in Window /\ ~x.starting
      BY <1>4 DEF Window
    <2> DEFINE e == Ended(x)
    <2>2. e \in Window /\ e.active = Blank /\ e.view = EmptyView /\ ~e.starting
      BY <2>1, EndedFields
    <2> HIDE DEF e
    <2>3. u' = Released(e)
      BY <1>7 DEF e
    <2>4. /\ u' \in Window /\ u'.locked = {} /\ u'.saved = {} /\ u'.active = Blank /\ u'.view = EmptyView
          /\ ~u'.starting
      BY <2>2, <2>3, ReleasedFields DEF SameSession
    <2>5. SessType' /\ SavedWhileLocked' /\ LockOwned' /\ StartingBacked' /\ ViewOwn'
      BY <1>2, <1>7, <2>4, SessionAssumption
         DEF SessInv, SessType, SavedWhileLocked, LockOwned, StartingBacked, ViewOwn
    <2>6. ~raced => Alone'
      BY <1>5, <1>7, <2>4, AloneAfter
    <2> QED BY <1>2, <2>5, <2>6 DEF SessInv
  <1>8. ASSUME NEW ns \in SessionNs(c.at.scope),
               RunInvestigation([w EXCEPT !.running = TRUE], c.q, c.at, rest, ns)
        PROVE  SessInv'
    <2> DEFINE x == [w EXCEPT !.running = TRUE]
    <2>1. ns \in NsOrNone
      BY <1>3 DEF SessionNs, NsOrNone, Closures
    <2>2. x \in Window /\ ~x.starting /\ x.running /\ x.active = u.active /\ x.cluster = u.cluster
      BY <1>4 DEF Window
    <2> HIDE DEF x, w
    <2>3. RunInvestigation(x, c.q, c.at, rest, ns)
      BY <1>8 DEF x
    <2>4. CASE /\ calls' = rest /\ u' \in Window /\ u'.active = Blank /\ u'.view = EmptyView
               /\ u'.locked = {} /\ u'.saved = {} /\ ~u'.running /\ u'.starting = x.starting
      <3>1. SessType' /\ SavedWhileLocked' /\ LockOwned' /\ StartingBacked' /\ ViewOwn'
        BY <1>2, <2>2, <2>4, SessionAssumption
           DEF SessInv, SessType, SavedWhileLocked, LockOwned, StartingBacked, ViewOwn
      <3>2. ~raced => Alone'
        BY <1>5, <2>4, AloneAfter
      <3> QED BY <1>2, <3>1, <3>2 DEF SessInv
    <2>5. ASSUME /\ u' \in Window /\ u'.locked = {ns} /\ u'.saved # {} /\ u'.invNs = ns /\ u'.view = EmptyView
                 /\ u'.running = x.running /\ u'.starting = x.starting /\ u'.active = x.active
                 /\ u'.cluster = x.cluster,
                 NEW r \in RunCalls, calls' = rest \cup {r}, r.pc \in {"namespace", "start"},
                 r.q = c.q, r.ns = ns, r.ctx = c.at.cluster.ctx
          PROVE  SessInv'
      <3>1. SessType' /\ SavedWhileLocked' /\ LockOwned' /\ StartingBacked' /\ ViewOwn'
        BY <1>2, <2>2, <2>5, SessionAssumption
           DEF SessInv, SessType, CallSet, SavedWhileLocked, LockOwned, StartingBacked, ViewOwn
      <3>2. ASSUME ~raced PROVE Alone'
        <4>1. Agrees(r)'
          BY <1>5, <2>2, <2>5, <3>2 DEF Agrees
        <4>2. \A d \in calls' : d.pc = "browse" \/ d = r
          BY <1>5, <2>5, <3>2
        <4> QED BY <2>5, <4>1, <4>2, AloneRun DEF Passive
      <3> QED BY <1>2, <3>1, <3>2 DEF SessInv
    <2>6. c.q \in Texts /\ c.at \in Closures
      BY <1>3
    <2>7. \/ /\ calls' = rest /\ u' \in Window /\ u'.active = Blank /\ u'.view = EmptyView
             /\ u'.locked = {} /\ u'.saved = {} /\ ~u'.running /\ u'.starting = x.starting
          \/ /\ u' \in Window /\ u'.locked = {ns} /\ u'.saved # {} /\ u'.invNs = ns /\ u'.view = EmptyView
             /\ u'.running = x.running /\ u'.starting = x.starting /\ u'.active = x.active
             /\ u'.cluster = x.cluster
             /\ \E r \in RunCalls : /\ calls' = rest \cup {r} /\ r.pc \in {"namespace", "start"}
                                    /\ r.q = c.q /\ r.ns = ns /\ r.ctx = c.at.cluster.ctx
      <3> HIDE DEF rest
      <3> QED BY <2>1, <2>2, <2>3, <2>6, RunFields
    <2> HIDE DEF rest
    <2> QED BY <2>4, <2>5, <2>7
  <1>9. \/ u' = [w EXCEPT !.picker = TRUE] /\ calls' = rest /\ c.q = Blank
        \/ \E x \in {w, [w EXCEPT !.running = FALSE]} : u' = Released(Ended(x)) /\ calls' = rest
        \/ \E ns \in SessionNs(c.at.scope) :
             RunInvestigation([w EXCEPT !.running = TRUE], c.q, c.at, rest, ns)
    BY <1>1, Zenon DEF Discovered
  <1> HIDE DEF w, rest
  <1> QED BY <1>6, <1>7, <1>8, <1>9

LEMMA ScopeConfirmStep == ASSUME SessInv, OnScopeConfirm PROVE SessInv'
  <1>1. u \in Window /\ u.browse \in Scopes /\ u.running \in BOOLEAN
    BY DEF SessInv, SessType, Window
  <1>2. PICK q \in Texts, ns \in SessionNs(Scope(u)) :
          RunInvestigation([LockResources(BeginTransition([u EXCEPT !.picker = FALSE], q),
                                          Scope(u), Scope(u), u.browse) EXCEPT !.running = TRUE],
                           q, Closure, calls, ns)
    BY DEF OnScopeConfirm, Texts
  <1>3. PICK w \in Window : /\ RunInvestigation(w, q, Closure, calls, ns)
                            /\ w.running /\ w.starting = u.starting /\ w.active = q /\ w.cluster = u.cluster
    <2> DEFINE a == [u EXCEPT !.picker = FALSE]
               b == BeginTransition(a, q)
               v == LockResources(b, Scope(u), Scope(u), u.browse)
               x == [v EXCEPT !.running = TRUE]
    <2>1. a \in Window /\ a.starting = u.starting /\ a.cluster = u.cluster
      BY <1>1 DEF Window
    <2> HIDE DEF a
    <2>2. b \in Window /\ b.active = q /\ b.starting = u.starting /\ b.cluster = u.cluster
      BY <2>1, BeginFields
    <2> HIDE DEF b
    <2>3. v \in Window /\ v.active = q /\ v.starting = u.starting /\ v.cluster = u.cluster
      <3>1. v \in Window /\ SameSession(v, b)
        BY <1>1, <2>2, ClosureFields, LockFields
      <3> QED BY <2>2, <3>1 DEF SameSession
    <2>4. RunInvestigation(x, q, Closure, calls, ns)
      BY <1>2 DEF a, b
    <2> HIDE DEF v
    <2>5. x \in Window /\ x.running /\ x.active = q /\ x.starting = u.starting /\ x.cluster = u.cluster
      BY <2>3 DEF Window
    <2> HIDE DEF x
    <2> QED BY <2>4, <2>5
  <1>4. PICK at \in Closures : RunInvestigation(w, q, at, calls, ns) /\ at.cluster = u.cluster
    BY <1>1, <1>3, ClosureFields
  <1>5. ns \in NsOrNone
    BY <1>1, ClosureFields DEF SessionNs, NsOrNone
  <1>6. /\ svc' = svc /\ raced' = (raced \/ calls # {}) /\ calls \subseteq CallSet /\ raced \in BOOLEAN
        /\ svc \in LiveSessions \cup {NoSession}
        /\ u.starting => \E c \in calls : c.pc = "discover"
    BY DEF OnScopeConfirm, Begins, SessInv, SessType, StartingBacked
  <1>7. CASE /\ calls' = calls /\ u' \in Window /\ u'.active = Blank /\ u'.view = EmptyView
             /\ u'.locked = {} /\ u'.saved = {} /\ ~u'.running /\ u'.starting = w.starting
    <2>1. SessType' /\ SavedWhileLocked' /\ LockOwned' /\ StartingBacked' /\ ViewOwn'
      BY <1>3, <1>6, <1>7, SessionAssumption
         DEF SessType, SavedWhileLocked, LockOwned, StartingBacked, ViewOwn
    <2>2. ~raced' => Alone'
      BY <1>6, <1>7, AloneAfter
    <2> QED BY <2>1, <2>2 DEF SessInv
  <1>8. ASSUME /\ u' \in Window /\ u'.locked = {ns} /\ u'.saved # {} /\ u'.invNs = ns /\ u'.view = EmptyView
               /\ u'.running = w.running /\ u'.starting = w.starting /\ u'.active = w.active
               /\ u'.cluster = w.cluster,
               NEW r \in RunCalls, calls' = calls \cup {r}, r.pc \in {"namespace", "start"},
               r.q = q, r.ns = ns, r.ctx = at.cluster.ctx
        PROVE  SessInv'
    <2>1. SessType' /\ SavedWhileLocked' /\ LockOwned' /\ StartingBacked' /\ ViewOwn'
      BY <1>3, <1>6, <1>8, SessionAssumption
         DEF SessType, CallSet, SavedWhileLocked, LockOwned, StartingBacked, ViewOwn
    <2>2. ASSUME ~raced' PROVE Alone'
      <3>1. Agrees(r)'
        BY <1>3, <1>4, <1>8 DEF Agrees
      <3>2. calls' = {r}
        BY <1>6, <1>8, <2>2
      <3> QED BY <1>8, <3>1, <3>2, AloneRun DEF Passive
    <2> QED BY <2>1, <2>2 DEF SessInv
  <1> QED BY <1>4, <1>5, <1>7, <1>8, RunFields

LEMMA ScopeCancelStep == ASSUME SessInv, OnScopeCancel PROVE SessInv'
  <1>1. u \in Window /\ UNCHANGED <<svc, calls, raced>>
    BY DEF SessInv, SessType, OnScopeCancel
  <1> DEFINE x == [u EXCEPT !.picker = FALSE]
  <1>2. /\ x \in Window /\ ~x.picker /\ x.running = u.running /\ x.starting = u.starting
        /\ x.active = u.active /\ x.view = u.view /\ x.cluster = u.cluster
        /\ x.locked = u.locked /\ x.saved = u.saved /\ x.invNs = u.invNs
    BY <1>1 DEF Window
  <1>3. u' = IF u.running THEN x ELSE Released(x)
    BY DEF OnScopeCancel
  <1> HIDE DEF x
  <1>4. /\ u' \in Window /\ u'.running = u.running /\ u'.starting = u.starting
        /\ u'.active = u.active /\ u'.view = u.view /\ u'.cluster = u.cluster
        /\ u.running => u'.locked = u.locked /\ u'.saved = u.saved /\ u'.invNs = u.invNs
        /\ ~u.running => u'.locked = {} /\ u'.saved = {}
    BY <1>2, <1>3, ReleasedFields DEF SameSession
  <1>5. SessType' /\ SavedWhileLocked' /\ LockOwned' /\ StartingBacked' /\ ViewOwn'
    BY <1>1, <1>4 DEF SessInv, SessType, SavedWhileLocked, LockOwned, StartingBacked, ViewOwn
  <1>6. ~raced' => Alone'
    BY <1>1, <1>4, AloneKept DEF SessInv
  <1> QED BY <1>5, <1>6 DEF SessInv

(* A run that goes on to its next answer keeps its closure. *)
LEMMA NextPc ==
  ASSUME NEW c \in RunCalls, NEW p \in RunPcs
  PROVE  \E r \in RunCalls : /\ r = [c EXCEPT !.pc = p] /\ r.pc = p /\ r.q = c.q
                             /\ r.ns = c.ns /\ r.ctx = c.ctx
  <1> DEFINE r == [c EXCEPT !.pc = p]
  <1>1. r \in RunCalls /\ r.pc = p /\ r.q = c.q /\ r.ns = c.ns /\ r.ctx = c.ctx
    BY DEF RunCalls
  <1> QED BY <1>1

LEMMA NamespaceStep == ASSUME SessInv, NamespaceAnswered PROVE SessInv'
  <1>1. PICK c \in calls :
          /\ c.pc \in {"namespace", "browse"}
          /\ u' = [u EXCEPT !.cluster.ns = c.ns, !.scope = IF @ = NoNs THEN c.ns ELSE @]
          /\ calls' = IF c.pc = "browse" THEN calls \ {c}
                      ELSE (calls \ {c}) \cup {[c EXCEPT !.pc = "start"]}
          /\ UNCHANGED <<svc, raced>>
    BY DEF NamespaceAnswered
  <1>2. u \in Window /\ calls \subseteq CallSet
    BY DEF SessInv, SessType
  <1>3. c.ns \in Namespaces /\ (c.pc = "namespace" => c \in RunCalls)
    BY <1>1, <1>2 DEF CallSet, DiscoverCalls, RunCalls, RunPcs, OtherCalls
  <1>4. /\ u' \in Window /\ u'.cluster.ctx = u.cluster.ctx
        /\ u'.running = u.running /\ u'.starting = u.starting /\ u'.picker = u.picker
        /\ u'.active = u.active /\ u'.view = u.view
        /\ u'.locked = u.locked /\ u'.saved = u.saved /\ u'.invNs = u.invNs
    <2> DEFINE n == IF u.scope = NoNs THEN c.ns ELSE u.scope
               k == [u.cluster EXCEPT !.ns = c.ns]
    <2>1. n \in NsOrNone /\ k \in Clusters /\ k.ctx = u.cluster.ctx
      BY <1>2, <1>3 DEF Window, Clusters, NsOrNone
    <2>2. u' = [u EXCEPT !.cluster = k, !.scope = n]
      BY <1>1, <1>2 DEF Window
    <2> HIDE DEF n, k
    <2> QED BY <1>2, <2>1, <2>2 DEF Window
  <1>5. SavedWhileLocked' /\ LockOwned' /\ ViewOwn'
    BY <1>1, <1>4 DEF SessInv, SavedWhileLocked, LockOwned, ViewOwn
  <1>6. CASE c.pc = "browse"
    <2>1. calls' = calls \ {c} /\ UNCHANGED <<svc, raced>>
      BY <1>1, <1>6
    <2>2. SessType' /\ StartingBacked'
      BY <1>4, <1>6, <2>1 DEF SessInv, SessType, StartingBacked
    <2>3. ~raced' => Alone'
      BY <1>4, <1>6, <2>1, AloneKept DEF SessInv, Passive
    <2> QED BY <1>5, <2>2, <2>3 DEF SessInv
  <1>7. CASE c.pc = "namespace"
    <2>1. PICK r \in RunCalls : /\ r.pc = "start" /\ r.q = c.q /\ r.ns = c.ns /\ r.ctx = c.ctx
                                /\ calls' = (calls \ {c}) \cup {r} /\ UNCHANGED <<svc, raced>>
      <3>1. "start" \in RunPcs /\ c \in RunCalls
        BY <1>3, <1>7 DEF RunPcs
      <3>2. calls' = (calls \ {c}) \cup {[c EXCEPT !.pc = "start"]} /\ UNCHANGED <<svc, raced>>
        BY <1>1, <1>7
      <3> QED BY <3>1, <3>2, NextPc
    <2>2. SessType' /\ StartingBacked'
      BY <1>4, <1>7, <2>1 DEF SessInv, SessType, StartingBacked, CallSet
    <2>3. ASSUME ~raced' PROVE Alone'
      <3>1. Alone /\ \A d \in calls \ {c} : d.pc = "browse"
        BY <1>7, <2>1, <2>3, OthersBrowse DEF SessInv
      <3>2. Agrees(r)'
        BY <1>4, <1>7, <2>1, <3>1 DEF Alone, Agrees
      <3> QED BY <2>1, <3>1, <3>2, AloneRun DEF Passive
    <2> QED BY <1>5, <2>2, <2>3 DEF SessInv
  <1> QED BY <1>1, <1>6, <1>7

(* The steps of a run in the backend leave the window alone. *)
LEMMA BackendStep ==
  ASSUME SessInv, UNCHANGED <<u, raced>>, svc' \in LiveSessions \cup {NoSession},
         NEW c \in calls, c.pc \in {"start", "starting"},
         NEW r \in RunCalls, calls' = (calls \ {c}) \cup {r},
         r.pc \in {"starting", "started", "failed"}, r.q = c.q, r.ns = c.ns, r.ctx = c.ctx,
         r.pc = "started" => svc' = [q |-> r.q, ns |-> r.ns, ctx |-> r.ctx]
  PROVE  SessInv'
  <1>1. SessType' /\ SavedWhileLocked' /\ LockOwned' /\ StartingBacked' /\ ViewOwn'
    BY DEF SessInv, SessType, CallSet, SavedWhileLocked, LockOwned, StartingBacked, ViewOwn
  <1>2. ASSUME ~raced' PROVE Alone'
    <2>1. Alone /\ \A d \in calls \ {c} : d.pc = "browse"
      BY <1>2, OthersBrowse DEF SessInv
    <2>2. Agrees(r)'
      BY <2>1 DEF Alone, Agrees
    <2> QED BY <2>1, <2>2, AloneRun DEF Passive
  <1> QED BY <1>1, <1>2 DEF SessInv

LEMMA BackendBeginsStep == ASSUME SessInv, BackendBegins PROVE SessInv'
  <1>1. PICK c \in calls :
          /\ c.pc = "start" /\ svc' = NoSession /\ UNCHANGED <<u, raced>>
          /\ calls' = (calls \ {c}) \cup {[c EXCEPT !.pc = "starting"]}
    BY DEF BackendBegins
  <1>2. c \in RunCalls
    BY <1>1 DEF SessInv, SessType, CallSet, DiscoverCalls, RunCalls, RunPcs, OtherCalls
  <1>3. PICK r \in RunCalls : /\ r.pc = "starting" /\ r.q = c.q /\ r.ns = c.ns /\ r.ctx = c.ctx
                              /\ calls' = (calls \ {c}) \cup {r}
    BY <1>1, <1>2 DEF RunCalls, RunPcs
  <1> QED BY <1>1, <1>3, BackendStep

LEMMA BackendStartsStep == ASSUME SessInv, BackendStarts PROVE SessInv'
  <1>1. PICK c \in calls :
          /\ c.pc = "starting" /\ UNCHANGED <<u, raced>>
          /\ \/ /\ svc' = [q |-> c.q, ns |-> c.ns, ctx |-> c.ctx]
                /\ calls' = (calls \ {c}) \cup {[c EXCEPT !.pc = "started"]}
             \/ /\ svc' = NoSession
                /\ calls' = (calls \ {c}) \cup {[c EXCEPT !.pc = "failed"]}
    BY DEF BackendStarts
  <1>2. c \in RunCalls
    BY <1>1 DEF SessInv, SessType, CallSet, DiscoverCalls, RunCalls, RunPcs, OtherCalls
  <1>3. PICK r \in RunCalls :
          /\ r.pc \in {"started", "failed"} /\ r.q = c.q /\ r.ns = c.ns /\ r.ctx = c.ctx
          /\ calls' = (calls \ {c}) \cup {r} /\ svc' \in LiveSessions \cup {NoSession}
          /\ r.pc = "started" => svc' = [q |-> r.q, ns |-> r.ns, ctx |-> r.ctx]
    <2>1. CASE svc' = NoSession /\ calls' = (calls \ {c}) \cup {[c EXCEPT !.pc = "failed"]}
      <3>1. "failed" \in RunPcs
        BY DEF RunPcs
      <3> QED BY <1>2, <2>1, <3>1, NextPc
    <2>2. CASE /\ svc' = [q |-> c.q, ns |-> c.ns, ctx |-> c.ctx]
               /\ calls' = (calls \ {c}) \cup {[c EXCEPT !.pc = "started"]}
      <3>1. "started" \in RunPcs
        BY DEF RunPcs
      <3>2. svc' \in LiveSessions
        BY <1>2, <2>2 DEF RunCalls, LiveSessions
      <3>3. PICK r \in RunCalls : /\ r = [c EXCEPT !.pc = "started"] /\ r.pc = "started"
                                  /\ r.q = c.q /\ r.ns = c.ns /\ r.ctx = c.ctx
        BY <1>2, <3>1, NextPc
      <3> QED BY <2>2, <3>2, <3>3
    <2> QED BY <1>1, <2>1, <2>2
  <1> QED BY <1>1, <1>3, BackendStep

LEMMA StartAnsweredStep == ASSUME SessInv, StartAnswered PROVE SessInv'
  <1>1. PICK c \in calls :
          /\ UNCHANGED <<svc, raced>>
          /\ \/ /\ c.pc = "started" /\ u' = [u EXCEPT !.running = TRUE, !.active = c.q]
                /\ calls' = (calls \ {c}) \cup {[pc |-> "view"]}
             \/ c.pc = "failed" /\ u' = Failed(u, c.lens) /\ calls' = calls \ {c}
    BY DEF StartAnswered
  <1>2. u \in Window /\ c \in RunCalls /\ c.q \in Texts
    BY <1>1 DEF SessInv, SessType, CallSet, DiscoverCalls, RunCalls, RunPcs, OtherCalls
  <1>3. ~raced => Alone /\ \A d \in calls \ {c} : d.pc = "browse"
    BY <1>1, OthersBrowse DEF SessInv
  <1>4. CASE c.pc = "failed" /\ u' = Failed(u, c.lens) /\ calls' = calls \ {c}
    <2>1. /\ u' \in Window /\ u'.active = Blank /\ u'.view = EmptyView /\ u'.locked = {} /\ u'.saved = {}
          /\ ~u'.running /\ u'.starting = u.starting /\ u'.picker = u.picker
      BY <1>2, <1>4, FailedFields
    <2>2. SessType' /\ SavedWhileLocked' /\ LockOwned' /\ StartingBacked' /\ ViewOwn'
      BY <1>1, <1>4, <2>1, SessionAssumption
         DEF SessInv, SessType, SavedWhileLocked, LockOwned, StartingBacked, ViewOwn
    <2>3. ~raced' => Alone'
      BY <1>1, <1>3, <1>4, <2>1, AloneAfter
    <2> QED BY <2>2, <2>3 DEF SessInv
  <1>5. CASE /\ c.pc = "started" /\ u' = [u EXCEPT !.running = TRUE, !.active = c.q]
             /\ calls' = (calls \ {c}) \cup {[pc |-> "view"]}
    <2>1. /\ u' \in Window /\ u'.active = c.q /\ u'.running /\ u'.starting = u.starting
          /\ u'.picker = u.picker /\ u'.view = u.view /\ u'.cluster = u.cluster
          /\ u'.locked = u.locked /\ u'.saved = u.saved /\ u'.invNs = u.invNs
      BY <1>2, <1>5 DEF Window
    <2>2. PICK r \in OtherCalls : r.pc = "view" /\ calls' = (calls \ {c}) \cup {r}
      BY <1>5 DEF OtherCalls
    <2>3. SessType' /\ SavedWhileLocked' /\ LockOwned' /\ StartingBacked'
      BY <1>1, <1>5, <2>1, <2>2
         DEF SessInv, SessType, CallSet, SavedWhileLocked, LockOwned, StartingBacked
    <2>4. ~raced => u.active = c.q /\ svc = [q |-> c.q, ns |-> c.ns, ctx |-> c.ctx]
                    /\ u.invNs = c.ns /\ u.locked = {c.ns} /\ u.cluster.ctx = c.ctx
      BY <1>3, <1>5 DEF Alone, Agrees
    <2>5. ViewOwn'
      BY <1>1, <2>1, <2>4 DEF SessInv, ViewOwn
    <2>6. ASSUME ~raced' PROVE Alone'
      <3>1. \A d \in calls' : d.pc = "browse" \/ d = r
        BY <1>1, <1>3, <2>2, <2>6
      <3>2. Owned'
        BY <1>1, <2>1, <2>4, <2>6 DEF Owned
      <3>3. \A d \in calls' : Agrees(d)'
        BY <2>2, <3>1 DEF Agrees
      <3> QED BY <3>1, <3>2, <3>3 DEF Alone
    <2> QED BY <2>3, <2>5, <2>6 DEF SessInv
  <1> QED BY <1>1, <1>4, <1>5

(* A view that arrives waits for its timer. *)
LEMMA PendingStep ==
  ASSUME SessInv, NEW payload \in ViewTexts, u' = [u EXCEPT !.pending = {payload}],
         UNCHANGED <<svc, raced>>,
         calls' = calls \/ \E c \in calls : c.pc = "view" /\ calls' = calls \ {c}
  PROVE  SessInv'
  <1>1. /\ u' \in Window /\ u'.active = u.active /\ u'.running = u.running /\ u'.starting = u.starting
        /\ u'.picker = u.picker /\ u'.view = u.view /\ u'.cluster = u.cluster
        /\ u'.locked = u.locked /\ u'.saved = u.saved /\ u'.invNs = u.invNs
    BY DEF SessInv, SessType, Window
  <1>2. SessType' /\ SavedWhileLocked' /\ LockOwned' /\ StartingBacked' /\ ViewOwn'
    BY <1>1 DEF SessInv, SessType, SavedWhileLocked, LockOwned, StartingBacked, ViewOwn
  <1>3. ~raced' => Alone'
    BY <1>1, AloneKept DEF SessInv, Passive
  <1> QED BY <1>2, <1>3 DEF SessInv

LEMMA SvcView == ASSUME SessInv PROVE ViewOf(svc) \in ViewTexts /\ (svc # NoSession => svc.q \in ViewTexts)
  BY DEF SessInv, SessType, LiveSessions, Texts, ViewTexts, ViewOf

LEMMA ViewAnsweredStep == ASSUME SessInv, ViewAnswered PROVE SessInv'
  BY SvcView, PendingStep DEF ViewAnswered

LEMMA StateEventStep == ASSUME SessInv, StateEvent PROVE SessInv'
  BY SvcView, PendingStep DEF StateEvent

LEMMA FlushStep == ASSUME SessInv, FlushView PROVE SessInv'
  <1>1. PICK payload \in u.pending :
          /\ u' = [u EXCEPT !.pending = {}, !.view = IF Accepts(payload) THEN payload ELSE @]
          /\ UNCHANGED <<svc, calls, raced>>
    BY DEF FlushView
  <1>2. u \in Window /\ payload \in ViewTexts
    BY <1>1 DEF SessInv, SessType, Window
  <1>3. PICK x \in ViewTexts : /\ u' = [u EXCEPT !.pending = {}, !.view = x]
                               /\ x = u.view \/ (x = payload /\ Accepts(payload))
    BY <1>1, <1>2 DEF Window
  <1>4. /\ u' \in Window /\ u'.active = u.active /\ u'.running = u.running /\ u'.starting = u.starting
        /\ u'.picker = u.picker /\ u'.view = x /\ u'.cluster = u.cluster
        /\ u'.locked = u.locked /\ u'.saved = u.saved /\ u'.invNs = u.invNs
    BY <1>2, <1>3 DEF Window
  <1>5. SessType' /\ SavedWhileLocked' /\ LockOwned' /\ StartingBacked'
    BY <1>1, <1>4 DEF SessInv, SessType, SavedWhileLocked, LockOwned, StartingBacked
  <1>6. ViewOwn'
    BY <1>1, <1>3, <1>4 DEF SessInv, ViewOwn, Accepts
  <1>7. ~raced' => Alone'
    BY <1>1, <1>4, AloneKept DEF SessInv
  <1> QED BY <1>5, <1>6, <1>7 DEF SessInv

(* A stop or a context switch that begins. *)
LEMMA BeginStep ==
  ASSUME SessInv, Begins, UNCHANGED <<u, svc>>, NEW r \in OtherCalls, calls' = calls \cup {r},
         r.pc \in {"stop", "context"}, r.pc = "context" => ~u.running,
         u.running /\ u.active # Blank /\ ~raced /\ calls = {} => Owned
  PROVE  SessInv'
  <1>1. SessType' /\ SavedWhileLocked' /\ LockOwned' /\ StartingBacked' /\ ViewOwn'
    BY DEF SessInv, SessType, CallSet, Begins, SavedWhileLocked, LockOwned, StartingBacked, ViewOwn
  <1>2. ASSUME ~raced' PROVE Alone'
    <2>1. calls' = {r} /\ ~raced /\ calls = {}
      BY <1>2 DEF Begins
    <2>2. Agrees(r)'
      BY DEF Agrees
    <2>3. u'.running /\ u'.active # Blank => Owned'
      BY <2>1 DEF Owned
    <2> QED BY <2>1, <2>2, <2>3 DEF Alone
  <1> QED BY <1>1, <1>2 DEF SessInv

LEMMA OwnedAlone == ASSUME SessInv PROVE u.running /\ u.active # Blank /\ ~raced /\ calls = {} => Owned
  BY DEF SessInv, Alone

LEMMA StopStep == ASSUME SessInv, OnStop \/ OnIdle PROVE SessInv'
  <1>1. Begins /\ UNCHANGED <<u, svc>> /\ calls' = calls \cup {[pc |-> "stop", lens |-> u.lens]}
    BY DEF OnStop, OnIdle
  <1>2. u.lens \in Lenses
    BY DEF SessInv, SessType, Window
  <1>3. PICK r \in OtherCalls : r.pc = "stop" /\ calls' = calls \cup {r}
    BY <1>1, <1>2 DEF OtherCalls
  <1> QED BY <1>1, <1>3, OwnedAlone, BeginStep

LEMMA ContextStep == ASSUME SessInv, OnContextChange PROVE SessInv'
  <1>1. PICK x \in Contexts : /\ Begins /\ UNCHANGED <<u, svc>> /\ ~u.running
                              /\ calls' = calls \cup {[pc |-> "context", ctx |-> x]}
    BY DEF OnContextChange
  <1>2. PICK r \in OtherCalls : r.pc = "context" /\ calls' = calls \cup {r}
    BY <1>1 DEF OtherCalls
  <1> QED BY <1>1, <1>2, OwnedAlone, BeginStep

LEMMA StopAnsweredStep == ASSUME SessInv, StopAnswered PROVE SessInv'
  <1>1. PICK c \in calls :
          /\ c.pc = "stop" /\ svc' = NoSession /\ calls' = calls \ {c}
          /\ u' = [Ended(Unlock(u, c.lens)) EXCEPT !.running = FALSE, !.starting = FALSE]
          /\ raced' = (raced /\ calls' # {})
    BY DEF StopAnswered
  <1> DEFINE v == Unlock(u, c.lens)
             e == Ended(v)
  <1>2. u \in Window
    BY DEF SessInv, SessType
  <1>3. v \in Window /\ v.locked = {} /\ v.saved = {}
    BY <1>2, UnlockFields
  <1> HIDE DEF v
  <1>4. e \in Window /\ e.locked = {} /\ e.saved = {} /\ e.active = Blank /\ e.view = EmptyView
    BY <1>3, EndedFields
  <1>5. u' = [e EXCEPT !.running = FALSE, !.starting = FALSE]
    BY <1>1 DEF v
  <1> HIDE DEF e
  <1>6. /\ u' \in Window /\ u'.locked = {} /\ u'.saved = {} /\ u'.active = Blank /\ u'.view = EmptyView
        /\ ~u'.running /\ ~u'.starting
    BY <1>4, <1>5 DEF Window
  <1>7. SessType' /\ SavedWhileLocked' /\ LockOwned' /\ StartingBacked' /\ ViewOwn'
    BY <1>1, <1>6, SessionAssumption
       DEF SessInv, SessType, SavedWhileLocked, LockOwned, StartingBacked, ViewOwn
  <1>8. ASSUME ~raced' PROVE Alone'
    <2>1. \A d \in calls' : d.pc = "browse"
      BY <1>1, <1>8, OthersBrowse DEF SessInv
    <2> QED BY <1>6, <2>1, AloneAfter
  <1> QED BY <1>7, <1>8 DEF SessInv

LEMMA ContextAnsweredStep == ASSUME SessInv, ContextAnswered PROVE SessInv'
  <1>1. PICK c \in calls, ns \in NsOrNone :
          /\ c.pc = "context" /\ calls' = calls \ {c} /\ UNCHANGED <<svc, raced>>
          /\ u' = [[u EXCEPT !.cluster = [ctx |-> c.ctx, ns |-> ns]] EXCEPT
                     !.browse = IF c.ctx # u.cluster.ctx THEN AllScope ELSE @,
                     !.scope  = IF c.ctx # u.cluster.ctx \/ @ = NoNs THEN ns ELSE @]
    BY DEF ContextAnswered, NsOrNone
  <1>2. u \in Window /\ c.ctx \in Contexts
    BY <1>1 DEF SessInv, SessType, CallSet, DiscoverCalls, RunCalls, RunPcs, OtherCalls
  <1>3. /\ u' \in Window /\ u'.active = u.active /\ u'.running = u.running /\ u'.starting = u.starting
        /\ u'.picker = u.picker /\ u'.view = u.view
        /\ u'.locked = u.locked /\ u'.saved = u.saved /\ u'.invNs = u.invNs
    <2> DEFINE k == [ctx |-> c.ctx, ns |-> ns]
               b == IF c.ctx # u.cluster.ctx THEN AllScope ELSE u.browse
               n == IF c.ctx # u.cluster.ctx \/ u.scope = NoNs THEN ns ELSE u.scope
    <2>1. k \in Clusters /\ b \in Scopes /\ n \in NsOrNone
      BY <1>2, ScopeNames DEF Window, Clusters
    <2>2. u' = [u EXCEPT !.cluster = k, !.browse = b, !.scope = n]
      BY <1>1, <1>2 DEF Window
    <2> HIDE DEF k, b, n
    <2> QED BY <1>2, <2>1, <2>2 DEF Window
  <1>4. SessType' /\ SavedWhileLocked' /\ LockOwned' /\ StartingBacked' /\ ViewOwn'
    BY <1>1, <1>3 DEF SessInv, SessType, SavedWhileLocked, LockOwned, StartingBacked, ViewOwn
  <1>5. ASSUME ~raced' PROVE Alone'
    <2>1. Alone /\ \A d \in calls' : d.pc = "browse"
      BY <1>1, <1>5, OthersBrowse DEF SessInv
    <2>2. ~u'.running
      BY <1>1, <1>3, <2>1 DEF Alone, Agrees
    <2> QED BY <2>1, <2>2, AloneAfter
  <1> QED BY <1>4, <1>5 DEF SessInv

LEMMA InvestigationScopeStep == ASSUME SessInv, OnInvestigationScopeChange PROVE SessInv'
  <1>1. PICK ns \in Namespaces : u' = [u EXCEPT !.scope = ns] /\ UNCHANGED <<svc, calls, raced>>
    BY DEF OnInvestigationScopeChange
  <1>2. /\ u' \in Window /\ u'.active = u.active /\ u'.running = u.running /\ u'.starting = u.starting
        /\ u'.picker = u.picker /\ u'.view = u.view /\ u'.cluster = u.cluster
        /\ u'.locked = u.locked /\ u'.saved = u.saved /\ u'.invNs = u.invNs
    BY <1>1 DEF SessInv, SessType, Window, NsOrNone
  <1>3. SessType' /\ SavedWhileLocked' /\ LockOwned' /\ StartingBacked' /\ ViewOwn'
    BY <1>1, <1>2 DEF SessInv, SessType, SavedWhileLocked, LockOwned, StartingBacked, ViewOwn
  <1>4. ~raced' => Alone'
    BY <1>1, <1>2, AloneKept DEF SessInv
  <1> QED BY <1>3, <1>4 DEF SessInv

LEMMA BrowseScopeStep == ASSUME SessInv, OnBrowseScopeChange PROVE SessInv'
  <1>1. PICK s \in Scopes :
          /\ u' = [u EXCEPT !.browse = s] /\ UNCHANGED <<svc, raced>>
          /\ \/ calls' = calls
             \/ \E n \in s.ns : calls' = calls \cup {[pc |-> "browse", ns |-> n]}
    BY DEF OnBrowseScopeChange
  <1>2. /\ u' \in Window /\ u'.active = u.active /\ u'.running = u.running /\ u'.starting = u.starting
        /\ u'.picker = u.picker /\ u'.view = u.view /\ u'.cluster = u.cluster
        /\ u'.locked = u.locked /\ u'.saved = u.saved /\ u'.invNs = u.invNs
    BY <1>1 DEF SessInv, SessType, Window
  <1>3. \/ calls' = calls
        \/ \E r \in OtherCalls : r.pc = "browse" /\ calls' = calls \cup {r}
    BY <1>1, ScopeNames DEF OtherCalls
  <1>4. SessType' /\ SavedWhileLocked' /\ LockOwned' /\ StartingBacked' /\ ViewOwn'
    BY <1>1, <1>2, <1>3
       DEF SessInv, SessType, CallSet, SavedWhileLocked, LockOwned, StartingBacked, ViewOwn
  <1>5. ~raced' => Alone'
    BY <1>1, <1>2, <1>3, AloneKept DEF SessInv
  <1> QED BY <1>4, <1>5 DEF SessInv

LEMMA LensStep == ASSUME SessInv, OnLensChange PROVE SessInv'
  <1>1. u \in Window /\ UNCHANGED <<svc, calls, raced>>
        /\ u' = [u EXCEPT !.lens = IF u.lens = "matches" THEN "all" ELSE "matches"]
    BY DEF SessInv, SessType, OnLensChange
  <1>2. /\ u' \in Window /\ u'.active = u.active /\ u'.running = u.running /\ u'.starting = u.starting
        /\ u'.picker = u.picker /\ u'.view = u.view /\ u'.cluster = u.cluster
        /\ u'.locked = u.locked /\ u'.saved = u.saved /\ u'.invNs = u.invNs
    BY <1>1 DEF Window, Lenses
  <1>3. SessType' /\ SavedWhileLocked' /\ LockOwned' /\ StartingBacked' /\ ViewOwn'
    BY <1>1, <1>2 DEF SessInv, SessType, SavedWhileLocked, LockOwned, StartingBacked, ViewOwn
  <1>4. ~raced' => Alone'
    BY <1>1, <1>2, AloneKept DEF SessInv
  <1> QED BY <1>3, <1>4 DEF SessInv

LEMMA SessStutter == ASSUME SessInv, UNCHANGED sessVars PROVE SessInv'
  BY DEF sessVars, SessInv, SessType, SavedWhileLocked, LockOwned, StartingBacked, ViewOwn,
         Alone, Agrees, Owned
-----------------------------------------------------------------------------
(* Every step, of whatever handler and with whatever others unanswered. *)
LEMMA SessStep == ASSUME SessInv, [SessNext]_sessVars PROVE SessInv'
  BY StartStep, DiscoverStep, ScopeConfirmStep, ScopeCancelStep, NamespaceStep, BackendBeginsStep,
     BackendStartsStep, StartAnsweredStep, ViewAnsweredStep, StateEventStep, FlushStep, StopStep,
     StopAnsweredStep, ContextStep, ContextAnsweredStep, InvestigationScopeStep, BrowseScopeStep,
     LensStep, SessStutter DEF SessNext

(* However starts, stops, failures, switches and late events of investigations
   overlap, the window's lock is given back with what it saved, the search bar
   is never left disabled, and what the window shows of a session is that
   session's (App.jsx:470). *)
THEOREM SessionSafe == SessSpec => []SessionHolds
  <1>1. SessInit => SessInv
    BY InitInv
  <1>2. SessInv /\ [SessNext]_sessVars => SessInv'
    BY SessStep
  <1>3. SessInv => SessionHolds
    BY InvHolds
  <1> QED BY <1>1, <1>2, <1>3, PTL DEF SessSpec

-----------------------------------------------------------------------------
(* The console: tabs, as they are made for a context *)
Tabs == [id : Nat, ctx : Ctxs, pod : Pods \cup {NoPod}]

(* tabs of context c, of ids made before id, no two of one id *)
TabsOf(s, c, id) ==
  /\ s \in Seq(Tabs)
  /\ \A i \in 1 .. Len(s) : s[i].ctx = c /\ s[i].id < id
  /\ \A i, j \in 1 .. Len(s) : s[i].id = s[j].id => i = j

Apart(s, t) == \A i \in 1 .. Len(s), j \in 1 .. Len(t) : s[i].id # t[j].id

(* the tabs of all contexts *)
Sorted(f, id) ==
  /\ \A c \in Ctxs : TabsOf(f[c], c, id)
  /\ \A c, d \in Ctxs : c # d => Apart(f[c], f[d])

CachedTabs == [tabs : Seq(Tabs), active : Nat \cup {NoTab}]

(* what a context has: the tabs on screen in context c, the cached ones elsewhere *)
Shelf(kept, c, s) == [k \in Ctxs |-> IF k = c THEN s ELSE kept[k].tabs]

ActiveIn(active, s) == active = NoTab \/ \E i \in 1 .. Len(s) : active = s[i].id
-----------------------------------------------------------------------------
LEMMA IdsAre == ASSUME NEW s PROVE \A x : x \in Ids(s) <=> \E i \in 1 .. Len(s) : x = s[i].id
  BY DEF Ids

(* A new tab takes an id nobody has. *)
LEMMA SortedAdd ==
  ASSUME NEW f, NEW id \in Nat, Sorted(f, id), NEW c \in Ctxs, NEW pod \in Pods \cup {NoPod},
         NEW g, \A d \in Ctxs : g[d] = IF d = c THEN Append(f[c], [id |-> id, ctx |-> c, pod |-> pod]) ELSE f[d]
  PROVE  Sorted(g, id + 1)
  <1>1. PICK t : t = [id |-> id, ctx |-> c, pod |-> pod]
    OBVIOUS
  <1>2. PICK s : s = f[c]
    OBVIOUS
  <1>3. PICK a : a = Append(s, t)
    OBVIOUS
  <1>4. TabsOf(s, c, id) /\ \A d \in Ctxs : TabsOf(f[d], d, id)
    BY <1>2 DEF Sorted
  <1>5. t \in Tabs /\ t.id = id /\ t.ctx = c
    BY <1>1 DEF Tabs
  <1>6. /\ a \in Seq(Tabs) /\ Len(a) = Len(s) + 1 /\ a[Len(s) + 1] = t /\ Len(s) \in Nat
        /\ \A i \in 1 .. Len(s) : a[i] = s[i]
    BY <1>3, <1>4, <1>5, AppendProperties, LenProperties DEF TabsOf
  <1>7. \A i \in 1 .. Len(a) : a[i] = t \/ (i \in 1 .. Len(s) /\ a[i] = s[i])
    BY <1>6
  <1>n. \A d \in Ctxs : \A i \in 1 .. Len(f[d]) : f[d][i].id \in Nat /\ f[d][i].id < id
    <2> SUFFICES ASSUME NEW d \in Ctxs, NEW i \in 1 .. Len(f[d]) PROVE f[d][i].id \in Nat /\ f[d][i].id < id
      OBVIOUS
    <2>1. f[d] \in Seq(Tabs) /\ f[d][i].id < id
      BY <1>4 DEF TabsOf
    <2>2. f[d][i] \in Tabs
      BY <2>1, ElementOfSeq
    <2> QED BY <2>1, <2>2 DEF Tabs
  <1>8. TabsOf(a, c, id + 1)
    <2>1. \A i \in 1 .. Len(a) : a[i].ctx = c /\ a[i].id < id + 1
      BY <1>2, <1>4, <1>5, <1>7, <1>n DEF TabsOf
    <2>2. ASSUME NEW i \in 1 .. Len(a), NEW j \in 1 .. Len(a), a[i].id = a[j].id PROVE i = j
      <3>1. \A k \in 1 .. Len(s) : s[k].id # id
        BY <1>2, <1>n
      <3>2. CASE i \in 1 .. Len(s) /\ j \in 1 .. Len(s)
        BY <1>4, <1>6, <2>2, <3>2 DEF TabsOf
      <3>3. CASE i = Len(s) + 1 /\ j \in 1 .. Len(s)
        BY <1>5, <1>6, <2>2, <3>1, <3>3
      <3>4. CASE j = Len(s) + 1 /\ i \in 1 .. Len(s)
        BY <1>5, <1>6, <2>2, <3>1, <3>4
      <3> QED BY <1>6, <3>2, <3>3, <3>4
    <2> QED BY <1>6, <2>1, <2>2 DEF TabsOf
  <1>9. \A d \in Ctxs : TabsOf(f[d], d, id + 1)
    BY <1>4, <1>n DEF TabsOf
  <1>10. ASSUME NEW d \in Ctxs, d # c PROVE Apart(a, f[d]) /\ Apart(f[d], a)
    <2>1. Apart(s, f[d]) /\ Apart(f[d], s)
      BY <1>2, <1>10 DEF Sorted
    <2>2. \A j \in 1 .. Len(f[d]) : f[d][j].id # id
      BY <1>n
    <2> QED BY <1>5, <1>7, <2>1, <2>2 DEF Apart
  <1>11. g[c] = a /\ \A d \in Ctxs : d # c => g[d] = f[d]
    BY <1>1, <1>2, <1>3
  <1>12. \A d \in Ctxs : TabsOf(g[d], d, id + 1)
    BY <1>8, <1>9, <1>11
  <1>13. ASSUME NEW d \in Ctxs, NEW e \in Ctxs, d # e PROVE Apart(g[d], g[e])
    <2>1. CASE d = c
      BY <1>10, <1>11, <1>13, <2>1
    <2>2. CASE e = c
      BY <1>10, <1>11, <1>13, <2>2
    <2>3. CASE d # c /\ e # c
      BY <1>11, <1>13, <2>3 DEF Sorted
    <2> QED BY <2>1, <2>2, <2>3
  <1> QED BY <1>12, <1>13 DEF Sorted

(* Tabs may go: what is left of a context is some of its tabs. *)
SomeOf(r, s) ==
  /\ r \in Seq(Tabs)
  /\ \E m \in [1 .. Len(r) -> 1 .. Len(s)] :
       (\A i \in 1 .. Len(r) : r[i] = s[m[i]]) /\ \A i, j \in 1 .. Len(r) : m[i] = m[j] => i = j

LEMMA SortedLess ==
  ASSUME NEW f, NEW id, Sorted(f, id), NEW c \in Ctxs, NEW r, SomeOf(r, f[c]),
         NEW g, \A d \in Ctxs : g[d] = IF d = c THEN r ELSE f[d]
  PROVE  Sorted(g, id)
  <1>1. PICK m \in [1 .. Len(r) -> 1 .. Len(f[c])] :
          (\A i \in 1 .. Len(r) : r[i] = f[c][m[i]]) /\ \A i, j \in 1 .. Len(r) : m[i] = m[j] => i = j
    BY DEF SomeOf
  <1>2. TabsOf(f[c], c, id)
    BY DEF Sorted
  <1>3. TabsOf(r, c, id)
    <2>1. r \in Seq(Tabs)
      BY DEF SomeOf
    <2>2. \A i \in 1 .. Len(r) : m[i] \in 1 .. Len(f[c]) /\ r[i] = f[c][m[i]]
      BY <1>1
    <2>3. \A i \in 1 .. Len(r) : r[i].ctx = c /\ r[i].id < id
      BY <1>2, <2>2 DEF TabsOf
    <2>4. ASSUME NEW i \in 1 .. Len(r), NEW j \in 1 .. Len(r), r[i].id = r[j].id PROVE i = j
      <3>1. f[c][m[i]].id = f[c][m[j]].id /\ m[i] \in 1 .. Len(f[c]) /\ m[j] \in 1 .. Len(f[c])
        BY <2>2, <2>4
      <3>2. \A k, l \in 1 .. Len(f[c]) : f[c][k].id = f[c][l].id => k = l
        BY <1>2 DEF TabsOf
      <3>3. m[i] = m[j]
        BY ONLY <3>1, <3>2
      <3> QED BY <1>1, <3>3
    <2> QED BY <2>1, <2>3, <2>4 DEF TabsOf
  <1>4. ASSUME NEW d \in Ctxs, d # c PROVE Apart(r, f[d]) /\ Apart(f[d], r)
    <2>1. Apart(f[c], f[d]) /\ Apart(f[d], f[c])
      BY <1>4 DEF Sorted
    <2>2. \A i \in 1 .. Len(r) : m[i] \in 1 .. Len(f[c]) /\ r[i].id = f[c][m[i]].id
      BY <1>1
    <2>3. ASSUME NEW i \in 1 .. Len(r), NEW j \in 1 .. Len(f[d]) PROVE r[i].id # f[d][j].id
      <3>1. PICK k \in 1 .. Len(f[c]) : r[i].id = f[c][k].id
        BY <2>2
      <3>2. f[c][k].id # f[d][j].id
        BY <2>1 DEF Apart
      <3> QED BY <3>1, <3>2
    <2> QED BY <2>3 DEF Apart
  <1>5. \A d \in Ctxs : TabsOf(g[d], d, id)
    BY <1>3 DEF Sorted
  <1>6. ASSUME NEW d \in Ctxs, NEW e \in Ctxs, d # e PROVE Apart(g[d], g[e])
    <2>1. CASE d = c
      BY <1>4, <1>6, <2>1
    <2>2. CASE e = c
      BY <1>4, <1>6, <2>2
    <2>3. CASE d # c /\ e # c
      BY <1>6, <2>3 DEF Sorted
    <2> QED BY <2>1, <2>2, <2>3
  <1> QED BY <1>5, <1>6 DEF Sorted

LEMMA SortedEmpty ==
  ASSUME NEW f, NEW id, Sorted(f, id), NEW c \in Ctxs,
         NEW g, \A d \in Ctxs : g[d] = IF d = c THEN <<>> ELSE f[d]
  PROVE  Sorted(g, id)
  <1>1. PICK r : r = <<>>
    OBVIOUS
  <1>2. r \in Seq(Tabs) /\ Len(r) = 0
    BY <1>1
  <1>3. SomeOf(r, f[c])
    <2>0. 1 .. Len(r) = {}
      BY <1>2
    <2>1. PICK m : m = [i \in 1 .. Len(r) |-> 1]
      OBVIOUS
    <2>2. m \in [1 .. Len(r) -> 1 .. Len(f[c])]
      BY <2>0, <2>1
    <2>3. (\A i \in 1 .. Len(r) : r[i] = f[c][m[i]]) /\ \A i, j \in 1 .. Len(r) : m[i] = m[j] => i = j
      BY <2>0
    <2> QED BY <1>2, <2>2, <2>3 DEF SomeOf
  <1>4. \A d \in Ctxs : g[d] = IF d = c THEN r ELSE f[d]
    BY <1>1
  <1> QED BY <1>3, <1>4, SortedLess

(* One tab of a sequence goes: all others stay. *)
Removed(r, s, i) ==
  /\ SomeOf(r, s) /\ Len(r) = Len(s) - 1
  /\ \A j \in 1 .. Len(s) : j # i => \E k \in 1 .. Len(r) : r[k] = s[j]

LEMMA RemoveFacts ==
  ASSUME NEW s \in Seq(Tabs), NEW i \in 1 .. Len(s), NEW r, r = RemoveAt(s, i)
  PROVE  Removed(r, s, i)
  <1>0. Len(s) \in Nat /\ \A j \in 1 .. Len(s) : s[j] \in Tabs
    BY LenProperties, ElementOfSeq
  <1>1. PICK a : a = SubSeq(s, 1, i - 1)
    OBVIOUS
  <1>2. PICK b : b = SubSeq(s, i + 1, Len(s))
    OBVIOUS
  <1>3. a \in Seq(Tabs) /\ Len(a) = i - 1 /\ \A j \in 1 .. i - 1 : a[j] = s[j]
    <2>1. \A j \in 1 .. i - 1 : s[j] \in Tabs
      BY <1>0
    <2> QED BY <1>0, <1>1, <2>1, SubSeqProperties
  <1>4. b \in Seq(Tabs) /\ Len(b) = Len(s) - i /\ \A j \in 1 .. Len(s) - i : b[j] = s[i + j]
    <2>1. \A j \in i + 1 .. Len(s) : s[j] \in Tabs
      BY <1>0
    <2>2. /\ b \in Seq(Tabs)
          /\ Len(b) = IF i + 1 <= Len(s) THEN Len(s) - (i + 1) + 1 ELSE 0
          /\ \A j \in 1 .. Len(s) - (i + 1) + 1 : b[j] = s[(i + 1) + j - 1]
      BY <1>0, <1>2, <2>1, SubSeqProperties
    <2> QED BY <1>0, <2>2
  <1>5. r = a \o b
    BY <1>1, <1>2 DEF RemoveAt
  <1>6. /\ r \in Seq(Tabs) /\ Len(r) = Len(s) - 1
        /\ \A k \in 1 .. Len(r) : r[k] = IF k < i THEN s[k] ELSE s[k + 1]
    <2>1. r \in Seq(Tabs) /\ Len(r) = Len(a) + Len(b)
      BY <1>3, <1>4, <1>5, ConcatProperties
    <2>2. Len(r) = Len(s) - 1
      BY <1>0, <1>3, <1>4, <2>1
    <2>3. \A k \in 1 .. Len(r) : r[k] = IF k <= Len(a) THEN a[k] ELSE b[k - Len(a)]
      BY <1>3, <1>4, <1>5, ConcatProperties
    <2>4. ASSUME NEW k \in 1 .. Len(r) PROVE r[k] = IF k < i THEN s[k] ELSE s[k + 1]
      <3>1. CASE k < i
        BY <1>0, <1>3, <2>3, <3>1
      <3>2. CASE k >= i
        <4>1. k - Len(a) \in 1 .. Len(s) - i /\ i + (k - Len(a)) = k + 1 /\ ~ (k <= Len(a))
          BY <1>0, <1>3, <2>2, <3>2
        <4>2. r[k] = b[k - Len(a)]
          BY <2>3, <4>1
        <4>3. b[k - Len(a)] = s[i + (k - Len(a))]
          BY <1>4, <4>1
        <4>4. i \in Int /\ k \in Int
          BY <2>1
        <4> QED BY <3>2, <4>1, <4>2, <4>3, <4>4
      <3> QED BY <3>1, <3>2
    <2> QED BY <2>1, <2>2, <2>4
  <1>7. SomeOf(r, s)
    <2>1. PICK m : m = [k \in 1 .. Len(r) |-> IF k < i THEN k ELSE k + 1]
      OBVIOUS
    <2>2. m \in [1 .. Len(r) -> 1 .. Len(s)]
      BY <1>0, <1>6, <2>1
    <2>3. \A k \in 1 .. Len(r) : r[k] = s[m[k]]
      BY <1>6, <2>1
    <2>4. \A k, l \in 1 .. Len(r) : m[k] = m[l] => k = l
      BY <1>0, <1>6, <2>1
    <2> QED BY <1>6, <2>2, <2>3, <2>4 DEF SomeOf
  <1>8. ASSUME NEW j \in 1 .. Len(s), j # i PROVE \E k \in 1 .. Len(r) : r[k] = s[j]
    <2>1. CASE j < i
      BY <1>0, <1>6, <2>1
    <2>2. CASE j > i
      <3>1. j - 1 \in 1 .. Len(r) /\ ~ (j - 1 < i) /\ (j - 1) + 1 = j
        BY <1>0, <1>6, <2>2
      <3> QED BY <1>6, <3>1
    <2> QED BY <1>8, <2>1, <2>2
  <1> QED BY <1>6, <1>7, <1>8 DEF Removed

(* As many ids as tabs. *)
LEMMA OneIdEach ==
  ASSUME NEW s, NEW c, NEW id, TabsOf(s, c, id)
  PROVE  Cardinality(Ids(s)) = Len(s)
  <1>1. Len(s) \in Nat
    BY LenProperties DEF TabsOf
  <1>2. IsFiniteSet(1 .. Len(s)) /\ Cardinality(1 .. Len(s)) = Len(s)
    <2>1. 1 \in Int /\ Len(s) \in Int
      BY <1>1
    <2>2. /\ IsFiniteSet(1 .. Len(s))
          /\ Cardinality(1 .. Len(s)) = IF 1 > Len(s) THEN 0 ELSE Len(s) - 1 + 1
      BY <2>1, FS_Interval
    <2> QED BY <1>1, <2>2
  <1>3. PICK m : m = [i \in 1 .. Len(s) |-> s[i].id]
    OBVIOUS
  <1>4. m \in Bijection(1 .. Len(s), Ids(s))
    <2>1. m \in [1 .. Len(s) -> Ids(s)]
      BY <1>3 DEF Ids
    <2>2. \A i, j \in 1 .. Len(s) : m[i] = m[j] => i = j
      BY <1>3 DEF TabsOf
    <2>3. \A x \in Ids(s) : \E i \in 1 .. Len(s) : m[i] = x
      BY <1>3 DEF Ids
    <2> QED BY <2>1, <2>2, <2>3 DEF Bijection, Injection, Surjection, IsInjective
  <1>5. ExistsBijection(1 .. Len(s), Ids(s))
    BY <1>4 DEF ExistsBijection
  <1> QED BY <1>2, <1>5, FS_Bijection
-----------------------------------------------------------------------------
IsBatch(b) == DOMAIN b = {"p", "ctx", "cache", "id", "request", "tabs", "active", "batched", "made"}

IsPanel(p) == DOMAIN p = {"tabs", "active", "split", "seeded", "ctxRef"}

TabOf(id, c, pod) == [id |-> id, ctx |-> c, pod |-> pod]

LEMMA AddTabFacts ==
  ASSUME NEW b, IsBatch(b), NEW pod, NEW eager, NEW r, r = AddTab(b, pod, eager)
  PROVE  /\ IsBatch(r) /\ r.p = b.p /\ r.ctx = b.ctx /\ r.cache = b.cache /\ r.request = b.request
         /\ r.id = b.id + 1 /\ r.tabs = Append(b.tabs, TabOf(b.id, b.ctx, pod))
         /\ (r.active = b.id \/ r.active = NoTab)
         /\ r.made = IF pod = NoPod THEN b.made ELSE b.made + 1
  <1>1. IsBatch(r)
    BY DEF IsBatch, AddTab
  <1>2. /\ r.p = b.p /\ r.ctx = b.ctx /\ r.cache = b.cache /\ r.request = b.request
        /\ r.id = b.id + 1 /\ r.tabs = Append(b.tabs, TabOf(b.id, b.ctx, pod))
        /\ r.made = IF pod = NoPod THEN b.made ELSE b.made + 1
    BY DEF IsBatch, AddTab, TabOf
  <1>3. r.active = b.id \/ r.active = NoTab
    BY DEF IsBatch, AddTab
  <1> QED BY <1>1, <1>2, <1>3

LEMMA CacheFacts ==
  ASSUME NEW b, IsBatch(b), NEW k \in Ctxs, DOMAIN b.cache = Ctxs, NEW r, r = CacheTabs(b, k)
  PROVE  /\ IsBatch(r) /\ r.p = b.p /\ r.ctx = b.ctx /\ r.id = b.id /\ r.request = b.request
         /\ r.tabs = b.tabs /\ r.active = b.active /\ r.made = b.made
         /\ r.cache = [c \in Ctxs |-> IF c = k THEN [tabs |-> b.p.tabs, active |-> b.p.active] ELSE b.cache[c]]
  <1>1. IsBatch(r)
    BY DEF IsBatch, CacheTabs
  <1>2. /\ r.p = b.p /\ r.ctx = b.ctx /\ r.id = b.id /\ r.request = b.request
        /\ r.tabs = b.tabs /\ r.active = b.active /\ r.made = b.made
    BY DEF IsBatch, CacheTabs
  <1>3. r.cache = [b.cache EXCEPT ![k] = [tabs |-> b.p.tabs, active |-> b.p.active]]
    BY DEF IsBatch, CacheTabs
  <1>4. \A f : DOMAIN f = Ctxs => [f EXCEPT ![k] = [tabs |-> b.p.tabs, active |-> b.p.active]] = [c \in Ctxs |-> IF c = k THEN [tabs |-> b.p.tabs, active |-> b.p.active] ELSE f[c]]
    OBVIOUS
  <1> QED BY <1>1, <1>2, <1>3, <1>4

LEMMA OpenFacts ==
  ASSUME NEW b, IsBatch(b), IsPanel(b.p), b.cache[b.ctx].tabs = b.p.tabs, NEW eager, NEW r, r = OpenEffect(b, eager)
  PROVE  /\ IsBatch(r) /\ IsPanel(r.p) /\ r.ctx = b.ctx /\ r.cache = b.cache /\ r.request = b.request
         /\ r.made = b.made /\ r.p.ctxRef = b.p.ctxRef
         /\ \/ r = b /\ (b.p.tabs = <<>> /\ b.request = NoPod => b.p.seeded)
            \/ /\ b.p.tabs = <<>> /\ ~ b.p.seeded /\ b.request = NoPod
               /\ r.id = b.id + 1 /\ r.tabs = Append(b.tabs, TabOf(b.id, b.ctx, NoPod))
               /\ (r.active = b.id \/ r.active = NoTab)
  <1>1. CASE b.p.tabs # <<>> \/ b.p.seeded \/ b.request # NoPod
    <2>1. r = b
      BY <1>1 DEF OpenEffect
    <2> QED BY <1>1, <2>1
  <1>2. CASE b.p.tabs = <<>> /\ ~ b.p.seeded /\ b.request = NoPod
    <2>1. PICK m : m = [b EXCEPT !.p.seeded = TRUE]
      OBVIOUS
    <2>2. r = AddTab(m, NoPod, eager)
      BY <1>2, <2>1 DEF OpenEffect
    <2>3. IsBatch(m) /\ m.ctx = b.ctx /\ m.cache = b.cache /\ m.request = b.request /\ m.id = b.id
          /\ m.tabs = b.tabs /\ m.made = b.made
      BY <2>1 DEF IsBatch
    <2>4. IsPanel(m.p) /\ m.p.ctxRef = b.p.ctxRef
      <3>1. m.p = [b.p EXCEPT !.seeded = TRUE]
        BY <2>1 DEF IsBatch
      <3>2. PICK q : q = b.p
        OBVIOUS
      <3>3. IsPanel(q) /\ m.p = [q EXCEPT !.seeded = TRUE]
        BY <3>1, <3>2
      <3> QED BY <3>2, <3>3 DEF IsPanel
    <2> QED BY <1>2, <2>2, <2>3, <2>4, AddTabFacts
  <1> QED BY <1>1, <1>2

LEMMA LaunchFacts ==
  ASSUME NEW b, IsBatch(b), NEW eager, NEW r, r = LaunchEffect(b, eager)
  PROVE  /\ IsBatch(r) /\ r.p = b.p /\ r.ctx = b.ctx /\ r.cache = b.cache /\ r.request = NoPod
         /\ r.made = IF b.request = NoPod THEN b.made ELSE b.made + 1
         /\ \/ r = b /\ b.request = NoPod
            \/ /\ b.request # NoPod
               /\ r.id = b.id + 1 /\ r.tabs = Append(b.tabs, TabOf(b.id, b.ctx, b.request))
               /\ (r.active = b.id \/ r.active = NoTab)
  <1>1. CASE b.request = NoPod
    BY <1>1 DEF LaunchEffect
  <1>2. CASE b.request # NoPod
    <2>1. PICK m : m = [b EXCEPT !.request = NoPod]
      OBVIOUS
    <2>2. r = AddTab(m, b.request, eager)
      BY <1>2, <2>1 DEF LaunchEffect
    <2>3. IsBatch(m) /\ m.p = b.p /\ m.ctx = b.ctx /\ m.cache = b.cache /\ m.request = NoPod /\ m.id = b.id
          /\ m.tabs = b.tabs /\ m.made = b.made
      BY <2>1 DEF IsBatch
    <2> QED BY <1>2, <2>2, <2>3, AddTabFacts
  <1> QED BY <1>1, <1>2

LEMMA ContextFacts ==
  ASSUME NEW b, IsBatch(b), IsPanel(b.p), b.ctx \in Ctxs, b.p.ctxRef \in Ctxs, b.p.ctxRef # b.ctx,
         DOMAIN b.cache = Ctxs, NEW r, r = ContextEffect(b)
  PROVE  /\ IsBatch(r) /\ IsPanel(r.p) /\ r.ctx = b.ctx /\ r.id = b.id /\ r.request = b.request /\ r.made = b.made
         /\ r.p.ctxRef = b.ctx /\ r.p.tabs = b.p.tabs /\ r.p.active = b.p.active
         /\ r.tabs = b.cache[b.ctx].tabs
         /\ r.active = PickActive(b.cache[b.ctx].active, b.cache[b.ctx].tabs)
         /\ r.cache = [c \in Ctxs |-> IF c = b.p.ctxRef THEN [tabs |-> b.p.tabs, active |-> b.p.active] ELSE b.cache[c]]
  <1>1. PICK k : k = CacheTabs(b, b.p.ctxRef)
    OBVIOUS
  <1>2. /\ IsBatch(k) /\ k.p = b.p /\ k.ctx = b.ctx /\ k.id = b.id /\ k.request = b.request
        /\ k.tabs = b.tabs /\ k.active = b.active /\ k.made = b.made
        /\ k.cache = [c \in Ctxs |-> IF c = b.p.ctxRef THEN [tabs |-> b.p.tabs, active |-> b.p.active] ELSE b.cache[c]]
    BY <1>1, CacheFacts
  <1>3. PICK old : old = b.cache[b.ctx]
    OBVIOUS
  <1>4. PICK m : m = [k EXCEPT !.p.ctxRef = b.ctx, !.p.seeded = old.tabs # <<>>]
    OBVIOUS
  <1>5. r = LoadFromCache(m, old)
    <2>1. r = LoadFromCache([CacheTabs(b, b.p.ctxRef) EXCEPT !.p.ctxRef = b.ctx,
                        !.p.seeded = b.cache[b.ctx].tabs # <<>>], b.cache[b.ctx])
      BY Zenon DEF ContextEffect
    <2> QED BY <1>1, <1>3, <1>4, <2>1, Zenon
  <1>6. IsBatch(m) /\ m.ctx = b.ctx /\ m.id = b.id /\ m.request = b.request /\ m.made = b.made /\ m.cache = k.cache
    <2>1. IsBatch(m) /\ m.ctx = k.ctx /\ m.id = k.id /\ m.request = k.request /\ m.made = k.made /\ m.cache = k.cache
      BY <1>2, <1>4 DEF IsBatch
    <2> QED BY <1>2, <2>1
  <1>7. IsPanel(m.p) /\ m.p.ctxRef = b.ctx /\ m.p.tabs = b.p.tabs /\ m.p.active = b.p.active
    <2>1. PICK d : d = (old.tabs # <<>>)
      OBVIOUS
    <2>2. PICK q : q = b.p
      OBVIOUS
    <2>3. m.p = [q EXCEPT !.ctxRef = b.ctx, !.seeded = d]
      <3>1. PICK n : n = [q EXCEPT !.ctxRef = b.ctx]
        OBVIOUS
      <3>2. k.p = q /\ m = [k EXCEPT !.p.ctxRef = b.ctx, !.p.seeded = d]
        BY <1>2, <1>4, <2>1, <2>2
      <3> QED BY <1>2, <3>2 DEF IsBatch
    <2>4. IsPanel(q)
      BY <2>2
    <2>5. IsPanel(m.p) /\ m.p.ctxRef = b.ctx /\ m.p.tabs = q.tabs /\ m.p.active = q.active
      BY <2>3, <2>4 DEF IsPanel
    <2> QED BY <2>2, <2>5
  <1>8. /\ IsBatch(r) /\ r.p = m.p /\ r.ctx = m.ctx /\ r.id = m.id /\ r.request = m.request /\ r.made = m.made
        /\ r.cache = m.cache /\ r.tabs = old.tabs /\ r.active = PickActive(old.active, old.tabs)
    BY <1>5, <1>6 DEF IsBatch, LoadFromCache
  <1> QED BY <1>2, <1>3, <1>6, <1>7, <1>8

(* The tabs the context of a commit has, and what a commit leaves of them. *)
Base(b) == IF b.p.ctxRef = b.ctx THEN b.p.tabs ELSE b.cache[b.ctx].tabs

Left(b) == [c \in Ctxs |-> IF c = b.ctx \/ c = b.p.ctxRef THEN [tabs |-> b.p.tabs, active |-> b.p.active]
                           ELSE b.cache[c]]

Rendered(b) ==
  /\ IsBatch(b) /\ IsPanel(b.p) /\ b.ctx \in Ctxs /\ b.p.ctxRef \in Ctxs /\ DOMAIN b.cache = Ctxs
  /\ b.tabs = b.p.tabs /\ b.active = b.p.active

(* One tab more, or none. *)
Keeps(b, r) ==
  /\ b.request = NoPod /\ r.tabs = Base(b) /\ r.id = b.id
  /\ b.p.ctxRef = b.ctx => r.active = b.p.active /\ (r.tabs = <<>> => r.p.seeded)
  /\ b.p.ctxRef # b.ctx => r.active = PickActive(b.cache[b.ctx].active, b.cache[b.ctx].tabs)

Adds(b, r) ==
  /\ b.request # NoPod \/ (b.p.tabs = <<>> /\ ~ (b.p.ctxRef = b.ctx /\ b.p.seeded))
  /\ r.tabs = Append(Base(b), TabOf(b.id, b.ctx, b.request)) /\ r.id = b.id + 1
  /\ r.active = b.id \/ r.active = NoTab

LEMMA EffectFacts ==
  ASSUME NEW b, Rendered(b), NEW eager,
         NEW r, r = LaunchEffect(OpenEffect(CacheEffect(ContextEffect(b)), eager), eager)
  PROVE  /\ IsBatch(r) /\ IsPanel(r.p) /\ r.ctx = b.ctx /\ r.p.ctxRef = b.ctx /\ r.request = NoPod
         /\ r.made = (IF b.request = NoPod THEN b.made ELSE b.made + 1)
         /\ r.cache = Left(b) /\ (Keeps(b, r) \/ Adds(b, r))
  <1> DEFINE old == [tabs |-> b.p.tabs, active |-> b.p.active]
  <1>1. PICK x : x = ContextEffect(b)
    OBVIOUS
  <1>e. old = [tabs |-> b.p.tabs, active |-> b.p.active]
    OBVIOUS
  <1> HIDE DEF old
  <1>2. /\ IsBatch(x) /\ IsPanel(x.p) /\ x.ctx = b.ctx /\ x.id = b.id /\ x.request = b.request /\ x.made = b.made
        /\ x.p.ctxRef = b.ctx /\ x.p.tabs = b.p.tabs /\ x.p.active = b.p.active
        /\ x.tabs = Base(b)
        /\ DOMAIN x.cache = Ctxs
        /\ \A c \in Ctxs : x.cache[c] = IF c = b.p.ctxRef /\ c # b.ctx THEN old ELSE b.cache[c]
    <2>1. CASE b.p.ctxRef = b.ctx
      <3>1. x = b
        BY <1>1, <2>1 DEF ContextEffect
      <3> QED BY <2>1, <3>1 DEF Base, Rendered
    <2>2. CASE b.p.ctxRef # b.ctx
      <3>1. /\ IsBatch(x) /\ IsPanel(x.p) /\ x.ctx = b.ctx /\ x.id = b.id /\ x.request = b.request /\ x.made = b.made
            /\ x.p.ctxRef = b.ctx /\ x.p.tabs = b.p.tabs /\ x.p.active = b.p.active
            /\ x.tabs = b.cache[b.ctx].tabs
            /\ x.cache = [c \in Ctxs |-> IF c = b.p.ctxRef THEN old ELSE b.cache[c]]
        BY <1>1, <1>e, <2>2, ContextFacts DEF Rendered
      <3>2. x.tabs = Base(b)
        BY <2>2, <3>1 DEF Base
      <3>3. DOMAIN x.cache = Ctxs /\ \A c \in Ctxs : x.cache[c] = IF c = b.p.ctxRef /\ c # b.ctx THEN old ELSE b.cache[c]
        BY <2>2, <3>1
      <3> QED BY <3>1, <3>2, <3>3
    <2> QED BY <2>1, <2>2
  <1>3. /\ b.p.ctxRef = b.ctx => x = b
        /\ b.p.ctxRef # b.ctx => x.active = PickActive(b.cache[b.ctx].active, b.cache[b.ctx].tabs)
    <2>1. CASE b.p.ctxRef = b.ctx
      BY <1>1, <2>1 DEF ContextEffect
    <2>2. CASE b.p.ctxRef # b.ctx
      BY <1>1, <2>2, ContextFacts DEF Rendered
    <2> QED BY <2>1, <2>2
  <1>4. PICK y : y = CacheEffect(x)
    OBVIOUS
  <1>5. /\ IsBatch(y) /\ y.p = x.p /\ y.ctx = x.ctx /\ y.id = x.id /\ y.request = x.request
        /\ y.tabs = x.tabs /\ y.active = x.active /\ y.made = x.made
        /\ y.cache = [c \in Ctxs |-> IF c = x.ctx THEN [tabs |-> x.p.tabs, active |-> x.p.active] ELSE x.cache[c]]
    <2>1. y = CacheTabs(x, x.ctx) /\ x.ctx \in Ctxs
      BY <1>2, <1>4 DEF CacheEffect, Rendered
    <2> QED BY <1>2, <2>1, CacheFacts
  <1>6. y.cache = Left(b)
    <2>1. \A c \in Ctxs : y.cache[c] = IF c = b.ctx \/ c = b.p.ctxRef THEN old ELSE b.cache[c]
      BY <1>2, <1>5, <1>e
    <2>2. y.cache = [c \in Ctxs |-> y.cache[c]]
      BY <1>5
    <2> QED BY <1>e, <2>1, <2>2 DEF Left
  <1>7. y.cache[y.ctx].tabs = y.p.tabs
    BY <1>2, <1>5 DEF Rendered
  <1>8. PICK z : z = OpenEffect(y, eager)
    OBVIOUS
  <1>9. /\ IsBatch(z) /\ IsPanel(z.p) /\ z.ctx = y.ctx /\ z.cache = y.cache /\ z.request = y.request
        /\ z.made = y.made /\ z.p.ctxRef = y.p.ctxRef
        /\ \/ z = y /\ (y.p.tabs = <<>> /\ y.request = NoPod => y.p.seeded)
           \/ /\ y.p.tabs = <<>> /\ ~ y.p.seeded /\ y.request = NoPod
              /\ z.id = y.id + 1 /\ z.tabs = Append(y.tabs, TabOf(y.id, y.ctx, NoPod))
              /\ (z.active = y.id \/ z.active = NoTab)
    BY <1>2, <1>5, <1>7, <1>8, OpenFacts
  <1>10. r = LaunchEffect(z, eager)
    BY <1>1, <1>4, <1>8
  <1>11. /\ IsBatch(r) /\ r.p = z.p /\ r.ctx = z.ctx /\ r.cache = z.cache /\ r.request = NoPod
         /\ r.made = IF z.request = NoPod THEN z.made ELSE z.made + 1
         /\ \/ r = z /\ z.request = NoPod
            \/ /\ z.request # NoPod
               /\ r.id = z.id + 1 /\ r.tabs = Append(z.tabs, TabOf(z.id, z.ctx, z.request))
               /\ (r.active = z.id \/ r.active = NoTab)
    BY <1>9, <1>10, LaunchFacts
  <1>12. CASE b.request # NoPod
    <2>1. z = y /\ r.id = z.id + 1 /\ r.tabs = Append(z.tabs, TabOf(z.id, z.ctx, z.request))
          /\ (r.active = z.id \/ r.active = NoTab)
      BY <1>2, <1>5, <1>9, <1>11, <1>12
    <2>2. Adds(b, r)
      BY <1>2, <1>5, <1>12, <2>1 DEF Adds
    <2> QED BY <1>2, <1>5, <1>6, <1>9, <1>11, <2>1, <2>2
  <1>13. CASE b.request = NoPod
    <2>1. r = z /\ z.request = NoPod /\ y.request = NoPod
      BY <1>2, <1>5, <1>9, <1>11, <1>13
    <2>2. ASSUME z = y, y.p.tabs = <<>> /\ y.request = NoPod => y.p.seeded PROVE Keeps(b, r)
      <3>1. r.tabs = Base(b) /\ r.id = b.id
        BY <1>2, <1>5, <2>1, <2>2
      <3>2. CASE b.p.ctxRef = b.ctx
        <4>1. r.active = b.p.active
          BY <1>3, <1>5, <2>1, <2>2, <3>2 DEF Rendered
        <4>2. r.tabs = <<>> => r.p.seeded
          BY <1>2, <1>5, <2>1, <2>2, <3>1, <3>2 DEF Base
        <4> QED BY <1>13, <3>1, <3>2, <4>1, <4>2 DEF Keeps
      <3>3. CASE b.p.ctxRef # b.ctx
        <4>1. r.active = PickActive(b.cache[b.ctx].active, b.cache[b.ctx].tabs)
          BY <1>3, <1>5, <2>1, <2>2, <3>3
        <4> QED BY <1>13, <3>1, <3>3, <4>1 DEF Keeps
      <3> QED BY <3>2, <3>3
    <2>3. ASSUME y.p.tabs = <<>>, ~ y.p.seeded,
                 z.id = y.id + 1, z.tabs = Append(y.tabs, TabOf(y.id, y.ctx, NoPod)),
                 z.active = y.id \/ z.active = NoTab
          PROVE  Adds(b, r)
      <3>1. b.p.tabs = <<>> /\ ~ (b.p.ctxRef = b.ctx /\ b.p.seeded)
        <4>1. b.p.tabs = <<>>
          BY <1>2, <1>5, <2>3
        <4>2. b.p.ctxRef = b.ctx => y.p = b.p
          BY <1>3, <1>5
        <4>3. ~ (b.p.ctxRef = b.ctx /\ b.p.seeded)
          <5>1. SUFFICES ASSUME b.p.ctxRef = b.ctx, b.p.seeded PROVE FALSE
            OBVIOUS
          <5>2. y.p.seeded
            BY <4>2, <5>1
          <5> QED BY <2>3, <5>2
        <4> QED BY <4>1, <4>3
      <3> QED BY <1>2, <1>5, <1>13, <2>1, <2>3, <3>1 DEF Adds
    <2>4. Keeps(b, r) \/ Adds(b, r)
      BY <1>9, <2>1, <2>2, <2>3
    <2> QED BY <1>2, <1>5, <1>6, <1>9, <1>11, <1>13, <2>1, <2>4
  <1> QED BY <1>12, <1>13

(* The effects of a commit, and the commit of what they set *)
LEMMA PassFacts ==
  ASSUME NEW b, Rendered(b), NEW eager, NEW r, r = Pass(b, eager)
  PROVE  /\ Rendered(r) /\ r.ctx = b.ctx /\ r.p.ctxRef = b.ctx /\ r.request = NoPod
         /\ r.made = (IF b.request = NoPod THEN b.made ELSE b.made + 1)
         /\ r.cache = Left(b) /\ (Keeps(b, r) \/ Adds(b, r))
  <1>1. PICK e : e = LaunchEffect(OpenEffect(CacheEffect(ContextEffect(b)), eager), eager)
    OBVIOUS
  <1>2. /\ IsBatch(e) /\ IsPanel(e.p) /\ e.ctx = b.ctx /\ e.p.ctxRef = b.ctx /\ e.request = NoPod
        /\ e.made = (IF b.request = NoPod THEN b.made ELSE b.made + 1)
        /\ e.cache = Left(b) /\ (Keeps(b, e) \/ Adds(b, e))
    BY <1>1, EffectFacts
  <1>3. r = [e EXCEPT !.p = Rerendered(b, e), !.batched = FALSE]
    BY <1>1, Zenon DEF Pass
  <1>4. PICK v : v = e.p
    OBVIOUS
  <1>5. PICK s : s = IF Len(b.p.tabs) < 2 THEN {} ELSE v.split
    OBVIOUS
  <1>6. /\ IsBatch(r) /\ r.ctx = e.ctx /\ r.request = e.request /\ r.made = e.made
        /\ r.cache = e.cache /\ r.id = e.id /\ r.tabs = e.tabs /\ r.active = e.active
        /\ r.p = Rerendered(b, e)
    BY <1>2, <1>3 DEF IsBatch
  <1>w. r.p = [v EXCEPT !.tabs = e.tabs, !.active = e.active, !.split = s]
    BY <1>4, <1>5, <1>6 DEF Rerendered
  <1>7. IsPanel(r.p) /\ r.p.ctxRef = v.ctxRef /\ r.p.tabs = e.tabs /\ r.p.active = e.active /\ r.p.seeded = v.seeded
    <2>1. IsPanel(v)
      BY <1>2, <1>4
    <2> QED BY <1>w, <2>1 DEF IsPanel
  <1>8. DOMAIN r.cache = Ctxs
    BY <1>2, <1>6 DEF Left
  <1>9. Rendered(r)
    BY <1>2, <1>4, <1>6, <1>7, <1>8 DEF Rendered
  <1>10. Keeps(b, e) => Keeps(b, r)
    BY <1>4, <1>6, <1>7 DEF Keeps
  <1>11. Adds(b, e) => Adds(b, r)
    BY <1>6, <1>7 DEF Adds
  <1> QED BY <1>2, <1>4, <1>6, <1>7, <1>9, <1>10, <1>11

(* What every commit starts from *)
Fit(b) ==
  /\ Rendered(b) /\ b.cache \in [Ctxs -> CachedTabs] /\ b.id \in Nat /\ b.request \in Pods \cup {NoPod}
  /\ Sorted(Shelf(b.cache, b.p.ctxRef, b.p.tabs), b.id)
  /\ ActiveIn(b.p.active, b.p.tabs)

LEMMA FitTabs ==
  ASSUME NEW b, Fit(b)
  PROVE  /\ b.p.tabs \in Seq(Tabs) /\ b.p.active \in Nat \cup {NoTab}
         /\ Base(b) = Shelf(b.cache, b.p.ctxRef, b.p.tabs)[b.ctx] /\ Base(b) \in Seq(Tabs)
         /\ [tabs |-> b.p.tabs, active |-> b.p.active] \in CachedTabs
  <1>1. b.p.ctxRef \in Ctxs /\ b.ctx \in Ctxs /\ b.cache \in [Ctxs -> CachedTabs]
    BY DEF Fit, Rendered
  <1>2. b.p.tabs \in Seq(Tabs)
    <2>1. TabsOf(Shelf(b.cache, b.p.ctxRef, b.p.tabs)[b.p.ctxRef], b.p.ctxRef, b.id)
      BY <1>1 DEF Fit, Sorted
    <2>2. Shelf(b.cache, b.p.ctxRef, b.p.tabs)[b.p.ctxRef] = b.p.tabs
      BY <1>1 DEF Shelf
    <2> QED BY <2>1, <2>2 DEF TabsOf
  <1>3. b.p.active \in Nat \cup {NoTab}
    <2>1. PICK s : s = b.p.tabs
      OBVIOUS
    <2>2. \A i \in 1 .. Len(s) : s[i].id \in Nat
      <3>1. \A i \in 1 .. Len(s) : s[i] \in Tabs
        BY <1>2, <2>1, ElementOfSeq
      <3> QED BY <3>1 DEF Tabs
    <2> QED BY <2>1, <2>2 DEF Fit, ActiveIn
  <1>4. Base(b) = Shelf(b.cache, b.p.ctxRef, b.p.tabs)[b.ctx]
    BY <1>1 DEF Base, Shelf
  <1>5. b.cache[b.ctx].tabs \in Seq(Tabs)
    BY <1>1 DEF CachedTabs
  <1> QED BY <1>2, <1>3, <1>4, <1>5 DEF Base, CachedTabs

LEMMA PickedActive ==
  ASSUME NEW s \in Seq(Tabs), NEW saved
  PROVE  ActiveIn(PickActive(saved, s), s)
  <1>1. CASE saved \in Ids(s)
    BY <1>1 DEF PickActive, ActiveIn, Ids
  <1>2. CASE saved \notin Ids(s) /\ s = <<>>
    BY <1>2 DEF PickActive, ActiveIn
  <1>3. CASE saved \notin Ids(s) /\ s # <<>>
    <2>1. PickActive(saved, s) = s[1].id
      BY <1>3 DEF PickActive
    <2>2. 1 \in 1 .. Len(s)
      BY <1>3, EmptySeq, LenProperties
    <2> QED BY <2>1, <2>2 DEF ActiveIn
  <1> QED BY <1>1, <1>2, <1>3

(* A commit keeps every context's tabs, and gives a new one an id of its own. *)
LEMMA PassFit ==
  ASSUME NEW b, Fit(b), NEW eager, NEW r, r = Pass(b, eager)
  PROVE  Fit(r)
  <1>1. /\ Rendered(r) /\ r.ctx = b.ctx /\ r.p.ctxRef = b.ctx /\ r.request = NoPod
        /\ r.cache = Left(b) /\ (Keeps(b, r) \/ Adds(b, r))
    BY PassFacts DEF Fit
  <1>2. /\ b.ctx \in Ctxs /\ b.p.ctxRef \in Ctxs /\ b.cache \in [Ctxs -> CachedTabs] /\ b.id \in Nat
        /\ b.request \in Pods \cup {NoPod}
    BY DEF Fit, Rendered
  <1>3. r.cache \in [Ctxs -> CachedTabs]
    BY <1>1, <1>2, FitTabs DEF Left
  <1>4. PICK f : f = Shelf(b.cache, b.p.ctxRef, b.p.tabs)
    OBVIOUS
  <1>5. PICK g : g = Shelf(r.cache, r.p.ctxRef, r.p.tabs)
    OBVIOUS
  <1>6. Sorted(f, b.id) /\ Base(b) = f[b.ctx] /\ f[b.ctx] \in Seq(Tabs)
    BY <1>4, FitTabs DEF Fit
  <1>7. \A d \in Ctxs : g[d] = IF d = b.ctx THEN r.tabs ELSE f[d]
    <2> SUFFICES ASSUME NEW d \in Ctxs PROVE g[d] = IF d = b.ctx THEN r.tabs ELSE f[d]
      OBVIOUS
    <2>1. CASE d = b.ctx
      BY <1>1, <1>2, <1>5, <2>1 DEF Shelf, Rendered
    <2>2. CASE d # b.ctx
      <3>1. g[d] = Left(b)[d].tabs
        BY <1>1, <1>5, <2>2 DEF Shelf
      <3>2. f[d] = IF d = b.p.ctxRef THEN b.p.tabs ELSE b.cache[d].tabs
        BY <1>4 DEF Shelf
      <3> QED BY <2>2, <3>1, <3>2 DEF Left
    <2> QED BY <2>1, <2>2
  <1>8. ASSUME Keeps(b, r)
        PROVE  r.id \in Nat /\ Sorted(g, r.id) /\ ActiveIn(r.active, r.tabs)
    <2>1. r.tabs = f[b.ctx] /\ r.id = b.id
      BY <1>6, <1>8 DEF Keeps
    <2>2. \A d \in Ctxs : g[d] = f[d]
      BY <1>7, <2>1
    <2>3. Sorted(g, r.id)
      BY <1>6, <2>1, <2>2 DEF Sorted
    <2>4. ActiveIn(r.active, r.tabs)
      <3>1. CASE b.p.ctxRef = b.ctx
        <4>1. r.active = b.p.active /\ r.tabs = b.p.tabs
          BY <1>8, <3>1 DEF Keeps, Base
        <4> QED BY <4>1 DEF Fit
      <3>2. CASE b.p.ctxRef # b.ctx
        <4>1. r.active = PickActive(b.cache[b.ctx].active, r.tabs) /\ r.tabs \in Seq(Tabs)
          BY <1>6, <1>8, <2>1, <3>2 DEF Keeps, Base
        <4> QED BY <4>1, PickedActive
      <3> QED BY <3>1, <3>2
    <2> QED BY <1>2, <2>1, <2>3, <2>4
  <1>9. ASSUME Adds(b, r)
        PROVE  r.id \in Nat /\ Sorted(g, r.id) /\ ActiveIn(r.active, r.tabs)
    <2>1. r.tabs = Append(f[b.ctx], TabOf(b.id, b.ctx, b.request)) /\ r.id = b.id + 1
          /\ (r.active = b.id \/ r.active = NoTab)
      BY <1>6, <1>9 DEF Adds
    <2>2. \A d \in Ctxs : g[d] = IF d = b.ctx THEN Append(f[b.ctx], [id |-> b.id, ctx |-> b.ctx, pod |-> b.request])
                                  ELSE f[d]
      BY <1>7, <2>1 DEF TabOf
    <2>3. Sorted(g, b.id + 1)
      BY <1>2, <1>6, <2>2, SortedAdd
    <2>4. \E i \in 1 .. Len(r.tabs) : r.tabs[i].id = b.id
      <3>1. PICK s : s = f[b.ctx]
        OBVIOUS
      <3>2. PICK t : t = TabOf(b.id, b.ctx, b.request)
        OBVIOUS
      <3>3. s \in Seq(Tabs) /\ t \in Tabs /\ t.id = b.id /\ r.tabs = Append(s, t)
        BY <1>2, <1>6, <2>1, <3>1, <3>2 DEF TabOf, Tabs
      <3>4. Len(s) \in Nat /\ Len(r.tabs) = Len(s) + 1 /\ r.tabs[Len(s) + 1] = t
        BY <3>3, AppendProperties, LenProperties
      <3>5. Len(s) + 1 \in 1 .. Len(r.tabs)
        BY <3>4
      <3> QED BY <3>3, <3>4, <3>5
    <2> QED BY <1>2, <2>1, <2>3, <2>4 DEF ActiveIn
  <1>10. r.id \in Nat /\ Sorted(g, r.id) /\ ActiveIn(r.active, r.tabs)
    BY <1>1, <1>8, <1>9
  <1> QED BY <1>1, <1>3, <1>5, <1>10 DEF Fit, Rendered

(* The commits of an event leave the tabs on screen cached, those of the context
   before too, and one tab for what was asked. *)
LEMMA CommitsFacts ==
  ASSUME NEW b, Fit(b), b.made = 0, NEW eager, NEW r, r = Commits(b, eager)
  PROVE  /\ Fit(r) /\ r.ctx = b.ctx /\ r.p.ctxRef = b.ctx /\ r.request = NoPod
         /\ r.made = (IF b.request = NoPod THEN 0 ELSE 1)
         /\ r.cache[b.ctx].tabs = r.p.tabs
         /\ \A c \in Ctxs \ {b.ctx} : r.cache[c].tabs = IF c = b.p.ctxRef THEN b.p.tabs ELSE b.cache[c].tabs
  <1>1. PICK x : x = Pass(b, eager)
    OBVIOUS
  <1>2. PICK y : y = Pass(x, eager)
    OBVIOUS
  <1>3. r = Pass(y, eager)
    BY <1>1, <1>2 DEF Commits
  <1>4. Fit(x) /\ Fit(y) /\ Fit(r)
    <2>1. Fit(x)
      BY <1>1, PassFit
    <2>2. Fit(y)
      BY <1>2, <2>1, PassFit
    <2> QED BY <1>3, <2>1, <2>2, PassFit
  <1>5. /\ x.ctx = b.ctx /\ x.p.ctxRef = b.ctx /\ x.request = NoPod
        /\ x.made = (IF b.request = NoPod THEN b.made ELSE b.made + 1) /\ x.cache = Left(b)
    BY <1>1, PassFacts DEF Fit
  <1>6. /\ y.ctx = x.ctx /\ y.p.ctxRef = x.ctx /\ y.request = NoPod
        /\ y.made = (IF x.request = NoPod THEN x.made ELSE x.made + 1) /\ y.cache = Left(x)
        /\ y.tabs = y.p.tabs /\ (Keeps(x, y) \/ Adds(x, y))
    BY <1>2, <1>4, PassFacts DEF Fit, Rendered
  <1>7. /\ r.ctx = y.ctx /\ r.p.ctxRef = y.ctx /\ r.request = NoPod
        /\ r.made = (IF y.request = NoPod THEN y.made ELSE y.made + 1) /\ r.cache = Left(y)
        /\ r.tabs = r.p.tabs /\ (Keeps(y, r) \/ Adds(y, r))
    BY <1>3, <1>4, PassFacts DEF Fit, Rendered
  <1>8. b.ctx \in Ctxs
    BY DEF Fit, Rendered
  <1>9. y.tabs = <<>> => y.p.seeded
    <2>1. ASSUME Adds(x, y) PROVE y.tabs # <<>>
      <3>1. PICK s : s = Base(x)
        OBVIOUS
      <3>2. PICK t : t = TabOf(x.id, x.ctx, x.request)
        OBVIOUS
      <3>3. s \in Seq(Tabs) /\ t \in Tabs /\ y.tabs = Append(s, t)
        <4>1. x.id \in Nat /\ x.ctx \in Ctxs /\ x.request \in Pods \cup {NoPod}
          BY <1>4 DEF Fit, Rendered
        <4>2. s \in Seq(Tabs)
          BY <1>4, <3>1, FitTabs
        <4> QED BY <2>1, <3>1, <3>2, <4>1, <4>2 DEF Adds, TabOf, Tabs
      <3> QED BY <3>3, AppendProperties
    <2>2. ASSUME Keeps(x, y) PROVE y.tabs = <<>> => y.p.seeded
      BY <1>5, <2>2 DEF Keeps
    <2> QED BY <1>6, <2>1, <2>2
  <1>10. Keeps(y, r)
    <2>1. ~ Adds(y, r)
      <3>1. SUFFICES ASSUME Adds(y, r) PROVE FALSE
        OBVIOUS
      <3>2. y.p.tabs = <<>> /\ ~ (y.p.ctxRef = y.ctx /\ y.p.seeded)
        BY <1>6, <3>1 DEF Adds
      <3>3. ~ y.p.seeded
        BY <1>6, <3>2
      <3> QED BY <1>6, <1>9, <3>2, <3>3
    <2> QED BY <1>7, <2>1
  <1>11. r.p.tabs = y.p.tabs
    BY <1>6, <1>7, <1>10 DEF Keeps, Base
  <1>12. r.cache[b.ctx].tabs = y.p.tabs
    BY <1>5, <1>6, <1>7, <1>8 DEF Left
  <1>13. ASSUME NEW c \in Ctxs, c # b.ctx
         PROVE  r.cache[c].tabs = IF c = b.p.ctxRef THEN b.p.tabs ELSE b.cache[c].tabs
    <2>1. r.cache[c] = y.cache[c]
      BY <1>5, <1>6, <1>7, <1>13 DEF Left
    <2>2. y.cache[c] = x.cache[c]
      BY <1>5, <1>6, <1>13 DEF Left
    <2>3. x.cache[c].tabs = IF c = b.p.ctxRef THEN b.p.tabs ELSE b.cache[c].tabs
      BY <1>5, <1>13 DEF Left
    <2> QED BY <2>1, <2>2, <2>3
  <1>14. r.made = (IF b.request = NoPod THEN 0 ELSE 1)
    BY <1>5, <1>6, <1>7
  <1> QED BY <1>4, <1>5, <1>6, <1>7, <1>11, <1>12, <1>13, <1>14

-----------------------------------------------------------------------------
DockFields == {"view", "expanded", "maximized", "term", "stream"}
LaunchFields == {"request", "action", "pending", "prompted", "picker"}

(* what App.jsx may launch *)
Launchable(l) ==
  /\ DOMAIN l = LaunchFields /\ l.request \in Pods \cup {NoPod} /\ l.pending \in Pods \cup {NoPod}
  /\ l.action \in {"none", "openTerminal", "openPodLogs"}

CachedShelf == [c \in Ctxs |-> cache[c].tabs]

(* The inductive invariant: the panel on screen holds the tabs that are cached for
   its context, and the ids made so far tell all tabs of all contexts apart. *)
ConInv ==
  /\ DOMAIN dock = DockFields /\ ctx \in Ctxs /\ cache \in [Ctxs -> CachedTabs] /\ nextId \in Nat
  /\ Launchable(launch) /\ launch.request = NoPod
  /\ Sorted(CachedShelf, nextId)
  /\ IsPanel(panel) /\ panel.ctxRef = ctx /\ ActiveIn(panel.active, panel.tabs)
  /\ ShowsTerminal(dock) => cache[ctx].tabs = panel.tabs
  /\ ~ ShowsTerminal(dock) => panel = EmptyPanel(ctx)
  /\ DOMAIN left \subseteq Ctxs \ {ctx} /\ \A c \in DOMAIN left : Ids(cache[c].tabs) = left[c]
  /\ count.asked \in Nat /\ count.made = count.asked

LEMMA EmptyFacts ==
  ASSUME NEW c
  PROVE  /\ IsPanel(EmptyPanel(c)) /\ EmptyPanel(c).tabs = <<>> /\ EmptyPanel(c).active = NoTab
         /\ EmptyPanel(c).ctxRef = c
  BY DEF EmptyPanel, IsPanel

(* An event keeps the invariant, whatever it leaves of the dock, the context and
   the launch state. *)
LEMMA DockCommitKeeps ==
  ASSUME ConInv, NEW d, DOMAIN d = DockFields, NEW c \in Ctxs, NEW l, Launchable(l),
         l.request # NoPod => ShowsTerminal(d), DockCommit(d, c, l, panel)
  PROVE  ConInv'
  <1> DEFINE mounting == ShowsTerminal(d) /\ ~ ShowsTerminal(dock)
  <1>1. dock' = d /\ ctx' = c
    BY DEF DockCommit
  <1>l. left' = IF ~ ShowsTerminal(d) \/ mounting THEN <<>>
                ELSE [k \in (DOMAIN left \cup {ctx}) \ {c} |-> IF k = ctx THEN Ids(panel.tabs) ELSE left[k]]
    BY DEF DockCommit
  <1>2. CASE ~ ShowsTerminal(d)
    <2>1. panel' = EmptyPanel(c) /\ launch' = l /\ UNCHANGED <<cache, nextId, count>>
      BY <1>2 DEF DockCommit
    <2>2. left' = <<>> /\ DOMAIN left' = {}
      BY <1>2, <1>l
    <2>3. l.request = NoPod
      BY <1>2
    <2>4. CachedShelf' = CachedShelf
      BY <2>1 DEF CachedShelf
    <2>5. IsPanel(panel') /\ panel'.ctxRef = c /\ panel'.active = NoTab
      BY <2>1, EmptyFacts
    <2> QED BY <1>1, <1>2, <2>1, <2>2, <2>3, <2>4, <2>5 DEF ConInv, ActiveIn
  <1>3. CASE ShowsTerminal(d)
    <2> DEFINE from == IF mounting THEN EmptyPanel(c) ELSE panel
    <2>1. PICK start : start = Batch(from, c, l.request)
      OBVIOUS
    <2>2. PICK eager, b : /\ b = Commits(start, eager)
                          /\ panel' = b.p /\ cache' = b.cache /\ nextId' = b.id
                          /\ launch' = [l EXCEPT !.request = b.request]
                          /\ count' = [asked |-> count.asked + (IF l.request # launch.request THEN 1 ELSE 0),
                                       made |-> count.made + b.made]
      <3>1. \E eager \in IF mounting THEN {TRUE} ELSE BOOLEAN :
               \E b \in {Commits(Batch(from, c, l.request), eager)} :
                          /\ panel' = b.p /\ cache' = b.cache /\ nextId' = b.id
                          /\ launch' = [l EXCEPT !.request = b.request]
                          /\ count' = [asked |-> count.asked + (IF l.request # launch.request THEN 1 ELSE 0),
                                       made |-> count.made + b.made]
        BY <1>3 DEF DockCommit
      <3> QED BY <2>1, <3>1
    <2>3. IsPanel(from) /\ from.ctxRef \in Ctxs /\ ActiveIn(from.active, from.tabs)
      BY EmptyFacts DEF ConInv, ActiveIn
    <2>4. Sorted(Shelf(cache, from.ctxRef, from.tabs), nextId)
      <3>1. PICK g : g = Shelf(cache, from.ctxRef, from.tabs)
        OBVIOUS
      <3>2. PICK f : f = CachedShelf
        OBVIOUS
      <3>3. Sorted(f, nextId)
        BY <3>2 DEF ConInv
      <3>4. CASE mounting
        <4>1. \A k \in Ctxs : g[k] = IF k = c THEN <<>> ELSE f[k]
          BY <3>1, <3>2, <3>4, EmptyFacts DEF Shelf, CachedShelf
        <4>2. Sorted(g, nextId)
          BY <3>3, <4>1, SortedEmpty
        <4> QED BY <3>1, <4>2
      <3>5. CASE ~ mounting
        <4>1. from = panel /\ panel.ctxRef = ctx /\ cache[ctx].tabs = panel.tabs
          BY <1>3, <3>5 DEF ConInv
        <4>2. g = f
          BY <3>1, <3>2, <4>1 DEF Shelf, CachedShelf
        <4> QED BY <3>1, <3>3, <4>2
      <3> QED BY <3>4, <3>5
    <2>5. Fit(start) /\ start.made = 0 /\ start.ctx = c /\ start.request = l.request /\ start.p = from /\ start.cache = cache
      <3> HIDE DEF from
      <3>1. /\ start.made = 0 /\ start.ctx = c /\ start.request = l.request /\ start.p = from /\ start.cache = cache
            /\ start.id = nextId /\ start.tabs = from.tabs /\ start.active = from.active /\ IsBatch(start)
        BY <2>1 DEF Batch, IsBatch
      <3>2. cache \in [Ctxs -> CachedTabs] /\ nextId \in Nat /\ l.request \in Pods \cup {NoPod}
        BY DEF ConInv, Launchable
      <3> QED BY <2>3, <2>4, <3>1, <3>2 DEF Fit, Rendered
    <2>6. /\ Fit(b) /\ b.ctx = c /\ b.p.ctxRef = c /\ b.request = NoPod
          /\ b.made = (IF l.request = NoPod THEN 0 ELSE 1)
          /\ b.cache[c].tabs = b.p.tabs
          /\ \A k \in Ctxs \ {c} : b.cache[k].tabs = IF k = from.ctxRef THEN from.tabs ELSE cache[k].tabs
      <3> HIDE DEF from
      <3>1. /\ Fit(b) /\ b.ctx = start.ctx /\ b.p.ctxRef = start.ctx /\ b.request = NoPod
            /\ b.made = (IF start.request = NoPod THEN 0 ELSE 1)
            /\ b.cache[start.ctx].tabs = b.p.tabs
            /\ \A k \in Ctxs \ {start.ctx} : b.cache[k].tabs = IF k = start.p.ctxRef THEN start.p.tabs ELSE start.cache[k].tabs
        BY <2>2, <2>5, CommitsFacts
      <3> QED BY <2>5, <3>1
    <2>7. /\ cache' \in [Ctxs -> CachedTabs] /\ nextId' \in Nat /\ IsPanel(panel') /\ panel'.ctxRef = c
          /\ ActiveIn(panel'.active, panel'.tabs) /\ cache'[c].tabs = panel'.tabs
      BY <2>2, <2>6 DEF Fit, Rendered
    <2>8. Sorted(CachedShelf', nextId')
      <3>1. CachedShelf' = Shelf(b.cache, c, b.p.tabs)
        BY <2>2, <2>6 DEF CachedShelf, Shelf
      <3> QED BY <2>2, <2>6, <3>1 DEF Fit
    <2>9. Launchable(launch') /\ launch'.request = NoPod
      BY <2>2, <2>6 DEF Launchable, LaunchFields
    <2>10. count'.asked \in Nat /\ count'.made = count'.asked
      <3>1. launch.request = NoPod /\ count.asked \in Nat /\ count.made = count.asked
        BY DEF ConInv
      <3>2. count'.asked = count.asked + (IF l.request # NoPod THEN 1 ELSE 0)
            /\ count'.made = count.made + (IF l.request = NoPod THEN 0 ELSE 1)
        BY <2>2, <2>6, <3>1
      <3> QED BY <3>1, <3>2
    <2>11. DOMAIN left' \subseteq Ctxs \ {c} /\ \A k \in DOMAIN left' : Ids(cache'[k].tabs) = left'[k]
      <3>1. CASE mounting
        BY <1>l, <3>1
      <3>2. CASE ~ mounting
        <4>1. left' = [k \in (DOMAIN left \cup {ctx}) \ {c} |-> IF k = ctx THEN Ids(panel.tabs) ELSE left[k]]
          BY <1>3, <1>l, <3>2
        <4>2. from = panel /\ panel.ctxRef = ctx /\ ctx \in Ctxs /\ DOMAIN left \subseteq Ctxs \ {ctx}
              /\ \A k \in DOMAIN left : Ids(cache[k].tabs) = left[k]
          BY <3>2 DEF ConInv
        <4>3. \A k \in Ctxs \ {c} : cache'[k].tabs = IF k = ctx THEN panel.tabs ELSE cache[k].tabs
          BY <2>2, <2>6, <4>2
        <4>4. DOMAIN left' = (DOMAIN left \cup {ctx}) \ {c} /\ DOMAIN left' \subseteq Ctxs \ {c}
          BY <4>1, <4>2
        <4>5. ASSUME NEW k \in DOMAIN left' PROVE Ids(cache'[k].tabs) = left'[k]
          BY <4>1, <4>2, <4>3, <4>4
        <4> QED BY <4>4, <4>5
      <3> QED BY <3>1, <3>2
    <2> QED BY <1>1, <1>3, <2>7, <2>8, <2>9, <2>10, <2>11 DEF ConInv
  <1> QED BY <1>2, <1>3

LEMMA ShelfFacts ==
  ASSUME ConInv
  PROVE  /\ Sorted(CachedShelf, nextId) /\ \A c \in Ctxs : CachedShelf[c] = cache[c].tabs /\ TabsOf(cache[c].tabs, c, nextId)
         /\ ShowsTerminal(dock) => CachedShelf[ctx] = panel.tabs /\ panel.tabs \in Seq(Tabs)
  <1>1. Sorted(CachedShelf, nextId) /\ \A c \in Ctxs : CachedShelf[c] = cache[c].tabs
    BY DEF ConInv, CachedShelf
  <1>2. \A c \in Ctxs : TabsOf(cache[c].tabs, c, nextId)
    BY <1>1 DEF Sorted
  <1>3. ShowsTerminal(dock) => CachedShelf[ctx] = panel.tabs /\ panel.tabs \in Seq(Tabs)
    BY <1>1, <1>2 DEF ConInv, TabsOf
  <1> QED BY <1>1, <1>2, <1>3

LEMMA ActiveTyped ==
  ASSUME NEW s \in Seq(Tabs), NEW a, ActiveIn(a, s)
  PROVE  a \in Nat \cup {NoTab}
  <1>1. \A i \in 1 .. Len(s) : s[i].id \in Nat
    <2>1. \A i \in 1 .. Len(s) : s[i] \in Tabs
      BY ElementOfSeq
    <2> QED BY <2>1 DEF Tabs
  <1> QED BY <1>1 DEF ActiveIn

(* What the user does to the tabs on screen is cached at once. *)
LEMMA TabsChange ==
  ASSUME ConInv, ShowsTerminal(dock), UNCHANGED <<dock, ctx, launch, left, count>>,
         NEW s \in Seq(Tabs), NEW a, ActiveIn(a, s),
         nextId' \in Nat, IsPanel(panel'), panel'.ctxRef = ctx, panel'.tabs = s, panel'.active = a,
         cache' = [cache EXCEPT ![ctx] = [tabs |-> s, active |-> a]],
         NEW g, \A c \in Ctxs : g[c] = IF c = ctx THEN s ELSE CachedShelf[c], Sorted(g, nextId')
  PROVE  ConInv'
  <1>1. ctx \in Ctxs /\ cache \in [Ctxs -> CachedTabs]
    BY DEF ConInv
  <1>2. a \in Nat \cup {NoTab}
    BY ActiveTyped
  <1>3. cache' \in [Ctxs -> CachedTabs] /\ cache'[ctx].tabs = s /\ \A c \in Ctxs : c # ctx => cache'[c] = cache[c]
    BY <1>1, <1>2 DEF CachedTabs
  <1>4. Sorted(CachedShelf', nextId')
    <2>1. \A c \in Ctxs : CachedShelf'[c] = g[c]
      BY <1>3 DEF CachedShelf
    <2> QED BY <2>1 DEF Sorted
  <1>5. \A c \in DOMAIN left : Ids(cache'[c].tabs) = left[c]
    BY <1>3 DEF ConInv
  <1> QED BY <1>3, <1>4, <1>5 DEF ConInv

LEMMA NewTabKeeps == ASSUME ConInv, NewTab PROVE ConInv'
  <1>1. PICK eager, b : /\ b = AddTab(Batch(panel, ctx, NoPod), NoPod, eager)
                        /\ nextId' = b.id /\ panel' = [panel EXCEPT !.tabs = b.tabs, !.active = b.active]
                        /\ cache' = [cache EXCEPT ![ctx] = [tabs |-> b.tabs, active |-> b.active]]
    BY DEF NewTab
  <1>2. PICK start : start = Batch(panel, ctx, NoPod)
    OBVIOUS
  <1>3. IsBatch(start) /\ start.id = nextId /\ start.ctx = ctx /\ start.tabs = panel.tabs
    BY <1>2 DEF Batch, IsBatch
  <1>4. b.id = nextId + 1 /\ b.tabs = Append(panel.tabs, TabOf(nextId, ctx, NoPod)) /\ (b.active = nextId \/ b.active = NoTab)
    BY <1>1, <1>2, <1>3, AddTabFacts
  <1>5. PICK t : t = TabOf(nextId, ctx, NoPod)
    OBVIOUS
  <1>6. PICK s : s = panel.tabs
    OBVIOUS
  <1>7. /\ ctx \in Ctxs /\ nextId \in Nat /\ IsPanel(panel) /\ panel.ctxRef = ctx /\ ShowsTerminal(dock)
        /\ UNCHANGED <<dock, ctx, launch, left, count>>
    BY DEF ConInv, NewTab
  <1>8. s \in Seq(Tabs) /\ t \in Tabs /\ t.id = nextId
    BY <1>5, <1>6, <1>7, ShelfFacts DEF TabOf, Tabs
  <1>9. b.tabs = Append(s, t) /\ b.tabs \in Seq(Tabs) /\ \E i \in 1 .. Len(b.tabs) : b.tabs[i] = t
    <2>1. b.tabs = Append(s, t)
      BY <1>4, <1>5, <1>6
    <2>2. b.tabs \in Seq(Tabs) /\ Len(s) \in Nat /\ Len(b.tabs) = Len(s) + 1 /\ b.tabs[Len(s) + 1] = t
      BY <1>8, <2>1, AppendProperties, LenProperties
    <2>3. Len(s) + 1 \in 1 .. Len(b.tabs)
      BY <2>2
    <2> QED BY <2>1, <2>2, <2>3
  <1>10. ActiveIn(b.active, b.tabs)
    BY <1>4, <1>8, <1>9 DEF ActiveIn
  <1>11. PICK g : g = [c \in Ctxs |-> IF c = ctx THEN b.tabs ELSE CachedShelf[c]]
    OBVIOUS
  <1>12. Sorted(g, nextId + 1)
    <2>1. PICK f : f = CachedShelf
      OBVIOUS
    <2>2. Sorted(f, nextId) /\ f[ctx] = s
      BY <1>6, <1>7, <2>1, ShelfFacts
    <2>3. \A d \in Ctxs : g[d] = IF d = ctx THEN Append(f[ctx], [id |-> nextId, ctx |-> ctx, pod |-> NoPod]) ELSE f[d]
      BY <1>5, <1>9, <1>11, <2>1, <2>2 DEF TabOf
    <2> QED BY <1>7, <2>2, <2>3, SortedAdd
  <1>13. IsPanel(panel') /\ panel'.ctxRef = ctx /\ panel'.tabs = b.tabs /\ panel'.active = b.active
    BY <1>1, <1>7 DEF IsPanel
  <1>14. nextId' = nextId + 1 /\ nextId' \in Nat /\ Sorted(g, nextId')
    BY <1>1, <1>4, <1>7, <1>12
  <1>15. \A c \in Ctxs : g[c] = IF c = ctx THEN b.tabs ELSE CachedShelf[c]
    BY <1>11
  <1> QED BY <1>1, <1>7, <1>9, <1>10, <1>13, <1>14, <1>15, TabsChange

LEMMA CloseTabKeeps == ASSUME ConInv, NEW i, CloseTab(i) PROVE ConInv'
  <1>1. /\ ctx \in Ctxs /\ nextId \in Nat /\ IsPanel(panel) /\ panel.ctxRef = ctx /\ ShowsTerminal(dock)
        /\ UNCHANGED <<dock, ctx, nextId, launch, left, count>> /\ panel' = TabClosed(panel, i)
        /\ cache' = [cache EXCEPT ![ctx] = [tabs |-> panel'.tabs, active |-> panel'.active]]
        /\ i \in 1 .. Len(panel.tabs) /\ ActiveIn(panel.active, panel.tabs)
    BY DEF ConInv, CloseTab
  <1>2. PICK s : s = panel.tabs
    OBVIOUS
  <1>3. PICK r : r = RemoveAt(s, i)
    OBVIOUS
  <1>4. s \in Seq(Tabs) /\ i \in 1 .. Len(s)
    BY <1>1, <1>2, ShelfFacts
  <1>5. /\ SomeOf(r, s) /\ Len(r) = Len(s) - 1 /\ r \in Seq(Tabs)
        /\ \A j \in 1 .. Len(s) : j # i => \E k \in 1 .. Len(r) : r[k] = s[j]
    <2>1. Removed(r, s, i)
      BY ONLY <1>3, <1>4, RemoveFacts
    <2>2. r \in Seq(Tabs)
      BY <2>1 DEF Removed, SomeOf
    <2> QED BY <2>1, <2>2 DEF Removed
  <1>6. PICK a : a = IF panel.active # s[i].id THEN panel.active
                     ELSE IF r = <<>> THEN NoTab ELSE r[IF i <= Len(r) THEN i ELSE Len(r)].id
    OBVIOUS
  <1>7. IsPanel(panel') /\ panel'.ctxRef = ctx /\ panel'.tabs = r /\ panel'.active = a
    <2>1. PICK p : p = panel
      OBVIOUS
    <2>2. panel' = TabClosed(p, i) /\ IsPanel(p) /\ p.ctxRef = ctx /\ p.tabs = s /\ p.active = panel.active
      BY <1>1, <1>2, <2>1
    <2>3. IsPanel(panel') /\ panel'.ctxRef = ctx /\ panel'.tabs = r
      BY <1>3, <2>2 DEF TabClosed, IsPanel
    <2>4. panel'.active = IF p.active # s[i].id THEN p.active
                     ELSE IF r = <<>> THEN NoTab ELSE r[IF i <= Len(r) THEN i ELSE Len(r)].id
      BY <1>3, <2>2 DEF TabClosed, IsPanel
    <2> QED BY <1>6, <2>2, <2>3, <2>4
  <1>8. ActiveIn(a, r)
    <2>1. CASE panel.active # s[i].id
      <3>1. a = panel.active /\ (a = NoTab \/ \E j \in 1 .. Len(s) : a = s[j].id)
        BY <1>1, <1>2, <1>6, <2>1 DEF ActiveIn
      <3> QED BY <1>5, <2>1, <3>1 DEF ActiveIn
    <2>2. CASE panel.active = s[i].id /\ r = <<>>
      BY <1>6, <2>2 DEF ActiveIn
    <2>3. CASE panel.active = s[i].id /\ r # <<>>
      <3>1. PICK k : k = IF i <= Len(r) THEN i ELSE Len(r)
        OBVIOUS
      <3>2. Len(r) \in Nat /\ Len(r) # 0
        BY <1>5, <2>3, EmptySeq, LenProperties
      <3>3. k \in 1 .. Len(r)
        BY <1>4, <3>1, <3>2
      <3>4. a = r[k].id
        BY <1>6, <2>3, <3>1
      <3> QED BY <3>3, <3>4 DEF ActiveIn
    <2> QED BY <2>1, <2>2, <2>3
  <1>9. PICK g : g = [c \in Ctxs |-> IF c = ctx THEN r ELSE CachedShelf[c]]
    OBVIOUS
  <1>10. \A c \in Ctxs : g[c] = IF c = ctx THEN r ELSE CachedShelf[c]
    BY <1>9
  <1>11. Sorted(g, nextId)
    <2>1. PICK f : f = CachedShelf
      OBVIOUS
    <2>2. Sorted(f, nextId) /\ f[ctx] = s /\ \A c \in Ctxs : g[c] = IF c = ctx THEN r ELSE f[c]
      BY <1>1, <1>2, <1>10, <2>1, ShelfFacts
    <2>3. SomeOf(r, f[ctx]) /\ ctx \in Ctxs
      BY <1>1, <1>5, <2>2
    <2> QED BY <2>2, <2>3, SortedLess
  <1>12. nextId' = nextId /\ nextId' \in Nat /\ Sorted(g, nextId')
    BY <1>1, <1>11
  <1>13. cache' = [cache EXCEPT ![ctx] = [tabs |-> r, active |-> a]]
    BY <1>1, <1>7
  <1> QED BY <1>1, <1>5, <1>7, <1>8, <1>10, <1>12, <1>13, TabsChange

LEMMA SelectTabKeeps == ASSUME ConInv, NEW i, SelectTab(i) PROVE ConInv'
  <1>1. /\ ctx \in Ctxs /\ nextId \in Nat /\ IsPanel(panel) /\ panel.ctxRef = ctx /\ ShowsTerminal(dock)
        /\ UNCHANGED <<dock, ctx, nextId, launch, left, count>>
        /\ panel' = [panel EXCEPT !.active = panel.tabs[i].id, !.split = {}]
        /\ cache' = [cache EXCEPT ![ctx].active = panel'.active]
        /\ i \in 1 .. Len(panel.tabs) /\ cache[ctx].tabs = panel.tabs /\ cache \in [Ctxs -> CachedTabs]
    BY DEF ConInv, SelectTab
  <1>2. PICK s : s = panel.tabs
    OBVIOUS
  <1>3. PICK a : a = s[i].id
    OBVIOUS
  <1>4. IsPanel(panel') /\ panel'.ctxRef = ctx /\ panel'.tabs = s /\ panel'.active = a
    BY <1>1, <1>2, <1>3 DEF IsPanel
  <1>5. s \in Seq(Tabs) /\ ActiveIn(a, s)
    BY <1>1, <1>2, <1>3, ShelfFacts DEF ActiveIn
  <1>6. cache' = [cache EXCEPT ![ctx] = [tabs |-> s, active |-> a]]
    <2>1. PICK k : k = cache[ctx]
      OBVIOUS
    <2>2. k \in CachedTabs /\ k.tabs = s
      BY <1>1, <1>2, <2>1
    <2>3. [k EXCEPT !.active = a] = [tabs |-> s, active |-> a]
      BY <2>2 DEF CachedTabs
    <2>4. cache' = [cache EXCEPT ![ctx] = [k EXCEPT !.active = a]]
      BY <1>1, <1>4, <2>1
    <2> QED BY <2>3, <2>4
  <1>7. PICK g : g = CachedShelf
    OBVIOUS
  <1>8. Sorted(g, nextId') /\ nextId' \in Nat /\ \A c \in Ctxs : g[c] = IF c = ctx THEN s ELSE CachedShelf[c]
    BY <1>1, <1>2, <1>7, ShelfFacts
  <1>9. UNCHANGED <<dock, ctx, launch, left, count>> /\ ShowsTerminal(dock)
    BY <1>1
  <1> QED BY <1>4, <1>5, <1>6, <1>8, <1>9, TabsChange

(* The split is about what the panel shows, not about its tabs. *)
LEMMA SplitKeeps ==
  ASSUME ConInv, ShowsTerminal(dock), NEW s, panel' = [panel EXCEPT !.split = s],
         UNCHANGED <<dock, ctx, cache, nextId, launch, left, count>>
  PROVE  ConInv'
  <1>1. IsPanel(panel') /\ panel'.ctxRef = panel.ctxRef /\ panel'.tabs = panel.tabs /\ panel'.active = panel.active
    BY DEF ConInv, IsPanel
  <1>2. CachedShelf' = CachedShelf
    BY DEF CachedShelf
  <1> QED BY <1>1, <1>2 DEF ConInv

LEMMA OpenedFacts ==
  ASSUME ConInv, NEW view
  PROVE  DOMAIN Opened(view) = DockFields /\ (view # "stream" => ShowsTerminal(Opened(view)))
  <1>1. DOMAIN dock = DockFields
    BY DEF ConInv
  <1>2. DOMAIN Opened(view) = DockFields /\ Opened(view).view = view /\ Opened(view).expanded = TRUE
    BY <1>1 DEF Opened, DockFields
  <1> QED BY <1>2 DEF ShowsTerminal

LEMMA PickerFacts ==
  ASSUME NEW l, Launchable(l), NEW action \in {"none", "openTerminal", "openPodLogs"}
  PROVE  Launchable(OpenPicker(l, action)) /\ OpenPicker(l, action).request = l.request
  BY DEF Launchable, LaunchFields, OpenPicker

(* launching what was asked for, without the picker or after it *)
LEMMA RequestKeeps ==
  ASSUME ConInv, NEW l, Launchable(l), DockCommit(Opened("terminal"), ctx, l, panel)
  PROVE  ConInv'
  <1>1. DOMAIN Opened("terminal") = DockFields /\ ShowsTerminal(Opened("terminal"))
    BY OpenedFacts
  <1>2. ctx \in Ctxs
    BY DEF ConInv
  <1> QED BY <1>1, <1>2, DockCommitKeeps

(* an event that launches nothing *)
LEMMA QuietKeeps ==
  ASSUME ConInv, NEW d, DOMAIN d = DockFields, NEW c \in Ctxs, NEW l, Launchable(l), l.request = NoPod,
         DockCommit(d, c, l, panel)
  PROVE  ConInv'
  BY DockCommitKeeps

LEMMA ConStep == ASSUME ConInv, [ConNext]_conVars PROVE ConInv'
  <1>1. DOMAIN dock = DockFields /\ ctx \in Ctxs /\ Launchable(launch) /\ launch.request = NoPod
    BY DEF ConInv
  <1>2. ASSUME NEW view \in DockViews, SelectView(view) PROVE ConInv'
    <2>1. DockCommit(Opened(view), ctx, launch, panel)
      BY <1>2 DEF SelectView
    <2> QED BY <1>1, <2>1, OpenedFacts, QuietKeeps
  <1>3. CASE CollapseDock
    <2>1. PICK d : d = [dock EXCEPT !.expanded = FALSE, !.maximized = FALSE]
      OBVIOUS
    <2>2. DOMAIN d = DockFields /\ DockCommit(d, ctx, launch, panel)
      BY <1>1, <1>3, <2>1 DEF CollapseDock
    <2> QED BY <1>1, <2>2, QuietKeeps
  <1>4. CASE CloseAll
    <2>1. PICK d : d = [dock EXCEPT !.expanded = FALSE, !.maximized = FALSE, !.term = FALSE, !.stream = FALSE]
      OBVIOUS
    <2>2. DOMAIN d = DockFields /\ DockCommit(d, ctx, launch, panel)
      BY <1>1, <1>4, <2>1 DEF CloseAll
    <2> QED BY <1>1, <2>2, QuietKeeps
  <1>5. CASE Maximize
    <2>1. PICK d : d = [dock EXCEPT !.maximized = ~@]
      OBVIOUS
    <2>2. DOMAIN d = DockFields /\ DockCommit(d, ctx, launch, panel)
      BY <1>1, <1>5, <2>1 DEF Maximize
    <2> QED BY <1>1, <2>2, QuietKeeps
  <1>6. ASSUME NEW c \in Ctxs, SwitchContext(c) PROVE ConInv'
    <2>1. DockCommit(dock, c, launch, panel)
      BY <1>6 DEF SwitchContext
    <2> QED BY <1>1, <2>1, QuietKeeps
  <1>7. ASSUME NEW i \in 1 .. MaxIds, OpenSplit(i) PROVE ConInv'
    <2>1. PICK s : panel' = [panel EXCEPT !.split = s]
      BY <1>7 DEF OpenSplit
    <2>2. ShowsTerminal(dock) /\ UNCHANGED <<dock, ctx, cache, nextId, launch, left, count>>
      BY <1>7 DEF OpenSplit
    <2> QED BY <2>1, <2>2, SplitKeeps
  <1>8. CASE CloseSplit
    <2>1. ShowsTerminal(dock)
      <3>1. EmptyPanel(ctx).split = {}
        BY DEF EmptyPanel
      <3> QED BY <1>8, <3>1 DEF CloseSplit, ConInv
    <2>2. PICK s : panel' = [panel EXCEPT !.split = s]
      BY <1>8 DEF CloseSplit
    <2>3. UNCHANGED <<dock, ctx, cache, nextId, launch, left, count>>
      BY <1>8 DEF CloseSplit
    <2> QED BY <2>1, <2>2, <2>3, SplitKeeps
  <1>9. CASE ToggleTerminal
    <2>1. CASE launch.prompted
      BY <1>1, <1>9, <2>1, RequestKeeps DEF ToggleTerminal
    <2>2. CASE ~ launch.prompted
      <3>1. DockCommit(dock, ctx, OpenPicker(launch, "openTerminal"), panel)
        BY <1>9, <2>2 DEF ToggleTerminal
      <3> QED BY <1>1, <3>1, PickerFacts, QuietKeeps
    <2> QED BY <2>1, <2>2
  <1>10. ASSUME NEW pod \in Pods, OpenPodLogs(pod) PROVE ConInv'
    <2>1. CASE launch.prompted
      <3>1. PICK l : l = [launch EXCEPT !.request = pod]
        OBVIOUS
      <3>2. Launchable(l)
        BY <1>1, <3>1 DEF Launchable, LaunchFields
      <3> QED BY <1>10, <2>1, <3>1, <3>2, RequestKeeps DEF OpenPodLogs
    <2>2. CASE ~ launch.prompted
      <3>1. PICK l : l = [launch EXCEPT !.pending = pod]
        OBVIOUS
      <3>2. Launchable(l) /\ l.request = NoPod
        BY <1>1, <3>1 DEF Launchable, LaunchFields
      <3>3. DockCommit(dock, ctx, OpenPicker(l, "openPodLogs"), panel)
        BY <1>10, <2>2, <3>1 DEF OpenPodLogs
      <3> QED BY <1>1, <3>2, <3>3, PickerFacts, QuietKeeps
    <2> QED BY <2>1, <2>2
  <1>11. ASSUME NEW pod \in Pods, LaunchCommand(pod) PROVE ConInv'
    <2>1. PICK l : l = [launch EXCEPT !.request = pod]
      OBVIOUS
    <2>2. Launchable(l)
      BY <1>1, <2>1 DEF Launchable, LaunchFields
    <2> QED BY <1>11, <2>1, <2>2, RequestKeeps DEF LaunchCommand
  <1>12. CASE OpenShellPicker
    BY <1>1, <1>12, PickerFacts, QuietKeeps DEF OpenShellPicker
  <1>13. CASE ShellConfirm
    <2>1. PICK l : l = [launch EXCEPT !.prompted = TRUE, !.picker = FALSE, !.action = "none"]
      OBVIOUS
    <2>2. Launchable(l) /\ l.request = NoPod
      BY <1>1, <2>1 DEF Launchable, LaunchFields
    <2>3. CASE launch.action = "none"
      <3>1. DockCommit(dock, ctx, l, panel)
        BY <1>13, <2>1, <2>3 DEF ShellConfirm
      <3> QED BY <1>1, <2>2, <3>1, QuietKeeps
    <2>4. CASE launch.action = "openTerminal"
      <3>1. DockCommit(Opened("terminal"), ctx, l, panel)
        BY <1>13, <2>1, <2>4 DEF ShellConfirm
      <3> QED BY <2>2, <3>1, RequestKeeps
    <2>5. CASE launch.action = "openPodLogs"
      <3>1. PICK k : k = [l EXCEPT !.request = launch.pending, !.pending = NoPod]
        OBVIOUS
      <3>2. DockCommit(Opened("terminal"), ctx, k, panel)
        BY <1>13, <2>1, <2>5, <3>1 DEF ShellConfirm
      <3>3. Launchable(k)
        BY <1>1, <2>2, <3>1 DEF Launchable, LaunchFields
      <3> QED BY <3>2, <3>3, RequestKeeps
    <2> QED BY <1>1, <2>3, <2>4, <2>5 DEF Launchable
  <1>14. CASE ShellCancel
    <2>1. PICK l : l = [launch EXCEPT !.picker = FALSE, !.action = "none"]
      OBVIOUS
    <2>2. Launchable(l) /\ l.request = NoPod
      BY <1>1, <2>1 DEF Launchable, LaunchFields
    <2>3. DockCommit(dock, ctx, l, panel)
      BY <1>14, <2>1 DEF ShellCancel
    <2> QED BY <1>1, <2>2, <2>3, QuietKeeps
  <1>15. CASE UNCHANGED conVars
    BY <1>15 DEF conVars, ConInv, CachedShelf, EmptyPanel
  <1>16. CASE ConNext
    BY <1>2, <1>3, <1>4, <1>5, <1>6, <1>7, <1>8, <1>9, <1>10, <1>11, <1>12, <1>13, <1>14, <1>16,
       NewTabKeeps, CloseTabKeeps, SelectTabKeeps DEF ConNext
  <1> QED BY <1>15, <1>16

LEMMA ConStart == ConInit => ConInv
  <1> SUFFICES ASSUME ConInit PROVE ConInv
    OBVIOUS
  <1>1. ctx \in Ctxs
    BY ConsoleAssumption DEF ConInit
  <1>2. /\ DOMAIN dock = DockFields /\ nextId \in Nat /\ Launchable(launch) /\ launch.request = NoPod
        /\ DOMAIN left = {} /\ count.asked \in Nat /\ count.made = count.asked /\ ~ ShowsTerminal(dock)
    BY DEF ConInit, DockFields, LaunchFields, Launchable, ShowsTerminal
  <1>3. cache \in [Ctxs -> CachedTabs] /\ \A c \in Ctxs : cache[c].tabs = <<>>
    BY DEF ConInit, EmptyCache, CachedTabs
  <1>4. Sorted(CachedShelf, nextId)
    <2>1. \A c \in Ctxs : CachedShelf[c] = <<>>
      BY <1>3 DEF CachedShelf
    <2>2. PICK e : e = <<>>
      OBVIOUS
    <2>3. e \in Seq(Tabs) /\ 1 .. Len(e) = {}
      BY <2>2
    <2>4. \A c \in Ctxs : TabsOf(e, c, nextId)
      BY <2>3 DEF TabsOf
    <2>5. Apart(e, e)
      BY <2>3 DEF Apart
    <2> QED BY <2>1, <2>2, <2>4, <2>5 DEF Sorted
  <1>5. panel = EmptyPanel(ctx)
    BY DEF ConInit
  <1> QED BY <1>1, <1>2, <1>3, <1>4, <1>5, EmptyFacts DEF ConInv, ActiveIn

LEMMA ConInvTabs == ConInv => TabsKept
  <1> SUFFICES ASSUME ConInv PROVE TabsKept
    OBVIOUS
  <1>1. \A c \in Ctxs : TabsOf(cache[c].tabs, c, nextId)
    BY ShelfFacts
  <1>2. ctx \in Ctxs /\ (ShowsTerminal(dock) => cache[ctx].tabs = panel.tabs)
        /\ (~ ShowsTerminal(dock) => panel.tabs = <<>>)
    BY EmptyFacts DEF ConInv
  <1>3. TabsOf(panel.tabs, ctx, nextId) /\ \A c \in Ctxs \ {ctx} : Apart(cache[c].tabs, panel.tabs)
    <2>1. CASE ShowsTerminal(dock)
      <3>1. Sorted(CachedShelf, nextId) /\ \A c \in Ctxs : CachedShelf[c] = cache[c].tabs
        BY ShelfFacts
      <3>2. \A c \in Ctxs \ {ctx} : Apart(cache[c].tabs, cache[ctx].tabs)
        BY <1>2, <3>1 DEF Sorted
      <3> QED BY <1>1, <1>2, <2>1, <3>2
    <2>2. CASE ~ ShowsTerminal(dock)
      <3>1. PICK e : e = <<>>
        OBVIOUS
      <3>2. e \in Seq(Tabs) /\ 1 .. Len(e) = {} /\ panel.tabs = e
        BY <1>2, <2>2, <3>1
      <3> QED BY <3>2 DEF TabsOf, Apart
    <2> QED BY <2>1, <2>2
  <1>4. TabsOwnContext
    BY <1>1, <1>3 DEF TabsOwnContext, TabsOf
  <1>5. SwitchKeeps
    BY DEF ConInv, SwitchKeeps
  <1>6. ActiveOwn
    BY DEF ConInv, ActiveIn, ActiveOwn, Ids
  <1>7. LaunchedOnce
    BY DEF ConInv, LaunchedOnce
  <1>8. TabIdsUnique
    <2>1. Cardinality(Ids(panel.tabs)) = Len(panel.tabs)
      BY <1>3, OneIdEach
    <2>2. \A c \in Ctxs \ {ctx} : Ids(cache[c].tabs) \cap Ids(panel.tabs) = {}
      BY <1>3 DEF Apart, Ids
    <2> QED BY <2>1, <2>2 DEF TabIdsUnique
  <1> QED BY <1>4, <1>5, <1>6, <1>7, <1>8 DEF TabsKept

(* The tabs of the terminal stay their context's own and each command's own,
   whatever the dock shows and however often the context changes: of any number of
   contexts, pods and tabs (TerminalPanel.jsx, useTerminalTabs.js). *)
THEOREM TabsSafe == ConInit /\ [][ConNext]_conVars => []TabsKept
  <1>1. ConInv /\ [ConNext]_conVars => ConInv'
    BY ConStep
  <1> QED BY <1>1, ConStart, ConInvTabs, PTL
-----------------------------------------------------------------------------
(* A payload of k, or nothing *)
Own(d, k) == d = NoData \/ (d \in Payloads /\ d.of = k)

ShowsOwn(s, k) == Own(s.one, k) /\ Own(s.two, k)

(* What the cache may hold under ck: an overview under its main key, otherwise
   an answer for that key *)
EntryOf(ck) == IF hook \in {"overview", "priority"} /\ ck[2] = 2
               THEN {o \in Overviews : Own(o.one, ck[1]) /\ Own(o.two, ck[1])}
               ELSE {p \in Payloads : p.of = ck[1]}

(* the requests that no cache registers *)
Unshared(ck) == hook = "chain" \/ (hook = "overview" /\ ck[2] = 2)

HookFields == {"one", "two", "loading", "refreshing", "failed", "cache", "awaits"}
CacheParts == {"store", "inflight", "fetches"}
Entries == [key : Keys, data : Payloads \cup Overviews, fresh : BOOLEAN]
Requests == [id : 1..MaxFetches, key : Keys, stale : Payloads \cup Overviews \cup {NoData}]
Waiting == [wait : 1..MaxFetches, part : Parts, bg : BOOLEAN, latest : BOOLEAN]

StoreOwn(store) == store \in Seq(Entries) /\ \A i \in DOMAIN store : store[i].data \in EntryOf(store[i].key)

CacheRight(c) ==
  /\ DOMAIN c = CacheParts
  /\ StoreOwn(c.store) /\ c.inflight \in [Keys -> Nat] /\ c.fetches \subseteq Requests
  /\ \A f \in c.fetches : /\ f.stale \in EntryOf(f.key) \cup {NoData}
                          /\ hook = "priority" => f.key[2] = 1
  /\ \A f, e \in c.fetches : f.id = e.id => f = e
  /\ InflightAlive(c)
  /\ \A ck \in Keys : Unshared(ck) => c.inflight[ck] = 0

(* Whatever is selected: who waits, waits for a request under way. *)
Core(s) ==
  /\ DOMAIN s = HookFields /\ CacheRight(s.cache)
  /\ s.loading \in BOOLEAN /\ s.refreshing \in BOOLEAN /\ s.failed \in BOOLEAN
  /\ s.awaits \subseteq Waiting
  /\ \A a \in s.awaits : (\E f \in s.cache.fetches : f.id = a.wait) /\ (hook = "priority" => a.part = 1)

(* Who still counts, waits for a request of k. *)
WaitsFor(s, k) == \A a \in s.awaits, f \in s.cache.fetches : a.latest /\ f.id = a.wait => f.key[1] = k

AwaitsPart(s, part) == \E a \in s.awaits : a.latest /\ a.part = part

(* What may be shown of two parts *)
Shown(s) == /\ s.one \in Payloads \cup {NoData} /\ s.two \in Payloads \cup {NoData}
            /\ s.one # NoData /\ s.two # NoData => s.one.of = s.two.of
            /\ hook \in {"status", "manifest", "changes", "chain"} => s.two = NoData

(* The hooks that never show another key's answer, not even while they load *)
Strict == {"overview", "priority", "manifest", "changes"}

(* What is shown under k, with the hook enabled or not, for the generation x *)
PageRight(s, k, on, x) ==
  /\ Shown(s)
  /\ hook \in Strict => ShowsOwn(s, k)
  /\ on /\ ~s.loading /\ ~s.refreshing /\ ~s.failed => ShowsOwn(s, k)
  /\ hook = "catalog" /\ AwaitsPart(s, 2) => ShowsOwn(s, k)
  /\ s.loading \/ s.refreshing => \E a \in s.awaits : a.latest
  /\ hook = "changes" => ~s.refreshing /\ (s.one # NoData /\ s.loading => s.one.gen = x)

Right(s, k, on, x) == Core(s) /\ WaitsFor(s, k) /\ PageRight(s, k, on, x)

KnownHooks == {"status", "catalog", "overview", "priority", "manifest", "changes", "chain"}

HookInv ==
  /\ hook \in KnownHooks
  /\ key \in Targets \cup {NoTarget} /\ enabled \in BOOLEAN
  /\ hook = "manifest" => enabled
  /\ Right(h, key, enabled, gen)
-----------------------------------------------------------------------------
LEMMA EntryFacts ==
  ASSUME NEW t \in Targets, NEW part \in Parts
  PROVE  /\ <<t, part>> \in Keys /\ <<t, part>>[1] = t /\ <<t, part>>[2] = part
         /\ NoData \notin EntryOf(<<t, part>>) /\ EntryOf(<<t, part>>) \subseteq Payloads \cup Overviews
         /\ (part = 1 \/ hook \notin {"overview", "priority"}) =>
              \A d \in EntryOf(<<t, part>>) : d \in Payloads /\ d.of = t
         /\ part = 2 /\ hook \in {"overview", "priority"} =>
              \A d \in EntryOf(<<t, part>>) : d \in Overviews /\ Own(d.one, t) /\ Own(d.two, t)
  BY FetchAssumption DEF EntryOf, Keys, Parts

(* What is found under a key is an entry for it. *)
LEMMA PeekFacts ==
  ASSUME NEW store, StoreOwn(store), NEW ck, NEW d, d = Peek(store, ck)
  PROVE  (d # NoData \/ Fresh(store, ck)) => d \in EntryOf(ck)
  <1> DEFINE at == {i \in DOMAIN store : store[i].key = ck}
  <1>1. d = IF at = {} THEN NoData ELSE store[CHOOSE i \in at : TRUE].data
    BY DEF Peek
  <1>2. Fresh(store, ck) => at # {}
    BY DEF Fresh
  <1>3. \A i \in at : store[i].key = ck /\ i \in DOMAIN store
    OBVIOUS
  <1> HIDE DEF at
  <1>4. SUFFICES ASSUME at # {} PROVE d \in EntryOf(ck)
    BY <1>1, <1>2
  <1>5. PICK i \in at : d = store[i].data
    BY <1>1, <1>4
  <1> QED BY <1>3, <1>5 DEF StoreOwn

(* Writing an entry leaves others as they were. *)
LEMMA WriteFacts ==
  ASSUME NEW store, StoreOwn(store), NEW ck \in Keys, NEW data \in EntryOf(ck), data \in Payloads \cup Overviews,
         NEW r, r = WriteCache(store, ck, data)
  PROVE  StoreOwn(r)
  <1>1. PICK Q : Q = {e \in Held(store) : e.key # ck}
    OBVIOUS
  <1>2. PICK rest : rest = Keeping(store, Q)
    OBVIOUS
  <1>3. PICK new : new = [key |-> ck, data |-> data, fresh |-> TRUE]
    OBVIOUS
  <1>4. PICK kept : kept = Append(rest, new)
    OBVIOUS
  <1>5. PICK over : over = IF Len(kept) > MaxEntries THEN Len(kept) - MaxEntries ELSE 0
    OBVIOUS
  <1>6. r = SubSeq(kept, over + 1, Len(kept))
    BY <1>1, <1>2, <1>3, <1>4, <1>5 DEF WriteCache
  <1>7. rest \in Seq(Entries) /\ \A k \in 1..Len(rest) : \E j \in 1..Len(store) : rest[k] = store[j]
    <2>1. store \in Seq(Entries)
      BY DEF StoreOwn
    <2>2. IsKept(rest, store, Entries, Q)
      BY ONLY <1>2, <2>1, KeepingIsKept
    <2> QED BY <2>2 DEF IsKept
  <1>8. new \in Entries /\ new.key = ck /\ new.data = data
    BY <1>3 DEF Entries
  <1>9. /\ kept \in Seq(Entries) /\ Len(kept) = Len(rest) + 1 /\ kept[Len(rest) + 1] = new /\ Len(rest) \in Nat
        /\ \A i \in 1..Len(rest) : kept[i] = rest[i]
    BY <1>4, <1>7, <1>8, AppendProperties
  <1>10. over \in 0..Len(rest)
    BY <1>5, <1>9, CacheAssumption
  <1>11. /\ r \in Seq(Entries) /\ Len(r) = Len(kept) - over
         /\ \A i \in 1..Len(kept) - over : r[i] = kept[over + i]
    BY <1>6, <1>9, <1>10
  <1>12. DOMAIN r = 1..Len(r) /\ DOMAIN store = 1..Len(store)
    BY <1>11, LenProperties DEF StoreOwn
  <1>13. ASSUME NEW i \in DOMAIN r PROVE r[i].data \in EntryOf(r[i].key)
    <2>1. r[i] = kept[over + i] /\ over + i \in 1..Len(rest) + 1
      BY <1>9, <1>10, <1>11, <1>12
    <2>2. CASE over + i = Len(rest) + 1
      BY <1>8, <1>9, <2>1, <2>2
    <2>3. CASE over + i \in 1..Len(rest)
      BY <1>7, <1>9, <1>12, <2>1, <2>3 DEF StoreOwn
    <2> QED BY <2>1, <2>2, <2>3, <1>9
  <1> QED BY <1>11, <1>13 DEF StoreOwn

(* What is left of a store is its own. *)
LEMMA LeftFacts ==
  ASSUME NEW store, StoreOwn(store), NEW Q PROVE StoreOwn(Keeping(store, Q))
  <1>1. store \in Seq(Entries)
    BY DEF StoreOwn
  <1>2. PICK rest : rest = Keeping(store, Q)
    OBVIOUS
  <1>3. IsKept(rest, store, Entries, Q)
    BY ONLY <1>1, <1>2, KeepingIsKept
  <1>4. rest \in Seq(Entries) /\ \A k \in 1..Len(rest) : \E j \in 1..Len(store) : rest[k] = store[j]
    BY <1>3 DEF IsKept
  <1>5. DOMAIN rest = 1..Len(rest) /\ DOMAIN store = 1..Len(store)
    BY <1>1, <1>4, LenProperties
  <1>6. StoreOwn(rest)
    BY <1>4, <1>5 DEF StoreOwn
  <1> QED BY <1>2, <1>6
-----------------------------------------------------------------------------
FreshId(s, id) == id \in 1..MaxFetches /\ \A f \in s.cache.fetches : f.id # id

UnderWay(s, w, ck) == \E f \in s.cache.fetches : f.id = w /\ f.key = ck

(* t shows what s shows. *)
ShowsAs(t, s) == /\ t.one = s.one /\ t.two = s.two
                 /\ t.loading = s.loading /\ t.refreshing = s.refreshing /\ t.failed = s.failed

LEMMA SupersededFacts ==
  ASSUME NEW s, Core(s), NEW t, t = Superseded(s)
  PROVE  /\ Core(t) /\ (\A a \in t.awaits : ~a.latest) /\ ShowsAs(t, s) /\ t.cache = s.cache
  <1>1. DOMAIN s = HookFields /\ s.awaits \subseteq Waiting
    BY DEF Core
  <1>2. DOMAIN t = HookFields /\ ShowsAs(t, s) /\ t.cache = s.cache
    BY <1>1 DEF Superseded, HookFields, ShowsAs
  <1>3. t.awaits = {[a EXCEPT !.latest = FALSE] : a \in s.awaits}
    BY <1>1 DEF Superseded, HookFields
  <1>4. ASSUME NEW a \in s.awaits, NEW b, b = [a EXCEPT !.latest = FALSE]
        PROVE  b \in Waiting /\ b.wait = a.wait /\ b.part = a.part /\ ~b.latest
    BY <1>1, <1>4 DEF Waiting
  <1>5. \A b \in t.awaits : \E a \in s.awaits : b \in Waiting /\ b.wait = a.wait /\ b.part = a.part /\ ~b.latest
    BY <1>3, <1>4
  <1> QED BY <1>2, <1>5 DEF Core, ShowsAs

(* A request is added to a cache, registered or not. *)
LEMMA StartFacts ==
  ASSUME NEW c, CacheRight(c), NEW ck \in Keys, NEW id \in 1..MaxFetches, \A f \in c.fetches : f.id # id,
         hook = "priority" => ck[2] = 1, NEW stale \in EntryOf(ck) \cup {NoData},
         stale \in Payloads \cup Overviews \cup {NoData},
         NEW d, DOMAIN d = CacheParts, d.store = c.store,
         d.fetches = c.fetches \cup {[id |-> id, key |-> ck, stale |-> stale]},
         d.inflight = c.inflight \/ (d.inflight = [c.inflight EXCEPT ![ck] = id] /\ ~Unshared(ck))
  PROVE  CacheRight(d) /\ \E f \in d.fetches : f.id = id /\ f.key = ck
  <1>1. PICK f : f = [id |-> id, key |-> ck, stale |-> stale]
    OBVIOUS
  <1>2. f \in Requests /\ f.id = id /\ f.key = ck /\ f.stale = stale
    BY <1>1 DEF Requests
  <1>3. d.fetches = c.fetches \cup {f}
    BY <1>1
  <1>4. /\ c.inflight \in [Keys -> Nat] /\ c.fetches \subseteq Requests /\ InflightAlive(c)
        /\ \A e \in Keys : Unshared(e) => c.inflight[e] = 0
    BY DEF CacheRight
  <1>5. d.inflight \in [Keys -> Nat]
    BY <1>4
  <1>6. \A k \in Keys : d.inflight[k] = c.inflight[k] \/ (k = ck /\ d.inflight[k] = id /\ ~Unshared(ck))
    BY <1>4
  <1>7. InflightAlive(d)
    <2> SUFFICES ASSUME NEW k \in Keys, d.inflight[k] # 0
                 PROVE  \E e \in d.fetches : e.id = d.inflight[k] /\ e.key = k
      BY <1>5 DEF InflightAlive
    <2>1. CASE d.inflight[k] = c.inflight[k]
      BY <1>3, <1>4, <2>1 DEF InflightAlive
    <2>2. CASE k = ck /\ d.inflight[k] = id
      BY <1>2, <1>3, <2>2
    <2> QED BY <1>6, <2>1, <2>2
  <1>8. \A e \in Keys : Unshared(e) => d.inflight[e] = 0
    BY <1>4, <1>6
  <1>9. \A e \in d.fetches : e \in Requests /\ e.stale \in EntryOf(e.key) \cup {NoData} /\ (hook = "priority" => e.key[2] = 1)
    BY <1>2, <1>3, <1>4 DEF CacheRight
  <1>10. \A e, g \in d.fetches : e.id = g.id => e = g
    BY <1>2, <1>3 DEF CacheRight
  <1>11. CacheRight(d)
    BY <1>5, <1>7, <1>8, <1>9, <1>10 DEF CacheRight
  <1> QED BY <1>2, <1>3, <1>11
(* A load: what is at hand is the key's, what is waited for is under way. *)
LEMMA LoadFacts ==
  ASSUME NEW c, CacheRight(c), NEW ck \in Keys, ~Unshared(ck), NEW force \in BOOLEAN,
         NEW id \in 1..MaxFetches, \A f \in c.fetches : f.id # id, hook = "priority" => ck[2] = 1,
         EntryOf(ck) \subseteq Payloads \cup Overviews, NoData \notin EntryOf(ck),
         NEW l, l = Load(c, ck, force, id)
  PROVE  /\ CacheRight(l.cache) /\ l.cache.store = c.store
         /\ \A f \in c.fetches : f \in l.cache.fetches
         /\ \A f \in l.cache.fetches : f \in c.fetches \/ f.id = id
         /\ l.wait = 0 => l.data \in EntryOf(ck)
         /\ l.wait # 0 => \E f \in l.cache.fetches : f.id = l.wait /\ f.key = ck
  <1>1. PICK entry : entry = Peek(c.store, ck)
    OBVIOUS
  <1>2. /\ DOMAIN c = CacheParts /\ StoreOwn(c.store) /\ c.inflight \in [Keys -> Nat] /\ InflightAlive(c)
    BY DEF CacheRight
  <1>3. (entry # NoData \/ Fresh(c.store, ck)) => entry \in EntryOf(ck)
    BY <1>1, <1>2, PeekFacts
  <1>4. entry \in EntryOf(ck) \cup {NoData} /\ entry \in Payloads \cup Overviews \cup {NoData}
    BY <1>3
  <1>5. PICK started : started = [c EXCEPT !.inflight[ck] = id,
                                          !.fetches = @ \cup {[id |-> id, key |-> ck, stale |-> entry]}]
    OBVIOUS
  <1>6. /\ DOMAIN started = CacheParts /\ started.store = c.store
        /\ started.inflight = [c.inflight EXCEPT ![ck] = id]
        /\ started.fetches = c.fetches \cup {[id |-> id, key |-> ck, stale |-> entry]}
    BY <1>2, <1>5 DEF CacheParts
  <1>7. CacheRight(started) /\ \E f \in started.fetches : f.id = id /\ f.key = ck
    BY <1>4, <1>6, StartFacts
  <1>9. \/ l = [cache |-> c, data |-> entry, wait |-> 0] /\ Fresh(c.store, ck)
        \/ l = [cache |-> c, data |-> NoData, wait |-> c.inflight[ck]] /\ c.inflight[ck] # 0
        \/ l = [cache |-> started, data |-> entry, wait |-> 0] /\ entry # NoData
        \/ l = [cache |-> started, data |-> NoData, wait |-> id]
    BY <1>1, <1>5 DEF Load
  <1>10. CASE l = [cache |-> c, data |-> entry, wait |-> 0] /\ Fresh(c.store, ck)
    BY <1>3, <1>10
  <1>11. CASE l = [cache |-> c, data |-> NoData, wait |-> c.inflight[ck]] /\ c.inflight[ck] # 0
    BY <1>2, <1>11 DEF InflightAlive
  <1>12. CASE l = [cache |-> started, data |-> entry, wait |-> 0] /\ entry # NoData
    BY <1>3, <1>6, <1>7, <1>12
  <1>13. CASE l = [cache |-> started, data |-> NoData, wait |-> id]
    BY <1>6, <1>7, <1>13
  <1> QED BY <1>9, <1>10, <1>11, <1>12, <1>13

(* With the cache of a load in its place, the hook is right as before. *)
LEMMA GrownFacts ==
  ASSUME NEW s, Core(s), NEW k, WaitsFor(s, k), NEW id, FreshId(s, id), NEW c, CacheRight(c),
         \A f \in s.cache.fetches : f \in c.fetches,
         \A f \in c.fetches : f \in s.cache.fetches \/ f.id = id,
         NEW t, t = [s EXCEPT !.cache = c]
  PROVE  /\ Core(t) /\ WaitsFor(t, k) /\ ShowsAs(t, s) /\ t.awaits = s.awaits /\ t.cache = c
         /\ \A i : FreshId(s, i) /\ i # id => FreshId(t, i)
  <1>1. DOMAIN t = HookFields /\ ShowsAs(t, s) /\ t.awaits = s.awaits /\ t.cache = c
    BY DEF Core, HookFields, ShowsAs
  <1>2. \A a \in s.awaits : a.wait # id
    BY DEF Core, FreshId
  <1>3. Core(t)
    BY <1>1 DEF Core, ShowsAs
  <1>4. WaitsFor(t, k)
    BY <1>1, <1>2 DEF WaitsFor
  <1> QED BY <1>1, <1>3, <1>4 DEF FreshId

LEMMA LoadStep ==
  ASSUME NEW s, Core(s), NEW k, WaitsFor(s, k), NEW t \in Targets, NEW part \in Parts, NEW force \in BOOLEAN,
         NEW id, FreshId(s, id), ~Unshared(<<t, part>>), hook = "priority" => part = 1,
         NEW l, l = Load(s.cache, <<t, part>>, force, id), NEW r, r = [s EXCEPT !.cache = l.cache]
  PROVE  /\ Core(r) /\ WaitsFor(r, k) /\ ShowsAs(r, s) /\ r.awaits = s.awaits /\ r.cache.store = s.cache.store
         /\ \A i : FreshId(s, i) /\ i # id => FreshId(r, i)
         /\ l.wait = 0 => l.data \in EntryOf(<<t, part>>)
         /\ l.wait # 0 => UnderWay(r, l.wait, <<t, part>>)
  <1>1. PICK ck : ck = <<t, part>>
    OBVIOUS
  <1>2. ck \in Keys /\ ck[2] = part /\ NoData \notin EntryOf(ck) /\ EntryOf(ck) \subseteq Payloads \cup Overviews
    BY <1>1, EntryFacts
  <1>3. CacheRight(s.cache) /\ id \in 1..MaxFetches /\ \A f \in s.cache.fetches : f.id # id
    BY DEF Core, FreshId
  <1>4. l = Load(s.cache, ck, force, id) /\ ~Unshared(ck) /\ (hook = "priority" => ck[2] = 1)
    BY <1>1, <1>2
  <1>5. /\ CacheRight(l.cache) /\ l.cache.store = s.cache.store
        /\ \A f \in s.cache.fetches : f \in l.cache.fetches
        /\ \A f \in l.cache.fetches : f \in s.cache.fetches \/ f.id = id
        /\ l.wait = 0 => l.data \in EntryOf(ck)
        /\ l.wait # 0 => \E f \in l.cache.fetches : f.id = l.wait /\ f.key = ck
    BY <1>2, <1>3, <1>4, LoadFacts
  <1>6. PICK c : c = l.cache
    OBVIOUS
  <1>7. /\ Core(r) /\ WaitsFor(r, k) /\ ShowsAs(r, s) /\ r.awaits = s.awaits /\ r.cache = c
        /\ \A i : FreshId(s, i) /\ i # id => FreshId(r, i)
    BY <1>5, <1>6, GrownFacts
  <1> QED BY <1>1, <1>5, <1>6, <1>7 DEF UnderWay

(* A request that is registered without a time to live, or not registered *)
LEMMA SharedStep ==
  ASSUME NEW s, Core(s), NEW k, WaitsFor(s, k), NEW t \in Targets, NEW id, FreshId(s, id),
         hook \in {"manifest", "changes"},
         NEW l, l = Shared(s, <<t, 1>>, id), NEW r, r = [s EXCEPT !.cache = l.cache]
  PROVE  /\ Core(r) /\ WaitsFor(r, k) /\ ShowsAs(r, s) /\ r.awaits = s.awaits
         /\ UnderWay(r, l.wait, <<t, 1>>)
  <1>1. PICK ck : ck = <<t, 1>>
    OBVIOUS
  <1>2. ck \in Keys /\ ck[2] = 1 /\ ~Unshared(ck)
    BY <1>1, EntryFacts DEF Parts, Unshared
  <1>3. CacheRight(s.cache) /\ id \in 1..MaxFetches /\ \A f \in s.cache.fetches : f.id # id
    BY DEF Core, FreshId
  <1>4. PICK c : c = [s.cache EXCEPT !.inflight[ck] = id,
                                     !.fetches = @ \cup {[id |-> id, key |-> ck, stale |-> NoData]}]
    OBVIOUS
  <1>5. /\ DOMAIN c = CacheParts /\ c.store = s.cache.store
        /\ c.inflight = [s.cache.inflight EXCEPT ![ck] = id]
        /\ c.fetches = s.cache.fetches \cup {[id |-> id, key |-> ck, stale |-> NoData]}
    BY <1>3, <1>4 DEF CacheParts, CacheRight
  <1>6. CacheRight(c) /\ \E f \in c.fetches : f.id = id /\ f.key = ck
    BY <1>2, <1>3, <1>5, StartFacts
  <1>7. \/ l = [cache |-> s.cache, data |-> NoData, wait |-> s.cache.inflight[ck]] /\ s.cache.inflight[ck] # 0
        \/ l = [cache |-> c, data |-> NoData, wait |-> id]
    BY <1>1, <1>4 DEF Shared
  <1>8. PICK d : d = l.cache
    OBVIOUS
  <1>9. /\ CacheRight(d) /\ \A f \in s.cache.fetches : f \in d.fetches
        /\ \A f \in d.fetches : f \in s.cache.fetches \/ f.id = id
    BY <1>3, <1>5, <1>6, <1>7, <1>8
  <1>10. /\ Core(r) /\ WaitsFor(r, k) /\ ShowsAs(r, s) /\ r.awaits = s.awaits /\ r.cache = d
    BY <1>8, <1>9, GrownFacts
  <1>11. \E f \in d.fetches : f.id = l.wait /\ f.key = ck
    <2>1. CASE l = [cache |-> s.cache, data |-> NoData, wait |-> s.cache.inflight[ck]] /\ s.cache.inflight[ck] # 0
      BY <1>2, <1>3, <1>8, <2>1 DEF CacheRight, InflightAlive
    <2>2. CASE l = [cache |-> c, data |-> NoData, wait |-> id]
      BY <1>6, <1>8, <2>2
    <2> QED BY <1>7, <2>1, <2>2
  <1> QED BY <1>1, <1>10, <1>11 DEF UnderWay

LEMMA PlainStep ==
  ASSUME NEW s, Core(s), NEW k, WaitsFor(s, k), NEW t \in Targets, NEW part \in Parts, NEW id, FreshId(s, id),
         hook = "priority" => part = 1, NEW r, r = Plain(s, <<t, part>>, id)
  PROVE  /\ Core(r) /\ WaitsFor(r, k) /\ ShowsAs(r, s) /\ r.awaits = s.awaits
         /\ UnderWay(r, id, <<t, part>>)
  <1>1. PICK ck : ck = <<t, part>>
    OBVIOUS
  <1>2. ck \in Keys /\ ck[2] = part
    BY <1>1, EntryFacts
  <1>3. CacheRight(s.cache) /\ id \in 1..MaxFetches /\ (\A f \in s.cache.fetches : f.id # id) /\ DOMAIN s = HookFields
    BY DEF Core, FreshId
  <1>4. PICK c : c = [s.cache EXCEPT !.fetches = @ \cup {[id |-> id, key |-> ck, stale |-> NoData]}]
    OBVIOUS
  <1>5. /\ DOMAIN c = CacheParts /\ c.store = s.cache.store /\ c.inflight = s.cache.inflight
        /\ c.fetches = s.cache.fetches \cup {[id |-> id, key |-> ck, stale |-> NoData]}
    BY <1>3, <1>4 DEF CacheParts, CacheRight
  <1>6. CacheRight(c) /\ \E f \in c.fetches : f.id = id /\ f.key = ck
    <2>1. /\ c.inflight = s.cache.inflight \/ (c.inflight = [s.cache.inflight EXCEPT ![ck] = id] /\ ~Unshared(ck))
          /\ NoData \in EntryOf(ck) \cup {NoData} /\ NoData \in Payloads \cup Overviews \cup {NoData}
          /\ hook = "priority" => ck[2] = 1
      BY <1>2, <1>5
    <2>2. PICK old : old = s.cache
      OBVIOUS
    <2>3. CacheRight(old) /\ \A f \in old.fetches : f.id # id
      BY <1>3, <2>2
    <2>4. /\ DOMAIN c = CacheParts /\ c.store = old.store
          /\ c.fetches = old.fetches \cup {[id |-> id, key |-> ck, stale |-> NoData]}
          /\ c.inflight = old.inflight \/ (c.inflight = [old.inflight EXCEPT ![ck] = id] /\ ~Unshared(ck))
      BY <1>5, <2>2
    <2>5. ck \in Keys /\ id \in 1..MaxFetches
      BY <1>2, <1>3
    <2> QED BY ONLY <2>1, <2>3, <2>4, <2>5, StartFacts
  <1>7. r = [s EXCEPT !.cache = c]
    BY <1>1, <1>3, <1>4 DEF Plain, HookFields
  <1>8. /\ Core(r) /\ WaitsFor(r, k) /\ ShowsAs(r, s) /\ r.awaits = s.awaits /\ r.cache = c
    BY <1>5, <1>6, <1>7, GrownFacts
  <1> QED BY <1>1, <1>6, <1>8 DEF UnderWay

LEMMA WaitsStep ==
  ASSUME NEW s, Core(s), NEW k \in Targets, WaitsFor(s, k), NEW w, NEW p \in Parts, UnderWay(s, w, <<k, p>>),
         NEW part \in Parts, hook = "priority" => part = 1, NEW bg \in BOOLEAN, NEW r, r = Waits(s, w, part, bg)
  PROVE  /\ Core(r) /\ WaitsFor(r, k) /\ ShowsAs(r, s) /\ r.cache = s.cache
         /\ \E a \in r.awaits : a.latest
         /\ AwaitsPart(r, 2) => part = 2 \/ AwaitsPart(s, 2)
  <1>1. PICK b : b = [wait |-> w, part |-> part, bg |-> bg, latest |-> TRUE]
    OBVIOUS
  <1>2. PICK f \in s.cache.fetches : f.id = w /\ f.key = <<k, p>>
    BY DEF UnderWay
  <1>3. f \in Requests /\ w \in 1..MaxFetches /\ f.key[1] = k
    BY <1>2 DEF Core, CacheRight, Requests
  <1>4. b \in Waiting /\ b.wait = w /\ b.part = part /\ b.latest
    BY <1>1, <1>3 DEF Waiting
  <1>5. DOMAIN r = HookFields /\ ShowsAs(r, s) /\ r.cache = s.cache /\ r.awaits = s.awaits \cup {b}
    BY <1>1 DEF Core, Waits, HookFields, ShowsAs
  <1>6. Core(r)
    BY <1>2, <1>4, <1>5 DEF Core, ShowsAs
  <1>7. \A e \in s.cache.fetches : e.id = w => e = f
    BY <1>2 DEF Core, CacheRight
  <1>8. WaitsFor(r, k)
    BY <1>3, <1>4, <1>5, <1>7 DEF WaitsFor
  <1> QED BY <1>4, <1>5, <1>6, <1>8 DEF AwaitsPart
-----------------------------------------------------------------------------
(* useClusterStatus *)
LEMMA RefreshStatusFacts ==
  ASSUME hook = "status", NEW s, Core(s), Shown(s), NEW k \in Targets, NEW background \in BOOLEAN,
         NEW force \in BOOLEAN, NEW id, FreshId(s, id), NEW r, r = RefreshStatus(s, k, background, force, id),
         NEW on, NEW x
  PROVE  Right(r, k, on, x)
  <1>1. PICK t : t = Superseded(s)
    OBVIOUS
  <1>2. Core(t) /\ (\A a \in t.awaits : ~a.latest) /\ ShowsAs(t, s) /\ t.cache = s.cache
    BY <1>1, SupersededFacts
  <1> DEFINE bg == background \/ (PeekPart(s, k, 1) # NoData /\ ~force)
  <1>4. PICK s1 : s1 = [t EXCEPT !.loading = @ \/ ~bg, !.refreshing = @ \/ bg]
    OBVIOUS
  <1>5. /\ DOMAIN s1 = HookFields /\ s1.one = s.one /\ s1.two = s.two /\ s1.failed = s.failed
        /\ s1.cache = s.cache /\ s1.awaits = t.awaits /\ (s1.loading \/ s1.refreshing)
        /\ s1.loading \in BOOLEAN /\ s1.refreshing \in BOOLEAN
    BY <1>2, <1>4 DEF Core, HookFields, ShowsAs
  <1>6. Core(s1) /\ WaitsFor(s1, k) /\ FreshId(s1, id)
    BY <1>2, <1>5 DEF Core, WaitsFor, FreshId, ShowsAs
  <1>7. PICK l : l = Load(s1.cache, <<k, 1>>, force, id)
    OBVIOUS
  <1>8. PICK s2 : s2 = [s1 EXCEPT !.cache = l.cache]
    OBVIOUS
  <1>9. 1 \in Parts /\ ~Unshared(<<k, 1>>) /\ bg \in BOOLEAN
    BY DEF Parts, Unshared
  <1>10. /\ Core(s2) /\ WaitsFor(s2, k) /\ ShowsAs(s2, s1)
         /\ l.wait = 0 => l.data \in EntryOf(<<k, 1>>)
         /\ l.wait # 0 => UnderWay(s2, l.wait, <<k, 1>>)
    BY <1>6, <1>7, <1>8, <1>9, LoadStep
  <1>11. r = IF l.wait = 0 THEN Settled([s2 EXCEPT !.one = l.data]) ELSE Waits(s2, l.wait, 1, bg)
    BY <1>1, <1>4, <1>7, <1>8 DEF RefreshStatus
  <1> HIDE DEF bg
  <1>12. CASE l.wait = 0
    <2>1. l.data \in Payloads /\ l.data.of = k
      BY <1>9, <1>10, <1>12, EntryFacts
    <2>2. /\ DOMAIN r = HookFields /\ r.one = l.data /\ r.two = s2.two /\ r.loading = FALSE /\ r.refreshing = FALSE
          /\ r.failed = s2.failed /\ r.cache = s2.cache /\ r.awaits = s2.awaits
      BY <1>10, <1>11, <1>12 DEF Settled, Core, HookFields
    <2>3. Core(r) /\ WaitsFor(r, k)
      BY <1>10, <2>2 DEF Core, WaitsFor
    <2>4. Shown(r) /\ ShowsOwn(r, k)
      BY <1>5, <1>10, <2>1, <2>2 DEF Shown, ShowsOwn, ShowsAs, Own
    <2> QED BY <2>2, <2>3, <2>4 DEF Right, PageRight
  <1>13. CASE l.wait # 0
    <2>1. /\ Core(r) /\ WaitsFor(r, k) /\ ShowsAs(r, s2) /\ \E a \in r.awaits : a.latest
      BY <1>9, <1>10, <1>11, <1>13, WaitsStep
    <2>2. /\ Shown(r) /\ (r.loading \/ r.refreshing)
      BY <1>5, <1>10, <2>1 DEF Shown, ShowsAs
    <2> QED BY <2>1, <2>2 DEF Right, PageRight, Strict
  <1> QED BY <1>12, <1>13

LEMMA StatusEffectFacts ==
  ASSUME hook = "status", NEW s, Core(s), Shown(s), NEW k \in Targets, NEW id, FreshId(s, id),
         NEW r, r = StatusEffect(s, k, id), NEW on, NEW x
  PROVE  Right(r, k, on, x)
  <1>1. PICK t : t = Superseded(s)
    OBVIOUS
  <1>2. Core(t) /\ ShowsAs(t, s) /\ t.cache = s.cache
    BY <1>1, SupersededFacts
  <1>3. PICK cached : cached = PeekPart(s, k, 1)
    OBVIOUS
  <1>4. cached # NoData => cached \in Payloads /\ cached.of = k
    <2>1. StoreOwn(s.cache.store) /\ cached = Peek(s.cache.store, <<k, 1>>) /\ 1 \in Parts
      BY <1>3 DEF PeekPart, Core, CacheRight, Parts
    <2>2. cached # NoData => cached \in EntryOf(<<k, 1>>)
      BY <2>1, PeekFacts
    <2> QED BY <2>1, <2>2, EntryFacts
  <1>5. PICK s1 : s1 = [t EXCEPT !.one = IF cached # NoData THEN cached ELSE @, !.loading = (cached = NoData)]
    OBVIOUS
  <1>6. /\ DOMAIN s1 = HookFields /\ s1.one = (IF cached # NoData THEN cached ELSE s.one) /\ s1.two = s.two
        /\ s1.failed = s.failed /\ s1.refreshing = s.refreshing /\ s1.cache = s.cache /\ s1.awaits = t.awaits
        /\ s1.loading \in BOOLEAN
    BY <1>2, <1>5 DEF Core, HookFields, ShowsAs
  <1>7. Core(s1) /\ Shown(s1) /\ FreshId(s1, id)
    BY <1>2, <1>4, <1>6 DEF Core, Shown, FreshId, ShowsAs
  <1>8. PICK bg : bg = (cached # NoData)
    OBVIOUS
  <1>9. r = RefreshStatus(s1, k, bg, FALSE, id) /\ bg \in BOOLEAN /\ FALSE \in BOOLEAN
    BY <1>1, <1>3, <1>5, <1>8 DEF StatusEffect
  <1> QED BY <1>7, <1>9, RefreshStatusFacts
-----------------------------------------------------------------------------
(* useResourceCatalog *)
LEMMA ApplyCachedCatalogFacts ==
  ASSUME hook = "catalog", NEW s, Core(s), Shown(s), NEW k \in Targets, NEW r, r = ApplyCachedCatalog(s, k)
  PROVE  /\ Core(r) /\ Shown(r) /\ r.refreshing = s.refreshing /\ r.failed = s.failed
         /\ r.cache = s.cache /\ r.awaits = s.awaits
  <1>1. ASSUME NEW part \in Parts, NEW d, d = PeekPart(s, k, part), d # NoData PROVE d \in Payloads /\ d.of = k
    BY <1>1, PeekFacts, EntryFacts DEF PeekPart, Core, CacheRight
  <1>2. PICK d1, d2 : d1 = PeekPart(s, k, 1) /\ d2 = PeekPart(s, k, 2)
    OBVIOUS
  <1>3. (d1 # NoData => d1 \in Payloads /\ d1.of = k) /\ (d2 # NoData => d2 \in Payloads /\ d2.of = k)
    BY <1>1, <1>2 DEF Parts
  <1>4. r = IF d1 = NoData /\ d2 = NoData THEN s ELSE [s EXCEPT !.one = d1, !.two = d2, !.loading = FALSE]
    BY <1>2 DEF ApplyCachedCatalog
  <1>5. CASE d1 = NoData /\ d2 = NoData
    BY <1>4, <1>5
  <1>6. CASE ~(d1 = NoData /\ d2 = NoData)
    <2>1. /\ DOMAIN r = HookFields /\ r.one = d1 /\ r.two = d2 /\ r.loading = FALSE /\ r.refreshing = s.refreshing
          /\ r.failed = s.failed /\ r.cache = s.cache /\ r.awaits = s.awaits
      BY <1>4, <1>6 DEF Core, HookFields
    <2> QED BY <1>3, <2>1 DEF Core, Shown
  <1> QED BY <1>5, <1>6

LEMMA CatalogCountsFacts ==
  ASSUME hook = "catalog", NEW s, Core(s), NEW k \in Targets, WaitsFor(s, k), Own(s.one, k),
         NEW force \in BOOLEAN, NEW id, FreshId(s, id), NEW r, r = CatalogCounts(s, k, force, id), NEW on, NEW x
  PROVE  Right(r, k, on, x)
  <1>1. PICK s1 : s1 = [s EXCEPT !.loading = FALSE, !.refreshing = TRUE, !.two = NoData]
    OBVIOUS
  <1>2. /\ DOMAIN s1 = HookFields /\ s1.one = s.one /\ s1.two = NoData /\ s1.failed = s.failed
        /\ s1.cache = s.cache /\ s1.awaits = s.awaits /\ ~s1.loading /\ s1.refreshing
        /\ s1.loading \in BOOLEAN /\ s1.refreshing \in BOOLEAN
    BY <1>1 DEF Core, HookFields
  <1>3. Core(s1) /\ WaitsFor(s1, k) /\ FreshId(s1, id)
    BY <1>2 DEF Core, WaitsFor, FreshId
  <1>4. PICK l : l = Load(s1.cache, <<k, 2>>, force, id)
    OBVIOUS
  <1>5. PICK s2 : s2 = [s1 EXCEPT !.cache = l.cache]
    OBVIOUS
  <1>6. 2 \in Parts /\ ~Unshared(<<k, 2>>)
    BY DEF Parts, Unshared
  <1>7. /\ Core(s2) /\ WaitsFor(s2, k) /\ ShowsAs(s2, s1)
        /\ l.wait = 0 => l.data \in EntryOf(<<k, 2>>)
        /\ l.wait # 0 => UnderWay(s2, l.wait, <<k, 2>>)
    BY <1>3, <1>4, <1>5, <1>6, LoadStep
  <1>8. r = IF l.wait = 0 THEN Settled([s2 EXCEPT !.two = l.data]) ELSE Waits(s2, l.wait, 2, force)
    BY <1>1, <1>4, <1>5 DEF CatalogCounts
  <1>9. CASE l.wait = 0
    <2>1. l.data \in Payloads /\ l.data.of = k
      BY <1>6, <1>7, <1>9, EntryFacts
    <2>2. /\ DOMAIN r = HookFields /\ r.one = s2.one /\ r.two = l.data /\ r.loading = FALSE /\ r.refreshing = FALSE
          /\ r.failed = s2.failed /\ r.cache = s2.cache /\ r.awaits = s2.awaits
      BY <1>7, <1>8, <1>9 DEF Settled, Core, HookFields
    <2>3. Core(r) /\ WaitsFor(r, k)
      BY <1>7, <2>2 DEF Core, WaitsFor
    <2>4. Shown(r) /\ ShowsOwn(r, k)
      BY <1>2, <1>7, <2>1, <2>2 DEF Shown, ShowsOwn, ShowsAs, Own
    <2> QED BY <2>2, <2>3, <2>4 DEF Right, PageRight
  <1>10. CASE l.wait # 0
    <2>1. Core(r) /\ WaitsFor(r, k) /\ ShowsAs(r, s2) /\ \E a \in r.awaits : a.latest
      BY <1>6, <1>7, <1>8, <1>10, WaitsStep
    <2>2. Shown(r) /\ ShowsOwn(r, k)
      BY <1>2, <1>7, <2>1 DEF Shown, ShowsOwn, ShowsAs, Own
    <2> QED BY <2>1, <2>2 DEF Right, PageRight
  <1> QED BY <1>9, <1>10

LEMMA ReloadCatalogFacts ==
  ASSUME hook = "catalog", NEW s, Core(s), Shown(s), NEW k \in Targets, NEW force \in BOOLEAN,
         NEW id, FreshId(s, id), NEW id2, FreshId(s, id2), id2 # id,
         NEW r, r = ReloadCatalog(s, k, force, id, id2), NEW on, NEW x
  PROVE  Right(r, k, on, x)
  <1>1. PICK t : t = Superseded(s)
    OBVIOUS
  <1>2. Core(t) /\ (\A a \in t.awaits : ~a.latest) /\ ShowsAs(t, s) /\ t.cache = s.cache
    BY <1>1, SupersededFacts
  <1>3. Shown(t)
    BY <1>2 DEF Shown, ShowsAs
  <1>4. PICK c : c = ApplyCachedCatalog(t, k)
    OBVIOUS
  <1>5. Core(c) /\ Shown(c) /\ c.cache = s.cache /\ c.awaits = t.awaits
    BY <1>2, <1>3, <1>4, ApplyCachedCatalogFacts
  <1>6. PICK s1 : s1 = [c EXCEPT !.failed = FALSE]
    OBVIOUS
  <1>7. PICK s2 : s2 = IF PeekPart(s, k, 1) # NoData THEN [s1 EXCEPT !.refreshing = TRUE] ELSE [s1 EXCEPT !.loading = TRUE]
    OBVIOUS
  <1>8. /\ DOMAIN s2 = HookFields /\ s2.one = c.one /\ s2.two = c.two /\ s2.cache = s.cache /\ s2.awaits = t.awaits
        /\ s2.failed = FALSE /\ s2.loading \in BOOLEAN /\ s2.refreshing \in BOOLEAN /\ (s2.loading \/ s2.refreshing)
    BY <1>5, <1>6, <1>7 DEF Core, HookFields
  <1>9. Core(s2) /\ WaitsFor(s2, k) /\ Shown(s2) /\ FreshId(s2, id) /\ FreshId(s2, id2)
    <2>1. Core(s2)
      BY <1>2, <1>5, <1>8 DEF Core
    <2>2. WaitsFor(s2, k)
      BY <1>2, <1>8 DEF WaitsFor
    <2>3. Shown(s2)
      BY <1>5, <1>8 DEF Shown
    <2>4. FreshId(s2, id) /\ FreshId(s2, id2)
      BY <1>2, <1>8 DEF FreshId
    <2> QED BY <2>1, <2>2, <2>3, <2>4
  <1>10. PICK l : l = Load(s2.cache, <<k, 1>>, force, id)
    OBVIOUS
  <1>11. PICK s3 : s3 = [s2 EXCEPT !.cache = l.cache]
    OBVIOUS
  <1>12. 1 \in Parts /\ ~Unshared(<<k, 1>>)
    BY DEF Parts, Unshared
  <1>13. /\ Core(s3) /\ WaitsFor(s3, k) /\ ShowsAs(s3, s2) /\ s3.awaits = s2.awaits /\ FreshId(s3, id2)
         /\ l.wait = 0 => l.data \in EntryOf(<<k, 1>>)
         /\ l.wait # 0 => UnderWay(s3, l.wait, <<k, 1>>)
    BY <1>9, <1>10, <1>11, <1>12, LoadStep
  <1>14. r = IF l.wait = 0 THEN CatalogCounts([s3 EXCEPT !.one = l.data], k, force, id2) ELSE Waits(s3, l.wait, 1, force)
    BY <1>1, <1>4, <1>6, <1>7, <1>10, <1>11 DEF ReloadCatalog
  <1>15. CASE l.wait = 0
    <2>1. Own(l.data, k)
      BY <1>12, <1>13, <1>15, EntryFacts DEF Own
    <2>2. PICK s4 : s4 = [s3 EXCEPT !.one = l.data]
      OBVIOUS
    <2>3. /\ DOMAIN s4 = HookFields /\ s4.one = l.data /\ s4.cache = s3.cache /\ s4.awaits = s3.awaits
          /\ s4.loading = s3.loading /\ s4.refreshing = s3.refreshing /\ s4.failed = s3.failed
      BY <1>13, <2>2 DEF Core, HookFields
    <2>4. Core(s4) /\ WaitsFor(s4, k) /\ FreshId(s4, id2) /\ Own(s4.one, k)
      BY <1>13, <2>1, <2>3 DEF Core, WaitsFor, FreshId
    <2> QED BY <1>14, <1>15, <2>2, <2>4, CatalogCountsFacts
  <1>16. CASE l.wait # 0
    <2>1. /\ Core(r) /\ WaitsFor(r, k) /\ ShowsAs(r, s3) /\ (\E a \in r.awaits : a.latest)
          /\ AwaitsPart(r, 2) => 1 = 2 \/ AwaitsPart(s3, 2)
      BY <1>12, <1>13, <1>14, <1>16, WaitsStep
    <2>2. ~AwaitsPart(r, 2)
      BY <1>2, <1>8, <1>13, <2>1 DEF AwaitsPart
    <2>3. Shown(r) /\ (r.loading \/ r.refreshing)
      BY <1>8, <1>9, <1>13, <2>1 DEF Shown, ShowsAs
    <2> QED BY <2>1, <2>2, <2>3 DEF Right, PageRight, Strict
  <1> QED BY <1>15, <1>16

LEMMA CatalogEffectFacts ==
  ASSUME hook = "catalog", NEW s, Core(s), Shown(s), NEW k \in Targets,
         NEW id, FreshId(s, id), NEW id2, FreshId(s, id2), id2 # id,
         NEW r, r = CatalogEffect(s, k, id, id2), NEW on, NEW x
  PROVE  Right(r, k, on, x)
  <1>1. PICK t : t = Superseded(s)
    OBVIOUS
  <1>2. Core(t) /\ ShowsAs(t, s) /\ t.cache = s.cache
    BY <1>1, SupersededFacts
  <1>3. Shown(t)
    BY <1>2 DEF Shown, ShowsAs
  <1>4. PICK c : c = ApplyCachedCatalog(t, k)
    OBVIOUS
  <1>5. Core(c) /\ Shown(c) /\ c.cache = s.cache
    BY <1>2, <1>3, <1>4, ApplyCachedCatalogFacts
  <1>6. PICK s1 : s1 = [c EXCEPT !.loading = (PeekPart(s, k, 1) = NoData)]
    OBVIOUS
  <1>7. /\ DOMAIN s1 = HookFields /\ s1.one = c.one /\ s1.two = c.two /\ s1.cache = c.cache /\ s1.awaits = c.awaits
        /\ s1.failed = c.failed /\ s1.refreshing = c.refreshing /\ s1.loading \in BOOLEAN
    BY <1>5, <1>6 DEF Core, HookFields
  <1>8. Core(s1) /\ Shown(s1) /\ FreshId(s1, id) /\ FreshId(s1, id2)
    BY <1>5, <1>7 DEF Core, Shown, FreshId
  <1>9. r = ReloadCatalog(s1, k, FALSE, id, id2) /\ FALSE \in BOOLEAN
    BY <1>1, <1>4, <1>6 DEF CatalogEffect
  <1> QED BY <1>8, <1>9, ReloadCatalogFacts
-----------------------------------------------------------------------------
(* useWorkloadOverview *)
Overview == hook \in {"overview", "priority"}

LEMMA ApplyOverviewFacts ==
  ASSUME Overview, NEW s, Core(s), NEW k \in Targets, WaitsFor(s, k), NEW full \in Overviews,
         Own(full.one, k), Own(full.two, k), NEW r, r = ApplyOverview(s, k, full)
  PROVE  /\ Core(r) /\ WaitsFor(r, k) /\ ShowsOwn(r, k) /\ r.one = full.one /\ r.two = full.two
         /\ r.loading = s.loading /\ r.refreshing = s.refreshing /\ r.failed = s.failed /\ r.awaits = s.awaits
         /\ r.cache.fetches = s.cache.fetches
  <1>1. PICK ck : ck = <<k, 2>>
    OBVIOUS
  <1>2. ck \in Keys /\ full \in EntryOf(ck)
    BY <1>1 DEF EntryOf, Keys, Parts, Overview
  <1>3. PICK st : st = WriteCache(s.cache.store, ck, full)
    OBVIOUS
  <1>4. StoreOwn(s.cache.store) /\ DOMAIN s = HookFields /\ DOMAIN s.cache = CacheParts
    BY DEF Core, CacheRight
  <1>5. StoreOwn(st)
    BY <1>2, <1>3, <1>4, WriteFacts
  <1>6. r = [s EXCEPT !.one = full.one, !.two = full.two, !.cache.store = st]
    BY <1>1, <1>3, <1>4 DEF ApplyOverview, HookFields, CacheParts
  <1>7. PICK c : c = [s.cache EXCEPT !.store = st]
    OBVIOUS
  <1>8. DOMAIN c = CacheParts /\ c.store = st /\ c.inflight = s.cache.inflight /\ c.fetches = s.cache.fetches
    BY <1>4, <1>7 DEF CacheParts
  <1>9. CacheRight(c)
    BY <1>5, <1>8 DEF Core, CacheRight, InflightAlive
  <1>10. /\ DOMAIN r = HookFields /\ r.one = full.one /\ r.two = full.two /\ r.cache = c /\ r.awaits = s.awaits
         /\ r.loading = s.loading /\ r.refreshing = s.refreshing /\ r.failed = s.failed
    BY <1>4, <1>6, <1>7 DEF HookFields
  <1>11. Core(r) /\ WaitsFor(r, k)
    BY <1>8, <1>9, <1>10 DEF Core, WaitsFor
  <1> QED BY <1>8, <1>10, <1>11 DEF ShowsOwn

(* After it, what is shown is the key's, or it is loading and what was shown is. *)
LEMMA ShowCachedFacts ==
  ASSUME Overview, NEW s, Core(s), NEW k \in Targets, WaitsFor(s, k), NEW r, r = ShowCachedOverview(s, k)
  PROVE  /\ Core(r) /\ WaitsFor(r, k) /\ r.awaits = s.awaits /\ r.cache.fetches = s.cache.fetches
         /\ ShowsOwn(r, k) \/ (r.loading /\ r.one = s.one /\ r.two = s.two)
  <1>1. PICK full, priority : full = PeekPart(s, k, 2) /\ priority = PeekPart(s, k, 1)
    OBVIOUS
  <1>2. StoreOwn(s.cache.store) /\ 1 \in Parts /\ 2 \in Parts
    BY DEF Core, CacheRight, Parts
  <1>3. full # NoData => full \in Overviews /\ Own(full.one, k) /\ Own(full.two, k)
    <2>1. full # NoData => full \in EntryOf(<<k, 2>>)
      BY <1>1, <1>2, PeekFacts DEF PeekPart
    <2> QED BY <1>2, <2>1, EntryFacts DEF Overview
  <1>4. priority # NoData => priority \in Payloads /\ priority.of = k
    <2>1. priority # NoData => priority \in EntryOf(<<k, 1>>)
      BY <1>1, <1>2, PeekFacts DEF PeekPart
    <2> QED BY <1>2, <2>1, EntryFacts
  <1>5. CASE full # NoData \/ priority # NoData
    <2>1. PICK o : o = IF full # NoData THEN full ELSE [one |-> priority, two |-> NoData]
      OBVIOUS
    <2>2. o \in Overviews /\ Own(o.one, k) /\ Own(o.two, k)
      BY <1>3, <1>4, <1>5, <2>1 DEF Overviews, Own
    <2>3. PICK t : t = ApplyOverview(s, k, o)
      OBVIOUS
    <2>4. /\ Core(t) /\ WaitsFor(t, k) /\ ShowsOwn(t, k) /\ t.awaits = s.awaits /\ t.cache.fetches = s.cache.fetches
      BY <2>2, <2>3, ApplyOverviewFacts
    <2>5. r = [t EXCEPT !.loading = FALSE]
      BY <1>1, <1>5, <2>1, <2>3 DEF ShowCachedOverview
    <2>6. /\ DOMAIN r = HookFields /\ r.one = t.one /\ r.two = t.two /\ r.loading = FALSE /\ r.refreshing = t.refreshing
          /\ r.failed = t.failed /\ r.cache = t.cache /\ r.awaits = t.awaits
      BY <2>4, <2>5 DEF Core, HookFields
    <2> QED BY <2>4, <2>6 DEF Core, WaitsFor, ShowsOwn
  <1>6. CASE full = NoData /\ priority = NoData
    <2>1. r = [s EXCEPT !.loading = TRUE]
      BY <1>1, <1>6 DEF ShowCachedOverview
    <2>2. /\ DOMAIN r = HookFields /\ r.one = s.one /\ r.two = s.two /\ r.loading = TRUE /\ r.refreshing = s.refreshing
          /\ r.failed = s.failed /\ r.cache = s.cache /\ r.awaits = s.awaits
      BY <2>1 DEF Core, HookFields
    <2>3. Core(r) /\ WaitsFor(r, k)
      <3>1. Core(r)
        BY <2>2 DEF Core
      <3>2. WaitsFor(r, k)
        BY <2>2 DEF WaitsFor
      <3> QED BY <3>1, <3>2
    <2>4. /\ r.awaits = s.awaits /\ r.cache.fetches = s.cache.fetches
          /\ r.loading /\ r.one = s.one /\ r.two = s.two
      BY <2>2
    <2> QED BY <2>3, <2>4
  <1> QED BY <1>5, <1>6

LEMMA OverviewRestFacts ==
  ASSUME Overview, NEW s, Core(s), NEW k \in Targets, WaitsFor(s, k), NEW data \in Payloads, data.of = k,
         NEW id, FreshId(s, id), NEW r, r = OverviewRest(s, k, data, id), NEW on, NEW x
  PROVE  Right(r, k, on, x)
  <1>1. PICK o : o = [one |-> data, two |-> NoData]
    OBVIOUS
  <1>2. o \in Overviews /\ Own(o.one, k) /\ Own(o.two, k) /\ o.one = data /\ o.two = NoData
    BY <1>1 DEF Overviews, Own
  <1>3. PICK s1 : s1 = ApplyOverview(s, k, o)
    OBVIOUS
  <1>4. /\ Core(s1) /\ WaitsFor(s1, k) /\ ShowsOwn(s1, k) /\ s1.one = data /\ s1.two = NoData
        /\ s1.cache.fetches = s.cache.fetches
    BY <1>2, <1>3, ApplyOverviewFacts
  <1>5. CASE hook = "priority"
    <2>1. r = Settled(s1)
      BY <1>1, <1>3, <1>5 DEF OverviewRest
    <2>2. /\ DOMAIN r = HookFields /\ r.one = data /\ r.two = NoData /\ r.loading = FALSE /\ r.refreshing = FALSE
          /\ r.failed = s1.failed /\ r.cache = s1.cache /\ r.awaits = s1.awaits
      BY <1>4, <2>1 DEF Core, HookFields, Settled
    <2>c. Core(r)
      BY <1>4, <2>2 DEF Core
    <2>w. WaitsFor(r, k)
      BY <1>4, <2>2 DEF WaitsFor
    <2>3. Core(r) /\ WaitsFor(r, k)
      BY <2>c, <2>w
    <2>4. Shown(r) /\ ShowsOwn(r, k)
      BY <1>5, <2>2 DEF Shown, ShowsOwn, Own
    <2> QED BY <1>5, <2>2, <2>3, <2>4 DEF Right, PageRight
  <1>6. CASE hook = "overview"
    <2>1. PICK s2 : s2 = [s1 EXCEPT !.loading = FALSE, !.refreshing = TRUE]
      OBVIOUS
    <2>2. /\ DOMAIN s2 = HookFields /\ s2.one = data /\ s2.two = NoData /\ s2.loading = FALSE /\ s2.refreshing = TRUE
          /\ s2.failed = s1.failed /\ s2.cache = s1.cache /\ s2.awaits = s1.awaits
      BY <1>4, <2>1 DEF Core, HookFields
    <2>3. Core(s2) /\ WaitsFor(s2, k) /\ FreshId(s2, id)
      BY <1>4, <2>2 DEF Core, WaitsFor, FreshId
    <2>4. PICK s3 : s3 = Plain(s2, <<k, 2>>, id)
      OBVIOUS
    <2>5. 2 \in Parts /\ FALSE \in BOOLEAN /\ (hook = "priority" => 2 = 1)
      BY <1>6 DEF Parts
    <2>6. Core(s3) /\ WaitsFor(s3, k) /\ ShowsAs(s3, s2) /\ UnderWay(s3, id, <<k, 2>>)
      BY <1>6, <2>3, <2>4, <2>5, PlainStep
    <2>7. r = Waits(s3, id, 2, FALSE)
      BY <1>1, <1>3, <1>6, <2>1, <2>4 DEF OverviewRest
    <2>8. Core(r) /\ WaitsFor(r, k) /\ ShowsAs(r, s3) /\ \E a \in r.awaits : a.latest
      <3>1. PICK bg \in BOOLEAN, part \in Parts : bg = FALSE /\ part = 2
        BY <2>5
      <3>2. /\ Core(s3) /\ WaitsFor(s3, k) /\ UnderWay(s3, id, <<k, part>>) /\ (hook = "priority" => part = 1)
            /\ r = Waits(s3, id, part, bg)
        BY <2>5, <2>6, <2>7, <3>1
      <3> QED BY <3>1, <3>2, WaitsStep
    <2>9. Shown(r) /\ ShowsOwn(r, k)
      BY <1>6, <2>2, <2>6, <2>8 DEF Shown, ShowsOwn, ShowsAs, Own
    <2> QED BY <1>6, <2>8, <2>9 DEF Right, PageRight
  <1> QED BY <1>5, <1>6 DEF Overview

LEMMA ReloadOverviewFacts ==
  ASSUME Overview, NEW s, Core(s), NEW k \in Targets, ShowsOwn(s, k), NEW force \in BOOLEAN,
         NEW id, FreshId(s, id), NEW id2, FreshId(s, id2), id2 # id,
         NEW r, r = ReloadOverview(s, k, force, id, id2), NEW on, NEW x
  PROVE  Right(r, k, on, x)
  <1>1. PICK t : t = Superseded(s)
    OBVIOUS
  <1>2. Core(t) /\ (\A a \in t.awaits : ~a.latest) /\ ShowsAs(t, s) /\ t.cache = s.cache
    BY <1>1, SupersededFacts
  <1>3. WaitsFor(t, k)
    BY <1>2 DEF WaitsFor
  <1>4. PICK s1 : s1 = ShowCachedOverview(t, k)
    OBVIOUS
  <1>5. /\ Core(s1) /\ WaitsFor(s1, k) /\ s1.cache.fetches = t.cache.fetches
        /\ ShowsOwn(s1, k) \/ (s1.one = t.one /\ s1.two = t.two)
    BY <1>2, <1>3, <1>4, ShowCachedFacts
  <1>6. ShowsOwn(s1, k)
    BY <1>2, <1>5 DEF ShowsOwn, ShowsAs
  <1> DEFINE hasCached == PeekPart(s, k, 1) # NoData \/ PeekPart(s, k, 2) # NoData
             must == force \/ ~hasCached
  <1>7. hasCached \in BOOLEAN /\ must \in BOOLEAN
    OBVIOUS
  <1>8. PICK s2 : s2 = [s1 EXCEPT !.refreshing = hasCached]
    OBVIOUS
  <1>9. PICK l : l = Load(s2.cache, <<k, 1>>, must, id)
    OBVIOUS
  <1>10. PICK s3 : s3 = [s2 EXCEPT !.cache = l.cache]
    OBVIOUS
  <1>11. r = IF l.wait = 0 THEN OverviewRest(s3, k, l.data, id2) ELSE Waits(s3, l.wait, 1, force)
    BY <1>1, <1>4, <1>8, <1>9, <1>10 DEF ReloadOverview
  <1> HIDE DEF hasCached, must
  <1>12. /\ DOMAIN s2 = HookFields /\ s2.one = s1.one /\ s2.two = s1.two /\ s2.cache = s1.cache /\ s2.awaits = s1.awaits
         /\ s2.failed = s1.failed /\ s2.loading = s1.loading /\ s2.refreshing \in BOOLEAN
    BY <1>5, <1>7, <1>8 DEF Core, HookFields
  <1>13. Core(s2) /\ WaitsFor(s2, k) /\ ShowsOwn(s2, k) /\ FreshId(s2, id) /\ FreshId(s2, id2)
    BY <1>2, <1>5, <1>6, <1>12 DEF Core, WaitsFor, ShowsOwn, FreshId
  <1>14. 1 \in Parts /\ ~Unshared(<<k, 1>>)
    BY DEF Parts, Unshared, Overview
  <1>15. /\ Core(s3) /\ WaitsFor(s3, k) /\ ShowsAs(s3, s2) /\ FreshId(s3, id2)
         /\ l.wait = 0 => l.data \in EntryOf(<<k, 1>>)
         /\ l.wait # 0 => UnderWay(s3, l.wait, <<k, 1>>)
    BY <1>7, <1>9, <1>10, <1>13, <1>14, LoadStep
  <1>16. CASE l.wait = 0
    <2>1. l.data \in Payloads /\ l.data.of = k
      BY <1>14, <1>15, <1>16, EntryFacts
    <2> QED BY <1>11, <1>15, <1>16, <2>1, OverviewRestFacts
  <1>17. CASE l.wait # 0
    <2>1. Core(r) /\ WaitsFor(r, k) /\ ShowsAs(r, s3) /\ \E a \in r.awaits : a.latest
      BY <1>11, <1>14, <1>15, <1>17, WaitsStep
    <2>2. ShowsOwn(r, k)
      BY <1>13, <1>15, <2>1 DEF ShowsOwn, ShowsAs
    <2>3. Shown(r)
      BY <2>2 DEF Shown, ShowsOwn, Own, Overview
    <2> QED BY <2>1, <2>2, <2>3 DEF Right, PageRight, Overview
  <1> QED BY <1>16, <1>17

LEMMA OverviewEffectFacts ==
  ASSUME Overview, NEW s, Core(s), NEW k \in Targets,
         NEW id, FreshId(s, id), NEW id2, FreshId(s, id2), id2 # id,
         NEW r, r = OverviewEffect(s, k, id, id2), NEW on, NEW x
  PROVE  Right(r, k, on, x)
  <1>1. PICK t : t = Superseded(s)
    OBVIOUS
  <1>2. Core(t) /\ (\A a \in t.awaits : ~a.latest) /\ ShowsAs(t, s) /\ t.cache = s.cache
    BY <1>1, SupersededFacts
  <1>3. WaitsFor(t, k)
    BY <1>2 DEF WaitsFor
  <1>4. PICK s1 : s1 = ShowCachedOverview(t, k)
    OBVIOUS
  <1>5. /\ Core(s1) /\ WaitsFor(s1, k) /\ s1.cache.fetches = t.cache.fetches /\ (ShowsOwn(s1, k) \/ s1.loading)
    BY <1>2, <1>3, <1>4, ShowCachedFacts
  <1>6. PICK o : o = [one |-> NoData, two |-> NoData]
    OBVIOUS
  <1>7. o \in Overviews /\ Own(o.one, k) /\ Own(o.two, k)
    BY <1>6 DEF Overviews, Own
  <1>8. PICK s2 : s2 = IF s1.loading THEN ApplyOverview(s1, k, o) ELSE s1
    OBVIOUS
  <1>9. Core(s2) /\ ShowsOwn(s2, k) /\ s2.cache.fetches = t.cache.fetches
    <2>1. CASE s1.loading
      BY <1>5, <1>7, <1>8, <2>1, ApplyOverviewFacts
    <2>2. CASE ~s1.loading
      BY <1>5, <1>8, <2>2
    <2> QED BY <2>1, <2>2
  <1>10. FreshId(s2, id) /\ FreshId(s2, id2)
    BY <1>2, <1>9 DEF FreshId
  <1>11. r = ReloadOverview(s2, k, FALSE, id, id2) /\ FALSE \in BOOLEAN
    BY <1>1, <1>4, <1>6, <1>8 DEF OverviewEffect
  <1> QED BY <1>9, <1>10, <1>11, ReloadOverviewFacts
-----------------------------------------------------------------------------
(* useResourceManifest *)
LEMMA RunFetchFacts ==
  ASSUME hook = "manifest", NEW s, Core(s), Shown(s), NEW k \in Targets, ShowsOwn(s, k), NEW background \in BOOLEAN,
         NEW id, FreshId(s, id), NEW r, r = RunFetch(s, k, background, id), NEW on, NEW x
  PROVE  Right(r, k, on, x)
  <1>1. PICK t : t = Superseded(s)
    OBVIOUS
  <1>2. Core(t) /\ (\A a \in t.awaits : ~a.latest) /\ ShowsAs(t, s) /\ t.cache = s.cache
    BY <1>1, SupersededFacts
  <1>3. PICK s1 : s1 = [t EXCEPT !.loading = @ \/ ~background, !.refreshing = @ \/ background]
    OBVIOUS
  <1>4. /\ DOMAIN s1 = HookFields /\ s1.one = s.one /\ s1.two = s.two /\ s1.failed = s.failed
        /\ s1.cache = s.cache /\ s1.awaits = t.awaits
        /\ s1.loading \in BOOLEAN /\ s1.refreshing \in BOOLEAN
    BY <1>2, <1>3 DEF Core, HookFields, ShowsAs
  <1>5. Core(s1) /\ WaitsFor(s1, k) /\ FreshId(s1, id)
    BY <1>2, <1>4 DEF Core, WaitsFor, FreshId, ShowsAs
  <1>6. PICK l : l = Shared(s1, <<k, 1>>, id)
    OBVIOUS
  <1>7. PICK s2 : s2 = [s1 EXCEPT !.cache = l.cache]
    OBVIOUS
  <1>8. Core(s2) /\ WaitsFor(s2, k) /\ ShowsAs(s2, s1) /\ UnderWay(s2, l.wait, <<k, 1>>)
    BY <1>5, <1>6, <1>7, SharedStep
  <1>9. PICK part \in Parts : part = 1
    BY DEF Parts
  <1>10. r = Waits(s2, l.wait, part, background) /\ UnderWay(s2, l.wait, <<k, part>>)
    BY <1>1, <1>3, <1>6, <1>7, <1>8, <1>9 DEF RunFetch
  <1>11. Core(r) /\ WaitsFor(r, k) /\ ShowsAs(r, s2) /\ \E a \in r.awaits : a.latest
    BY <1>8, <1>9, <1>10, WaitsStep
  <1>12. Shown(r) /\ ShowsOwn(r, k)
    BY <1>4, <1>8, <1>11 DEF Shown, ShowsOwn, ShowsAs
  <1> QED BY <1>11, <1>12 DEF Right, PageRight

LEMMA ManifestEffectFacts ==
  ASSUME hook = "manifest", NEW s, Core(s), Shown(s), NEW k \in Targets, NEW id, FreshId(s, id),
         NEW r, r = ManifestEffect(s, k, id), NEW on, NEW x
  PROVE  Right(r, k, on, x)
  <1>1. PICK t : t = Superseded(s)
    OBVIOUS
  <1>2. Core(t) /\ ShowsAs(t, s) /\ t.cache = s.cache
    BY <1>1, SupersededFacts
  <1>3. PICK cached : cached = PeekPart(s, k, 1)
    OBVIOUS
  <1>4. Own(cached, k)
    <2>1. StoreOwn(s.cache.store) /\ cached = Peek(s.cache.store, <<k, 1>>) /\ 1 \in Parts
      BY <1>3 DEF PeekPart, Core, CacheRight, Parts
    <2>2. cached # NoData => cached \in EntryOf(<<k, 1>>)
      BY <2>1, PeekFacts
    <2> QED BY <2>1, <2>2, EntryFacts DEF Own
  <1>5. PICK s1 : s1 = [t EXCEPT !.one = cached, !.refreshing = FALSE, !.loading = (cached = NoData)]
    OBVIOUS
  <1>6. /\ DOMAIN s1 = HookFields /\ s1.one = cached /\ s1.two = s.two
        /\ s1.failed = s.failed /\ s1.refreshing = FALSE /\ s1.cache = s.cache /\ s1.awaits = t.awaits
        /\ s1.loading \in BOOLEAN
    BY <1>2, <1>5 DEF Core, HookFields, ShowsAs
  <1>7. Core(s1) /\ FreshId(s1, id)
    BY <1>2, <1>6 DEF Core, FreshId, ShowsAs
  <1>8. Shown(s1) /\ ShowsOwn(s1, k)
    BY <1>4, <1>6 DEF Shown, ShowsOwn, Own
  <1>9. PICK bg : bg = (cached # NoData)
    OBVIOUS
  <1>10. r = RunFetch(s1, k, bg, id) /\ bg \in BOOLEAN
    BY <1>1, <1>3, <1>5, <1>9 DEF ManifestEffect
  <1> QED BY <1>7, <1>8, <1>10, RunFetchFacts

(* useCachedFetch *)
LEMMA ChangesEffectFacts ==
  ASSUME hook = "changes", NEW s, Core(s), Shown(s), ~s.refreshing, NEW k \in Targets, NEW id, FreshId(s, id),
         NEW x, NEW r, r = ChangesEffect(s, k, x, id), NEW on
  PROVE  Right(r, k, on, x)
  <1>1. PICK t : t = Superseded(s)
    OBVIOUS
  <1>2. Core(t) /\ (\A a \in t.awaits : ~a.latest) /\ ShowsAs(t, s) /\ t.cache = s.cache
    BY <1>1, SupersededFacts
  <1>3. PICK entry, f : entry = PeekPart(s, k, 1) /\ f = EntryFreshness(s, k, x)
    OBVIOUS
  <1>4. entry # NoData => entry \in Payloads /\ entry.of = k
    <2>1. StoreOwn(s.cache.store) /\ entry = Peek(s.cache.store, <<k, 1>>) /\ 1 \in Parts
      BY <1>3 DEF PeekPart, Core, CacheRight, Parts
    <2>2. entry # NoData => entry \in EntryOf(<<k, 1>>)
      BY <2>1, PeekFacts
    <2> QED BY <2>1, <2>2, EntryFacts
  <1>5. f \in {"fresh", "stale"} => entry # NoData /\ entry.gen = x
    BY <1>3 DEF EntryFreshness
  <1>6. PICK shown, busy : shown = (IF f \in {"fresh", "stale"} THEN entry ELSE NoData) /\ busy = (f # "fresh")
    OBVIOUS
  <1>7. Own(shown, k) /\ (shown # NoData => shown.gen = x) /\ busy \in BOOLEAN
    BY <1>4, <1>5, <1>6 DEF Own
  <1>8. PICK s1 : s1 = [t EXCEPT !.one = shown, !.loading = busy]
    OBVIOUS
  <1>9. /\ DOMAIN s1 = HookFields /\ s1.one = shown /\ s1.two = s.two /\ s1.loading = busy
        /\ s1.failed = s.failed /\ s1.refreshing = s.refreshing /\ s1.cache = s.cache /\ s1.awaits = t.awaits
    BY <1>2, <1>8 DEF Core, HookFields, ShowsAs
  <1>10. Core(s1) /\ WaitsFor(s1, k) /\ FreshId(s1, id)
    BY <1>2, <1>7, <1>9 DEF Core, WaitsFor, FreshId, ShowsAs
  <1>11. Shown(s1) /\ ShowsOwn(s1, k)
    BY <1>7, <1>9 DEF Shown, ShowsOwn, Own
  <1>12. PICK l : l = Shared(s1, <<k, 1>>, id)
    OBVIOUS
  <1>13. PICK s2 : s2 = [s1 EXCEPT !.cache = l.cache]
    OBVIOUS
  <1>14. Core(s2) /\ WaitsFor(s2, k) /\ ShowsAs(s2, s1) /\ UnderWay(s2, l.wait, <<k, 1>>)
    BY <1>10, <1>12, <1>13, SharedStep
  <1>15. r = IF f = "fresh" THEN s1 ELSE Waits(s2, l.wait, 1, FALSE)
    BY <1>1, <1>3, <1>6, <1>8, <1>12, <1>13 DEF ChangesEffect
  <1>16. CASE f = "fresh"
    BY <1>6, <1>7, <1>9, <1>10, <1>11, <1>15, <1>16 DEF Right, PageRight
  <1>17. CASE f # "fresh"
    <2>1. PICK part \in Parts, bg \in BOOLEAN : part = 1 /\ bg = FALSE
      BY DEF Parts
    <2>2. r = Waits(s2, l.wait, part, bg) /\ UnderWay(s2, l.wait, <<k, part>>)
      BY <1>14, <1>15, <1>17, <2>1
    <2>3. Core(r) /\ WaitsFor(r, k) /\ ShowsAs(r, s2) /\ \E a \in r.awaits : a.latest
      BY <1>14, <2>1, <2>2, WaitsStep
    <2>4. /\ Shown(r) /\ ShowsOwn(r, k)
          /\ ~r.refreshing /\ (r.one # NoData => r.one.gen = x)
      BY <1>7, <1>9, <1>11, <1>14, <2>3 DEF Shown, ShowsOwn, ShowsAs
    <2> QED BY <2>3, <2>4 DEF Right, PageRight
  <1> QED BY <1>16, <1>17

(* useFocusChainCatalog *)
LEMMA ChainEffectFacts ==
  ASSUME hook = "chain", NEW s, Core(s), Shown(s), NEW k \in Targets, NEW id, FreshId(s, id),
         NEW r, r = ChainEffect(s, k, id), NEW on, NEW x
  PROVE  Right(r, k, on, x)
  <1>1. PICK t : t = Superseded(s)
    OBVIOUS
  <1>2. Core(t) /\ (\A a \in t.awaits : ~a.latest) /\ ShowsAs(t, s) /\ t.cache = s.cache
    BY <1>1, SupersededFacts
  <1>3. PICK s1 : s1 = [t EXCEPT !.loading = TRUE]
    OBVIOUS
  <1>4. /\ DOMAIN s1 = HookFields /\ s1.one = s.one /\ s1.two = s.two /\ s1.loading = TRUE
        /\ s1.failed = s.failed /\ s1.refreshing = s.refreshing /\ s1.cache = s.cache /\ s1.awaits = t.awaits
    BY <1>2, <1>3 DEF Core, HookFields, ShowsAs
  <1>5. Core(s1) /\ WaitsFor(s1, k) /\ FreshId(s1, id)
    BY <1>2, <1>4 DEF Core, WaitsFor, FreshId, ShowsAs
  <1>6. PICK part \in Parts, bg \in BOOLEAN : part = 1 /\ bg = FALSE
    BY DEF Parts
  <1>7. PICK s2 : s2 = Plain(s1, <<k, part>>, id)
    OBVIOUS
  <1>8. Core(s2) /\ WaitsFor(s2, k) /\ ShowsAs(s2, s1) /\ UnderWay(s2, id, <<k, part>>)
    BY <1>5, <1>6, <1>7, PlainStep
  <1>9. r = Waits(s2, id, part, bg)
    BY <1>1, <1>3, <1>6, <1>7 DEF ChainEffect
  <1>10. Core(r) /\ WaitsFor(r, k) /\ ShowsAs(r, s2) /\ \E a \in r.awaits : a.latest
    BY <1>6, <1>8, <1>9, WaitsStep
  <1>11. Shown(r) /\ r.loading
    BY <1>4, <1>8, <1>10 DEF Shown, ShowsAs
  <1> QED BY <1>10, <1>11 DEF Right, PageRight, Strict
-----------------------------------------------------------------------------
(* The effect of any of the hooks, whatever was shown *)
LEMMA HookEffectFacts ==
  ASSUME hook \in KnownHooks, NEW s, Core(s), Shown(s), hook = "changes" => ~s.refreshing, NEW k \in Targets,
         NEW id, FreshId(s, id), NEW id2, FreshId(s, id2), id2 # id,
         NEW x, NEW r, r = Effect(s, k, x, id, id2), NEW on
  PROVE  Right(r, k, on, x)
  <1>1. CASE hook = "status"
    BY <1>1, StatusEffectFacts DEF Effect
  <1>2. CASE hook = "catalog"
    BY <1>2, CatalogEffectFacts DEF Effect
  <1>3. CASE Overview
    <2>1. r = OverviewEffect(s, k, id, id2)
      BY <1>3 DEF Effect, Overview
    <2> QED BY <1>3, <2>1, OverviewEffectFacts
  <1>4. CASE hook = "manifest"
    BY <1>4, ManifestEffectFacts DEF Effect
  <1>5. CASE hook = "changes"
    BY <1>5, ChangesEffectFacts DEF Effect
  <1>6. CASE hook = "chain"
    BY <1>6, ChainEffectFacts DEF Effect
  <1> QED BY <1>1, <1>2, <1>3, <1>4, <1>5, <1>6 DEF KnownHooks, Overview

(* Its early return *)
LEMMA DisabledFacts ==
  ASSUME hook \in KnownHooks, NEW s, Core(s), Shown(s), NEW k, NEW on \in BOOLEAN, k = NoTarget \/ ~on,
         NEW r, r = Disabled(s, k, on), NEW x
  PROVE  Right(r, k, on, x)
  <1>1. PICK t : t = Superseded(s)
    OBVIOUS
  <1>2. Core(t) /\ (\A a \in t.awaits : ~a.latest) /\ ShowsAs(t, s) /\ t.cache = s.cache
    BY <1>1, SupersededFacts
  <1>3. PICK s1 : s1 = Settled(t)
    OBVIOUS
  <1>4. /\ DOMAIN s1 = HookFields /\ s1.one = s.one /\ s1.two = s.two /\ s1.loading = FALSE /\ s1.refreshing = FALSE
        /\ s1.failed = s.failed /\ s1.cache = s.cache /\ s1.awaits = t.awaits
    BY <1>2, <1>3 DEF Core, HookFields, ShowsAs, Settled
  <1>5. r = IF ~on /\ hook \in {"status", "catalog"} THEN s1
            ELSE [s1 EXCEPT !.one = NoData, !.two = NoData, !.failed = FALSE]
    BY <1>1, <1>3 DEF Disabled
  <1>6. /\ DOMAIN r = HookFields /\ r.loading = FALSE /\ r.refreshing = FALSE /\ r.failed \in BOOLEAN
        /\ r.cache = s.cache /\ r.awaits = t.awaits
        /\ \/ ~on /\ hook \in {"status", "catalog"} /\ r.one = s.one /\ r.two = s.two
           \/ r.one = NoData /\ r.two = NoData
    BY <1>2, <1>4, <1>5 DEF Core, HookFields
  <1>7. Core(r) /\ WaitsFor(r, k) /\ ~AwaitsPart(r, 2)
    BY <1>2, <1>6 DEF Core, WaitsFor, AwaitsPart
  <1>8. Shown(r) /\ (ShowsOwn(r, k) \/ (~on /\ hook \notin Strict))
    BY <1>6 DEF Shown, ShowsOwn, Own, Strict
  <1> QED BY <1>6, <1>7, <1>8 DEF Right, PageRight
-----------------------------------------------------------------------------
(* The same is right after a step that leaves the hook what it is. *)
LEMMA InvNext ==
  ASSUME HookInv, hook' = hook, NEW g, NEW k \in Targets \cup {NoTarget}, NEW on \in BOOLEAN, NEW x,
         Right(g, k, on, x), hook = "manifest" => on,
         h' = g, key' = k, enabled' = on, gen' = x
  PROVE  HookInv'
  <1>1. \A ck : EntryOf(ck)' = EntryOf(ck)
    BY DEF EntryOf
  <1>2. \A ck : Unshared(ck)' <=> Unshared(ck)
    BY DEF Unshared
  <1>3. \A st : StoreOwn(st)' <=> StoreOwn(st)
    BY <1>1 DEF StoreOwn
  <1>4. \A c : CacheRight(c)' <=> CacheRight(c)
    BY <1>1, <1>2, <1>3 DEF CacheRight
  <1>5. Core(g)' <=> Core(g)
    BY <1>4 DEF Core
  <1>6. PageRight(g, k, on, x)' <=> PageRight(g, k, on, x)
    BY DEF PageRight, Shown
  <1>7. Right(g, k, on, x)'
    BY <1>5, <1>6 DEF Right
  <1>8. Right(h, key, enabled, gen)'
    BY <1>7
  <1> QED BY <1>8 DEF HookInv
LEMMA PairFresh ==
  ASSUME NEW ids \in FreshPairs
  PROVE  FreshId(h, ids[1]) /\ FreshId(h, ids[2]) /\ ids[2] # ids[1]
  <1>1. ids \in FreshIds \X (1..MaxFetches) /\ ids[2] > ids[1] /\ \A f \in h.cache.fetches : f.id # ids[2]
    BY DEF FreshPairs
  <1>2. ids[1] \in FreshIds /\ ids[2] \in 1..MaxFetches
    BY <1>1
  <1>3. ids[1] \in 1..MaxFetches /\ \A f \in h.cache.fetches : f.id # ids[1]
    BY <1>2 DEF FreshIds
  <1> QED BY <1>1, <1>2, <1>3, FetchAssumption DEF FreshId

(* What the invariant says of what the hook holds *)
LEMMA HookNow ==
  ASSUME HookInv
  PROVE  /\ hook \in KnownHooks /\ key \in Targets \cup {NoTarget} /\ enabled \in BOOLEAN /\ (hook = "manifest" => enabled)
         /\ Core(h) /\ WaitsFor(h, key) /\ PageRight(h, key, enabled, gen) /\ Shown(h)
         /\ hook = "changes" => ~h.refreshing
  BY DEF HookInv, Right, PageRight

(* The effect runs again, or its early return. *)
LEMMA RunStep ==
  ASSUME HookInv, hook' = hook, NEW k \in Targets \cup {NoTarget}, NEW on \in BOOLEAN, NEW x, Run(k, on, x),
         hook = "manifest" => on, key' = k, enabled' = on, gen' = x
  PROVE  HookInv'
  <1>1. PICK g : g = h'
    OBVIOUS
  <1>2. CASE k = NoTarget \/ ~on
    <2>1. g = Disabled(h, k, on)
      BY <1>1, <1>2 DEF Run
    <2>2. Right(g, k, on, x)
      BY <1>2, <2>1, HookNow, DisabledFacts
    <2> QED BY <1>1, <2>2, InvNext
  <1>3. CASE ~(k = NoTarget \/ ~on)
    <2>1. PICK ids \in FreshPairs : g = Effect(h, k, x, ids[1], ids[2])
      BY <1>1, <1>3 DEF Run
    <2>2. PICK id, id2 : id = ids[1] /\ id2 = ids[2]
      OBVIOUS
    <2>3. FreshId(h, id) /\ FreshId(h, id2) /\ id2 # id /\ k \in Targets /\ g = Effect(h, k, x, id, id2)
      BY <1>3, <2>1, <2>2, PairFresh
    <2>4. Right(g, k, on, x)
      BY <2>3, HookNow, HookEffectFacts
    <2> QED BY <1>1, <2>4, InvNext
  <1> QED BY <1>2, <1>3

(* What is shown changes under the same key. *)
LEMMA SameKey ==
  ASSUME HookInv, NEW g, Right(g, key, enabled, gen), h' = g, UNCHANGED <<hook, key, enabled, gen>>
  PROVE  HookInv'
  <1>1. PICK k, on, x : k = key /\ on = enabled /\ x = gen
    OBVIOUS
  <1>2. /\ k \in Targets \cup {NoTarget} /\ on \in BOOLEAN /\ (hook = "manifest" => on)
        /\ hook' = hook /\ key' = k /\ enabled' = on /\ gen' = x /\ Right(g, k, on, x)
    BY <1>1, HookNow
  <1> QED BY <1>2, InvNext

LEMMA SelectKeyStep == ASSUME HookInv, SelectKey PROVE HookInv'
  <1>1. PICK k \in Targets \cup {NoTarget} : Run(k, enabled, gen) /\ key' = k
    BY DEF SelectKey
  <1>2. PICK on, x : on = enabled /\ x = gen
    OBVIOUS
  <1>3. hook' = hook /\ enabled' = on /\ gen' = x /\ Run(k, on, x) /\ on \in BOOLEAN /\ (hook = "manifest" => on)
    BY <1>1, <1>2, HookNow DEF SelectKey
  <1> QED BY <1>1, <1>3, RunStep

LEMMA SetEnabledStep == ASSUME HookInv, SetEnabled PROVE HookInv'
  <1>1. PICK k, on, x : k = key /\ on = ~enabled /\ x = gen
    OBVIOUS
  <1>2. /\ hook' = hook /\ key' = k /\ enabled' = on /\ gen' = x /\ Run(k, on, x)
        /\ on \in BOOLEAN /\ hook # "manifest" /\ k \in Targets \cup {NoTarget}
    BY <1>1, HookNow DEF SetEnabled
  <1> QED BY <1>2, RunStep

LEMMA NewGenerationStep == ASSUME HookInv, NewGeneration PROVE HookInv'
  <1>1. PICK g \in Gens : gen' = g /\ Run(key, enabled, g)
    BY DEF NewGeneration
  <1>2. PICK k, on : k = key /\ on = enabled
    OBVIOUS
  <1>3. /\ hook' = hook /\ key' = k /\ enabled' = on /\ Run(k, on, g)
        /\ on \in BOOLEAN /\ k \in Targets \cup {NoTarget} /\ (hook = "manifest" => on)
    BY <1>1, <1>2, HookNow DEF NewGeneration
  <1> QED BY <1>1, <1>3, RunStep

LEMMA SyncedStep == ASSUME HookInv, Synced PROVE HookInv'
  <1>1. PICK k, on, x : k = key /\ on = enabled /\ x = gen
    OBVIOUS
  <1>2. /\ hook' = hook /\ key' = k /\ enabled' = on /\ gen' = x /\ Run(k, on, x)
        /\ on \in BOOLEAN /\ k \in Targets \cup {NoTarget} /\ (hook = "manifest" => on)
    BY <1>1, HookNow DEF Synced
  <1> QED BY <1>2, RunStep

LEMMA RefreshStep == ASSUME HookInv, Refresh PROVE HookInv'
  <1>1. PICK k : k = key
    OBVIOUS
  <1>2. k \in Targets /\ UNCHANGED <<hook, key, enabled, gen>>
    BY <1>1, HookNow DEF Refresh
  <1>3. PICK ids \in FreshPairs :
          h' = CASE hook = "status"   -> RefreshStatus(h, key, FALSE, TRUE, ids[1])
                 [] hook = "catalog"  -> ReloadCatalog(h, key, TRUE, ids[1], ids[2])
                 [] hook \in {"overview", "priority"} -> ReloadOverview(h, key, TRUE, ids[1], ids[2])
                 [] hook = "manifest" -> RunFetch(h, key, h.one # NoData, ids[1])
                 [] OTHER             -> h
    BY DEF Refresh
  <1>4. PICK g, id, id2, on, x : g = h' /\ id = ids[1] /\ id2 = ids[2] /\ on = enabled /\ x = gen
    OBVIOUS
  <1>5. FreshId(h, id) /\ FreshId(h, id2) /\ id2 # id
    BY <1>4, PairFresh
  <1>6. TRUE \in BOOLEAN /\ FALSE \in BOOLEAN
    OBVIOUS
  <1>7. Right(g, k, on, x)
    <2>1. CASE hook = "status"
      <3>1. g = RefreshStatus(h, k, FALSE, TRUE, id)
        BY <1>1, <1>3, <1>4, <2>1
      <3>2. PICK bg \in BOOLEAN, force \in BOOLEAN : bg = FALSE /\ force = TRUE
        OBVIOUS
      <3> QED BY <1>2, <1>5, <2>1, <3>1, <3>2, HookNow, RefreshStatusFacts
    <2>2. CASE hook = "catalog"
      <3>1. g = ReloadCatalog(h, k, TRUE, id, id2)
        BY <1>1, <1>3, <1>4, <2>2
      <3> QED BY <1>2, <1>5, <1>6, <2>2, <3>1, HookNow, ReloadCatalogFacts
    <2>3. CASE Overview
      <3>1. g = ReloadOverview(h, k, TRUE, id, id2)
        BY <1>1, <1>3, <1>4, <2>3 DEF Overview
      <3>2. ShowsOwn(h, k)
        BY <1>1, <2>3, HookNow DEF PageRight, Strict, Overview
      <3> QED BY <1>2, <1>5, <1>6, <2>3, <3>1, <3>2, HookNow, ReloadOverviewFacts
    <2>4. CASE hook = "manifest"
      <3>1. PICK bg : bg = (h.one # NoData)
        OBVIOUS
      <3>2. g = RunFetch(h, k, bg, id) /\ bg \in BOOLEAN
        BY <1>1, <1>3, <1>4, <2>4, <3>1
      <3>3. ShowsOwn(h, k)
        BY <1>1, <2>4, HookNow DEF PageRight, Strict
      <3> QED BY <1>2, <1>5, <2>4, <3>2, <3>3, HookNow, RunFetchFacts
    <2>5. CASE hook \in {"changes", "chain"}
      <3>1. g = h
        BY <1>3, <1>4, <2>5
      <3> QED BY <1>1, <1>4, <3>1 DEF HookInv
    <2> QED BY <2>1, <2>2, <2>3, <2>4, <2>5, HookNow DEF KnownHooks, Overview
  <1> QED BY <1>1, <1>2, <1>4, <1>7, SameKey

LEMMA PollStatusStep == ASSUME HookInv, PollStatus PROVE HookInv'
  <1>1. PICK k, on, x : k = key /\ on = enabled /\ x = gen
    OBVIOUS
  <1>2. k \in Targets /\ UNCHANGED <<hook, key, enabled, gen>> /\ hook = "status"
    BY <1>1, HookNow DEF PollStatus
  <1>3. PICK ids \in FreshPairs : h' = RefreshStatus(h, key, TRUE, FALSE, ids[1])
    BY DEF PollStatus
  <1>4. PICK g, id, bg, force : g = h' /\ id = ids[1] /\ bg = TRUE /\ force = FALSE
    OBVIOUS
  <1>5. FreshId(h, id) /\ bg \in BOOLEAN /\ force \in BOOLEAN /\ g = RefreshStatus(h, k, bg, force, id)
    BY <1>1, <1>3, <1>4, PairFresh
  <1>6. Right(g, k, on, x)
    BY <1>2, <1>5, HookNow, RefreshStatusFacts
  <1> QED BY <1>1, <1>2, <1>4, <1>6, SameKey
-----------------------------------------------------------------------------
(* Another cache with the same requests under way *)
LEMMA CacheChange ==
  ASSUME NEW s, Core(s), NEW k, WaitsFor(s, k), NEW on, NEW x, PageRight(s, k, on, x),
         NEW c, CacheRight(c), \A f \in s.cache.fetches : f \in c.fetches, NEW id,
         \A f \in c.fetches : f \in s.cache.fetches \/ f.id = id, FreshId(s, id) \/ c.fetches = s.cache.fetches,
         NEW r, r = [s EXCEPT !.cache = c]
  PROVE  Right(r, k, on, x)
  <1>1. DOMAIN r = HookFields /\ ShowsAs(r, s) /\ r.awaits = s.awaits /\ r.cache = c
    BY DEF Core, HookFields, ShowsAs
  <1>2. FreshId(s, id) => \A a \in s.awaits : a.wait # id
    BY DEF Core, FreshId
  <1>3. Core(r)
    BY <1>1 DEF Core, ShowsAs
  <1>4. WaitsFor(r, k)
    BY <1>1, <1>2 DEF WaitsFor
  <1>5. PageRight(r, k, on, x)
    BY <1>1 DEF PageRight, Shown, ShowsOwn, ShowsAs, AwaitsPart
  <1> QED BY <1>3, <1>4, <1>5 DEF Right

LEMMA PrefetchManifestStep == ASSUME HookInv, PrefetchManifest PROVE HookInv'
  <1>1. PICK id \in FreshIds : h' = [h EXCEPT !.cache = Shared(h, <<key, 1>>, id).cache]
    BY DEF PrefetchManifest
  <1>2. PICK k, on, x, g : k = key /\ on = enabled /\ x = gen /\ g = h'
    OBVIOUS
  <1>3. k \in Targets /\ UNCHANGED <<hook, key, enabled, gen>> /\ hook = "manifest"
    BY <1>2, HookNow DEF PrefetchManifest
  <1>4. FreshId(h, id)
    BY DEF FreshIds, FreshId
  <1>5. PICK l : l = Shared(h, <<k, 1>>, id)
    OBVIOUS
  <1>6. g = [h EXCEPT !.cache = l.cache]
    BY <1>1, <1>2, <1>5
  <1>7. /\ Core(h) /\ WaitsFor(h, k) /\ PageRight(h, k, on, x)
    BY <1>2, HookNow
  <1>8. Core(g) /\ WaitsFor(g, k) /\ ShowsAs(g, h) /\ g.awaits = h.awaits
    BY <1>3, <1>4, <1>5, <1>6, <1>7, SharedStep
  <1>9. PageRight(g, k, on, x)
    BY <1>7, <1>8 DEF PageRight, Shown, ShowsOwn, ShowsAs, AwaitsPart
  <1>10. Right(g, k, on, x)
    BY <1>8, <1>9 DEF Right
  <1> QED BY <1>2, <1>3, <1>10, SameKey

LEMMA ExpireStep == ASSUME HookInv, Expire PROVE HookInv'
  <1>1. PICK i \in DOMAIN h.cache.store : h' = [h EXCEPT !.cache.store = Aged(@, i)]
    BY DEF Expire
  <1>2. PICK k, on, x, g : k = key /\ on = enabled /\ x = gen /\ g = h'
    OBVIOUS
  <1>3. Core(h) /\ WaitsFor(h, k) /\ PageRight(h, k, on, x) /\ UNCHANGED <<hook, key, enabled, gen>>
    BY <1>2, HookNow DEF Expire
  <1>4. PICK old, c0 : c0 = h.cache /\ old = c0.store
    OBVIOUS
  <1>5. /\ CacheRight(c0) /\ DOMAIN h = HookFields /\ DOMAIN c0 = CacheParts
        /\ StoreOwn(old) /\ old \in Seq(Entries) /\ i \in DOMAIN old
    BY <1>1, <1>3, <1>4 DEF Core, CacheRight, StoreOwn
  <1>6. PICK st : st = [old EXCEPT ![i].fresh = FALSE]
    OBVIOUS
  <1>7. StoreOwn(st)
    <2>1. PICK e : e = [old[i] EXCEPT !.fresh = FALSE]
      OBVIOUS
    <2>2. old[i] \in Entries /\ DOMAIN old = 1..Len(old) /\ Len(old) \in Nat
      BY <1>5
    <2>3. e \in Entries /\ e.key = old[i].key /\ e.data = old[i].data
      BY <2>1, <2>2 DEF Entries
    <2>4. st = [old EXCEPT ![i] = e]
      BY <1>6, <2>1
    <2>5. st \in Seq(Entries) /\ DOMAIN st = DOMAIN old /\ \A j \in DOMAIN old : st[j] = IF j = i THEN e ELSE old[j]
      BY <1>5, <2>3, <2>4
    <2> QED BY <1>5, <2>3, <2>5 DEF StoreOwn
  <1>8. PICK c : c = [c0 EXCEPT !.store = st]
    OBVIOUS
  <1>9. DOMAIN c = CacheParts /\ c.store = st /\ c.inflight = c0.inflight /\ c.fetches = c0.fetches
    BY <1>5, <1>8 DEF CacheParts
  <1>10. CacheRight(c)
    BY <1>5, <1>7, <1>9 DEF CacheRight, InflightAlive
  <1>11. g = [h EXCEPT !.cache = c]
    BY <1>1, <1>2, <1>4, <1>5, <1>6, <1>8 DEF Aged, HookFields, CacheParts
  <1>12. Right(g, k, on, x)
    BY <1>3, <1>4, <1>9, <1>10, <1>11, CacheChange
  <1> QED BY <1>2, <1>3, <1>12, SameKey

LEMMA InvalidateAllStep == ASSUME HookInv, InvalidateAll PROVE HookInv'
  <1>1. h' = [h EXCEPT !.cache = Invalidate(@, Keys)] /\ UNCHANGED <<hook, key, enabled, gen>>
    BY DEF InvalidateAll
  <1>2. PICK k, on, x, g : k = key /\ on = enabled /\ x = gen /\ g = h'
    OBVIOUS
  <1>3. Core(h) /\ WaitsFor(h, k) /\ PageRight(h, k, on, x)
    BY <1>2, HookNow
  <1>4. PICK c0 : c0 = h.cache
    OBVIOUS
  <1>5. CacheRight(c0) /\ DOMAIN h = HookFields /\ DOMAIN c0 = CacheParts /\ StoreOwn(c0.store) /\ c0.inflight \in [Keys -> Nat]
    BY <1>3, <1>4 DEF Core, CacheRight
  <1>6. PICK Q : Q = {e \in Held(c0.store) : e.key \notin Keys}
    OBVIOUS
  <1>7. PICK st, none : st = Keeping(c0.store, Q) /\ none = [ck \in Keys |-> 0]
    OBVIOUS
  <1>8. StoreOwn(st)
    BY <1>5, <1>7, LeftFacts
  <1>9. PICK c : c = [c0 EXCEPT !.store = st, !.inflight = none]
    OBVIOUS
  <1>10. DOMAIN c = CacheParts /\ c.store = st /\ c.inflight = none /\ c.fetches = c0.fetches
    BY <1>5, <1>9 DEF CacheParts
  <1>11. CacheRight(c)
    BY <1>5, <1>7, <1>8, <1>10 DEF CacheRight, InflightAlive
  <1>12. c = Invalidate(c0, Keys)
    <2>1. [ck \in DOMAIN c0.inflight |-> IF ck \in Keys THEN 0 ELSE c0.inflight[ck]] = none
      BY <1>5, <1>7
    <2> QED BY <1>6, <1>7, <1>9, <2>1 DEF Invalidate
  <1>13. g = [h EXCEPT !.cache = c]
    BY <1>1, <1>2, <1>4, <1>12
  <1>14. Right(g, k, on, x)
    BY <1>3, <1>4, <1>10, <1>11, <1>13, CacheChange
  <1> QED BY <1>1, <1>2, <1>14, SameKey
-----------------------------------------------------------------------------
(* The cache without the request that was answered *)
LEMMA AnsweredCache ==
  ASSUME NEW c, CacheRight(c), NEW f \in c.fetches, NEW t, t = f.key[1],
         NEW data, data = NoData \/ (data \in Payloads /\ data.of = t), NEW r,
         r = IF Bypasses(f) THEN Dropped(c, f)
             ELSE IF data # NoData THEN Resolved(c, f, data) ELSE Rejected(c, f)
  PROVE  CacheRight(r) /\ r.fetches = c.fetches \ {f}
  <1>1. /\ DOMAIN c = CacheParts /\ StoreOwn(c.store) /\ c.inflight \in [Keys -> Nat] /\ InflightAlive(c)
        /\ f \in Requests /\ f.key \in Keys /\ (hook = "priority" => f.key[2] = 1)
        /\ \A e \in c.fetches : e.id = f.id => e = f
    BY DEF CacheRight, Requests
  <1>2. CASE Bypasses(f)
    <2>1. DOMAIN r = CacheParts /\ r.store = c.store /\ r.inflight = c.inflight /\ r.fetches = c.fetches \ {f}
      BY <1>1, <1>2 DEF CacheParts, Dropped
    <2>2. c.inflight[f.key] = 0
      BY <1>1, <1>2 DEF Bypasses, Unshared, CacheRight
    <2>3. InflightAlive(r)
      BY <1>1, <2>1, <2>2 DEF InflightAlive
    <2> QED BY <1>1, <2>1, <2>3 DEF CacheRight
  <1>3. CASE ~Bypasses(f)
    <2>1. PICK none : none = [c.inflight EXCEPT ![f.key] = 0]
      OBVIOUS
    <2>2. none \in [Keys -> Nat] /\ none[f.key] = 0 /\ \A ck \in Keys : ck # f.key => none[ck] = c.inflight[ck]
      BY <1>1, <2>1
    <2>3. /\ DOMAIN r = CacheParts /\ r.inflight = none /\ r.fetches = c.fetches \ {f}
          /\ r.store = IF data # NoData THEN WriteCache(c.store, f.key, data) ELSE c.store
      BY <1>1, <1>3, <2>1 DEF CacheParts, Resolved, Rejected
    <2>4. StoreOwn(r.store)
      <3>1. CASE data = NoData
        BY <1>1, <2>3, <3>1
      <3>2. CASE data # NoData
        <4>1. data \in EntryOf(f.key) /\ data \in Payloads \cup Overviews
          <5>1. f.key[2] \in Parts
            BY <1>1 DEF Keys
          <5>2. ~(hook \in {"overview", "priority"} /\ f.key[2] = 2)
            BY <1>1, <1>3 DEF Bypasses
          <5> QED BY <3>2, <5>2 DEF EntryOf
        <4> QED BY <1>1, <2>3, <3>2, <4>1, WriteFacts
      <3> QED BY <3>1, <3>2
    <2>5. InflightAlive(r)
      BY <1>1, <2>2, <2>3 DEF InflightAlive
    <2>6. \A ck \in Keys : Unshared(ck) => r.inflight[ck] = 0
      BY <2>2, <2>3 DEF CacheRight
    <2> QED BY <1>1, <2>2, <2>3, <2>4, <2>5, <2>6 DEF CacheRight
  <1> QED BY <1>2, <1>3

(* The waiter that still counts shows its own key's answer. *)
LEMMA ResumedFacts ==
  ASSUME hook \in KnownHooks, key \in Targets, NEW s, Core(s), WaitsFor(s, key), Shown(s),
         hook \in Strict => ShowsOwn(s, key), NEW a \in Waiting, hook = "priority" => a.part = 1,
         hook = "catalog" /\ (AwaitsPart(s, 2) \/ a.part = 2) => ShowsOwn(s, key),
         hook = "changes" => ~s.refreshing,
         NEW data, data = NoData \/ (data \in Payloads /\ data.of = key), data = NoData => CanReject,
         NEW id2, FreshId(s, id2), NEW r, r = Resumed(s, a, data, id2), NEW on, NEW x
  PROVE  Right(r, key, on, x)
  <1>0. PICK k : k = key
    OBVIOUS
  <1>a. k \in Targets /\ WaitsFor(s, k) /\ a.part \in Parts /\ a.bg \in BOOLEAN /\ Own(data, k) /\ DOMAIN s = HookFields
    BY <1>0 DEF Waiting, Own, Core
  <1>1. CASE hook \in {"status", "chain"}
    <2>1. r = Settled([s EXCEPT !.one = data])
      BY <1>1 DEF Resumed
    <2>2. /\ DOMAIN r = HookFields /\ r.one = data /\ r.two = s.two /\ r.loading = FALSE /\ r.refreshing = FALSE
          /\ r.failed = s.failed /\ r.cache = s.cache /\ r.awaits = s.awaits
      BY <1>a, <2>1 DEF Settled, HookFields
    <2>3. Core(r)
      BY <2>2 DEF Core
    <2>4. WaitsFor(r, k)
      BY <1>a, <2>2 DEF WaitsFor
    <2>5. Shown(r) /\ ShowsOwn(r, k)
      BY <1>1, <1>a, <2>2 DEF Shown, ShowsOwn, Own
    <2> QED BY <1>0, <1>1, <2>2, <2>3, <2>4, <2>5 DEF Right, PageRight
  <1>2. CASE hook = "catalog" /\ data # NoData /\ a.part = 1
    <2>1. PICK s1 : s1 = [s EXCEPT !.one = data]
      OBVIOUS
    <2>2. /\ DOMAIN s1 = HookFields /\ s1.one = data /\ s1.two = s.two /\ s1.loading = s.loading
          /\ s1.refreshing = s.refreshing /\ s1.failed = s.failed /\ s1.cache = s.cache /\ s1.awaits = s.awaits
      BY <1>a, <2>1 DEF HookFields
    <2>3. Core(s1)
      BY <2>2 DEF Core
    <2>4. WaitsFor(s1, k) /\ FreshId(s1, id2) /\ Own(s1.one, k)
      BY <1>a, <2>2 DEF WaitsFor, FreshId
    <2>5. r = CatalogCounts(s1, k, a.bg, id2)
      BY <1>0, <1>2, <2>1 DEF Resumed
    <2>6. Right(r, k, on, x)
      BY <1>2, <1>a, <2>3, <2>4, <2>5, CatalogCountsFacts
    <2> QED BY <1>0, <2>6
  <1>3. CASE hook = "catalog" /\ data # NoData /\ a.part = 2
    <2>1. r = Settled([s EXCEPT !.two = data])
      BY <1>3 DEF Resumed
    <2>2. /\ DOMAIN r = HookFields /\ r.one = s.one /\ r.two = data /\ r.loading = FALSE /\ r.refreshing = FALSE
          /\ r.failed = s.failed /\ r.cache = s.cache /\ r.awaits = s.awaits
      BY <1>a, <2>1 DEF Settled, HookFields
    <2>3. Core(r)
      BY <2>2 DEF Core
    <2>4. WaitsFor(r, k)
      BY <1>a, <2>2 DEF WaitsFor
    <2>5. ShowsOwn(r, k)
      BY <1>0, <1>3, <1>a, <2>2 DEF ShowsOwn
    <2>6. Shown(r)
      BY <1>3, <2>5 DEF Shown, ShowsOwn, Own
    <2> QED BY <1>0, <1>3, <2>2, <2>3, <2>4, <2>5, <2>6 DEF Right, PageRight
  <1>4. CASE hook = "catalog" /\ data = NoData
    <2>1. r = Settled(IF PeekPart(s, key, 1) = NoData
                      THEN [s EXCEPT !.one = NoData, !.two = NoData, !.failed = TRUE]
                      ELSE [s EXCEPT !.failed = TRUE])
      BY <1>4 DEF Resumed
    <2>2. /\ DOMAIN r = HookFields /\ r.loading = FALSE /\ r.refreshing = FALSE /\ r.failed = TRUE
          /\ r.cache = s.cache /\ r.awaits = s.awaits
          /\ (r.one = NoData /\ r.two = NoData) \/ (r.one = s.one /\ r.two = s.two)
      BY <1>a, <2>1 DEF Settled, HookFields
    <2>3. Core(r)
      BY <2>2 DEF Core
    <2>4. WaitsFor(r, k)
      BY <1>a, <2>2 DEF WaitsFor
    <2>5. Shown(r)
      BY <1>4, <2>2 DEF Shown
    <2>6. AwaitsPart(r, 2) => ShowsOwn(r, k)
      BY <1>0, <1>4, <2>2 DEF AwaitsPart, ShowsOwn, Own
    <2> QED BY <1>0, <1>4, <2>2, <2>3, <2>4, <2>5, <2>6 DEF Right, PageRight, Strict
  <1>5. CASE Overview /\ a.part = 1
    <2>1. data # NoData
      BY <1>5 DEF CanReject, Overview
    <2>2. r = OverviewRest(s, k, data, id2)
      BY <1>0, <1>5 DEF Resumed, Overview
    <2>3. Right(r, k, on, x)
      BY <1>5, <1>a, <2>1, <2>2, OverviewRestFacts DEF Own
    <2> QED BY <1>0, <2>3
  <1>6. CASE hook = "overview" /\ a.part = 2
    <2>1. PICK o : o = [one |-> s.one, two |-> data]
      OBVIOUS
    <2>2. ShowsOwn(s, k) /\ Overview
      BY <1>0, <1>6 DEF Strict, Overview
    <2>3. o \in Overviews /\ Own(o.one, k) /\ Own(o.two, k)
      BY <1>a, <2>1, <2>2 DEF Overviews, ShowsOwn, Own
    <2>4. PICK t : t = ApplyOverview(s, k, o)
      OBVIOUS
    <2>5. Core(t) /\ WaitsFor(t, k) /\ ShowsOwn(t, k)
      BY <1>a, <2>2, <2>3, <2>4, ApplyOverviewFacts
    <2>6. r = Settled(t)
      BY <1>0, <1>6, <2>1, <2>4 DEF Resumed
    <2>7. /\ DOMAIN r = HookFields /\ r.one = t.one /\ r.two = t.two /\ r.loading = FALSE /\ r.refreshing = FALSE
          /\ r.failed = t.failed /\ r.cache = t.cache /\ r.awaits = t.awaits
      BY <2>5, <2>6 DEF Settled, HookFields, Core
    <2>8. Core(r)
      BY <2>5, <2>7 DEF Core
    <2>9. WaitsFor(r, k) /\ ShowsOwn(r, k)
      BY <2>5, <2>7 DEF WaitsFor, ShowsOwn
    <2>10. Shown(r)
      BY <1>6, <2>9 DEF Shown, ShowsOwn, Own
    <2> QED BY <1>0, <1>6, <2>7, <2>8, <2>9, <2>10 DEF Right, PageRight
  <1>7. CASE hook = "manifest"
    <2>1. r = Settled(IF data = NoData /\ a.bg THEN s ELSE [s EXCEPT !.one = data])
      BY <1>7 DEF Resumed
    <2>2. /\ DOMAIN r = HookFields /\ (r.one = s.one \/ r.one = data) /\ r.two = s.two
          /\ r.loading = FALSE /\ r.refreshing = FALSE
          /\ r.failed = s.failed /\ r.cache = s.cache /\ r.awaits = s.awaits
      BY <1>a, <2>1 DEF Settled, HookFields
    <2>3. Core(r)
      BY <2>2 DEF Core
    <2>4. WaitsFor(r, k)
      BY <1>a, <2>2 DEF WaitsFor
    <2>5. ShowsOwn(r, k)
      BY <1>0, <1>7, <1>a, <2>2 DEF ShowsOwn, Strict
    <2>6. Shown(r)
      BY <1>7, <2>2, <2>5 DEF Shown, ShowsOwn, Own
    <2> QED BY <1>0, <1>7, <2>2, <2>3, <2>4, <2>5, <2>6 DEF Right, PageRight
  <1>8. CASE hook = "changes"
    <2>1. r = IF data = NoData THEN [s EXCEPT !.loading = FALSE] ELSE [s EXCEPT !.one = data, !.loading = FALSE]
      BY <1>8 DEF Resumed
    <2>2. /\ DOMAIN r = HookFields /\ (r.one = s.one \/ r.one = data) /\ r.two = s.two
          /\ r.loading = FALSE /\ r.refreshing = s.refreshing
          /\ r.failed = s.failed /\ r.cache = s.cache /\ r.awaits = s.awaits
      BY <1>a, <2>1 DEF HookFields
    <2>3. Core(r)
      BY <2>2 DEF Core
    <2>4. WaitsFor(r, k)
      BY <1>a, <2>2 DEF WaitsFor
    <2>5. ShowsOwn(r, k)
      BY <1>0, <1>8, <1>a, <2>2 DEF ShowsOwn, Strict
    <2>6. Shown(r)
      BY <1>8, <2>2, <2>5 DEF Shown, ShowsOwn, Own
    <2> QED BY <1>0, <1>8, <2>2, <2>3, <2>4, <2>5, <2>6 DEF Right, PageRight
  <1>9. a.part = 1 \/ a.part = 2
    BY <1>a DEF Parts
  <1> QED BY <1>1, <1>2, <1>3, <1>4, <1>5, <1>6, <1>7, <1>8, <1>9 DEF KnownHooks, Overview
LEMMA AnsweredStep == ASSUME HookInv, Answered PROVE HookInv'
  <1>1. UNCHANGED <<hook, key, enabled, gen>>
    BY DEF Answered
  <1>2. PICK f \in h.cache.fetches, g0 \in {y \in Gens : y <= gen}, ok \in BOOLEAN, ids \in FreshPairs :
          LET data == IF ok THEN [of |-> f.key[1], gen |-> g0] ELSE NoData
              mine == {a \in h.awaits : a.wait = f.id}
              s1   == [h EXCEPT !.awaits = @ \ mine,
                                !.cache = IF Bypasses(f) THEN Dropped(@, f)
                                          ELSE IF ok THEN Resolved(@, f, data) ELSE Rejected(@, f)]
              last == {a \in mine : a.latest}
          IN  /\ ~ok => CanReject
              /\ h' = IF last = {} THEN s1
                      ELSE Resumed(s1, CHOOSE a \in last : TRUE,
                                   IF ok THEN data ELSE f.stale, ids[2])
    BY DEF Answered
  <1>3. PICK data : data = IF ok THEN [of |-> f.key[1], gen |-> g0] ELSE NoData
    OBVIOUS
  <1>4. PICK mine : mine = {a \in h.awaits : a.wait = f.id}
    OBVIOUS
  <1>5. PICK c0, c : /\ c0 = h.cache
                     /\ c = IF Bypasses(f) THEN Dropped(c0, f)
                            ELSE IF ok THEN Resolved(c0, f, data) ELSE Rejected(c0, f)
    OBVIOUS
  <1>6. PICK s1 : s1 = [h EXCEPT !.awaits = @ \ mine, !.cache = c]
    OBVIOUS
  <1>7. PICK last : last = {a \in mine : a.latest}
    OBVIOUS
  <1>8. PICK back, id2 : back = (IF ok THEN data ELSE f.stale) /\ id2 = ids[2]
    OBVIOUS
  <1>9. /\ ~ok => CanReject
        /\ h' = IF last = {} THEN s1 ELSE Resumed(s1, CHOOSE a \in last : TRUE, back, id2)
    <2> DEFINE data0 == IF ok THEN [of |-> f.key[1], gen |-> g0] ELSE NoData
               mine0 == {a \in h.awaits : a.wait = f.id}
               new0  == IF Bypasses(f) THEN Dropped(h.cache, f)
                        ELSE IF ok THEN Resolved(h.cache, f, data0) ELSE Rejected(h.cache, f)
               next0 == [h EXCEPT !.awaits = @ \ mine0, !.cache = new0]
               last0 == {a \in mine0 : a.latest}
    <2>1. /\ ~ok => CanReject
          /\ h' = IF last0 = {} THEN next0
                  ELSE Resumed(next0, CHOOSE a \in last0 : TRUE, IF ok THEN data0 ELSE f.stale, ids[2])
      BY <1>2
    <2>2. data = data0 /\ mine = mine0
      BY <1>3, <1>4
    <2>3. c = new0
      BY <1>5, <2>2
    <2>4. s1 = next0
      BY <1>6, <2>2, <2>3
    <2>5. last = last0
      BY <1>7, <2>2
    <2> HIDE DEF data0, mine0, new0, next0, last0
    <2> QED BY <1>8, <2>1, <2>2, <2>4, <2>5
  <1>10. PICK k, on, x, g : k = key /\ on = enabled /\ x = gen /\ g = h'
    OBVIOUS
  <1>11. Core(h) /\ WaitsFor(h, k) /\ PageRight(h, k, on, x) /\ Shown(h) /\ hook \in KnownHooks
    BY <1>10, HookNow
  <1>12. /\ CacheRight(c0) /\ f \in c0.fetches /\ f \in Requests /\ f.key \in Keys /\ f.key[1] \in Targets
         /\ f.stale \in EntryOf(f.key) \cup {NoData} /\ DOMAIN h = HookFields
    BY <1>5, <1>11 DEF Core, CacheRight, Requests, Keys
  <1>13. PICK t : t = f.key[1]
    OBVIOUS
  <1>14. (ok => data \in Payloads /\ data.of = t /\ data # NoData) /\ (~ok => data = NoData)
    BY <1>3, <1>12, <1>13, FetchAssumption DEF Payloads
  <1>15. CacheRight(c) /\ c.fetches = c0.fetches \ {f}
    <2>1. c = IF Bypasses(f) THEN Dropped(c0, f)
              ELSE IF data # NoData THEN Resolved(c0, f, data) ELSE Rejected(c0, f)
      BY <1>5, <1>14
    <2> QED BY <1>12, <1>13, <1>14, <2>1, AnsweredCache
  <1>16. DOMAIN s1 = HookFields /\ ShowsAs(s1, h) /\ s1.cache = c /\ s1.awaits = h.awaits \ mine
    BY <1>6, <1>12 DEF HookFields, ShowsAs
  <1>17. Core(s1)
    <2>1. ASSUME NEW a \in s1.awaits
          PROVE  a \in Waiting /\ (\E e \in c.fetches : e.id = a.wait) /\ (hook = "priority" => a.part = 1)
      BY <1>4, <1>5, <1>11, <1>15, <1>16 DEF Core
    <2> QED BY <1>11, <1>15, <1>16, <2>1 DEF Core, ShowsAs
  <1>18. WaitsFor(s1, k)
    BY <1>5, <1>11, <1>15, <1>16 DEF WaitsFor
  <1>19. Shown(s1) /\ (ShowsOwn(h, k) => ShowsOwn(s1, k)) /\ (AwaitsPart(s1, 2) => AwaitsPart(h, 2))
    BY <1>11, <1>16 DEF Shown, ShowsOwn, ShowsAs, AwaitsPart
  <1>20. CASE last = {}
    <2>1. g = s1
      BY <1>9, <1>10, <1>20
    <2>2. (\E a \in h.awaits : a.latest) => \E a \in s1.awaits : a.latest
      BY <1>7, <1>16, <1>20
    <2>3. PageRight(s1, k, on, x)
      BY <1>11, <1>16, <1>19, <2>2 DEF PageRight, ShowsAs
    <2> QED BY <1>1, <1>10, <1>17, <1>18, <2>1, <2>3, SameKey DEF Right
  <1>21. CASE last # {}
    <2>1. PICK a \in last : g = Resumed(s1, a, back, id2)
      BY <1>9, <1>10, <1>21
    <2>2. a \in h.awaits /\ a.wait = f.id /\ a.latest /\ a \in Waiting /\ (hook = "priority" => a.part = 1)
      BY <1>4, <1>7, <1>11, <2>1 DEF Core
    <2>3. t = k /\ key \in Targets
      BY <1>5, <1>10, <1>11, <1>12, <1>13, <2>2 DEF WaitsFor
    <2>4. back = NoData \/ (back \in Payloads /\ back.of = k)
      <3>1. CASE ok
        BY <1>8, <1>14, <2>3, <3>1
      <3>2. CASE ~ok
        <4>1. hook \notin {"overview", "priority"}
          BY <1>9, <3>2 DEF CanReject
        <4> QED BY <1>8, <1>12, <1>13, <2>3, <3>2, <4>1 DEF EntryOf
      <3> QED BY <3>1, <3>2
    <2>5. back = NoData => CanReject
      BY <1>8, <1>9, <1>14
    <2>6. FreshId(s1, id2)
      BY <1>5, <1>8, <1>15, <1>16, PairFresh DEF FreshId
    <2>7. hook \in Strict => ShowsOwn(s1, k)
      BY <1>11, <1>19 DEF PageRight
    <2>8. hook = "catalog" /\ (AwaitsPart(s1, 2) \/ a.part = 2) => ShowsOwn(s1, k)
      BY <1>11, <1>19, <2>2 DEF PageRight, AwaitsPart
    <2>9. hook = "changes" => ~s1.refreshing
      BY <1>11, <1>16 DEF PageRight, ShowsAs
    <2>10. Right(g, key, on, x)
      BY <1>10, <1>11, <1>17, <1>18, <1>19, <2>1, <2>2, <2>3, <2>4, <2>5, <2>6, <2>7, <2>8, <2>9, ResumedFacts
    <2> QED BY <1>1, <1>10, <2>10, SameKey
  <1> QED BY <1>20, <1>21
-----------------------------------------------------------------------------
LEMMA HookStutter == ASSUME HookInv, UNCHANGED hookVars PROVE HookInv'
  <1>1. PICK g : g = h
    OBVIOUS
  <1>2. Right(g, key, enabled, gen) /\ h' = g /\ UNCHANGED <<hook, key, enabled, gen>>
    BY <1>1 DEF HookInv, hookVars
  <1> QED BY <1>2, SameKey

LEMMA HookStep == HookInv /\ [HookNext]_hookVars => HookInv'
  <1>1. SUFFICES ASSUME HookInv, [HookNext]_hookVars PROVE HookInv'
    OBVIOUS
  <1> QED BY <1>1, HookStutter, SelectKeyStep, SetEnabledStep, NewGenerationStep, SyncedStep, RefreshStep,
             PollStatusStep, PrefetchManifestStep, ExpireStep, InvalidateAllStep, AnsweredStep DEF HookNext

LEMMA HookStart == HookInit /\ Hooks \subseteq KnownHooks => HookInv
  <1>1. SUFFICES ASSUME HookInit, Hooks \subseteq KnownHooks PROVE HookInv
    OBVIOUS
  <1>2. PICK c : c = [store |-> <<>>, inflight |-> [ck \in Keys |-> 0], fetches |-> {}]
    OBVIOUS
  <1>3. /\ DOMAIN c = CacheParts /\ c.store = <<>> /\ c.inflight = [ck \in Keys |-> 0] /\ c.fetches = {}
    BY <1>2 DEF CacheParts
  <1>4. StoreOwn(c.store)
    <2>1. PICK e : e = <<>>
      OBVIOUS
    <2>2. e \in Seq(Entries) /\ DOMAIN e = {}
      BY <2>1
    <2> QED BY <1>3, <2>1, <2>2 DEF StoreOwn
  <1>5. CacheRight(c)
    BY <1>3, <1>4 DEF CacheRight, InflightAlive
  <1>6. /\ DOMAIN h = HookFields /\ h.one = NoData /\ h.two = NoData /\ h.loading = FALSE /\ h.refreshing = FALSE
        /\ h.failed = FALSE /\ h.cache = c /\ h.awaits = {}
    BY <1>1, <1>2 DEF HookInit, HookFields
  <1>7. Core(h) /\ WaitsFor(h, key)
    BY <1>5, <1>6 DEF Core, WaitsFor
  <1>8. PageRight(h, key, enabled, gen)
    BY <1>6 DEF PageRight, Shown, ShowsOwn, Own, AwaitsPart
  <1> QED BY <1>1, <1>7, <1>8 DEF HookInv, HookInit, Right

LEMMA HookHolds == HookInv => RequestsOwn
  <1>1. SUFFICES ASSUME HookInv PROVE RequestsOwn
    OBVIOUS
  <1>2. Core(h) /\ WaitsFor(h, key) /\ PageRight(h, key, enabled, gen) /\ Shown(h)
    BY <1>1, HookNow
  <1>3. OwnWhenSettled
    BY <1>2 DEF OwnWhenSettled, PageRight, ShowsOwn, Own
  <1>4. NeverMixed
    BY <1>2 DEF NeverMixed, Shown
  <1>5. SpinnerBacked
    BY <1>2 DEF SpinnerBacked, PageRight, Core, WaitsFor
  <1>6. NoLostWaiter
    BY <1>2 DEF NoLostWaiter, Core, CacheRight
  <1>7. GenerationChecked
    BY <1>2 DEF GenerationChecked, PageRight
  <1> QED BY <1>3, <1>4, <1>5, <1>6, <1>7 DEF RequestsOwn

(* Each of the fetching hooks shows the answers of its own request, in whatever
   order requests, answers, rejections and selections come: of any number of keys,
   requests and generations, and any capacity of the cache (useClusterStatus,
   useResourceCatalog, useWorkloadOverview, useResourceManifest, useCachedFetch,
   useFocusChainCatalog over catalogCache.js). *)
THEOREM RequestsSafe == HookSpec => []RequestsOwn
  <1>1. HookInit => HookInv
    BY HookStart, FetchAssumption DEF KnownHooks
  <1>2. HookInv /\ [HookNext]_hookVars => HookInv'
    BY HookStep
  <1> QED BY <1>1, <1>2, HookHolds, PTL DEF HookSpec
=============================================================================
