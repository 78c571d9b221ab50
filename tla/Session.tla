------------------------------ MODULE Session -------------------------------
(***************************************************************************)
(* The investigation session of a desktop window (App.jsx): the search     *)
(* bar's start and stop, the scope picker, the namespace lock of the       *)
(* Resources view, the coalesced view updates, the context switch, and the *)
(* backend session they control (StartInvestigation, StopInvestigation and *)
(* the "state" events of app.go).                                          *)
(*                                                                         *)
(* Every handler that awaits a bridge call is an action up to the await    *)
(* and one action per answer.  A handler keeps the values of the render it *)
(* was called from (its closure), also when the window has moved on since. *)
(***************************************************************************)
EXTENDS Naturals, FiniteSets, BrowseScope

CONSTANTS Queries,     \* non-blank search strings, normalised
          Blank,       \* the blank search string
          Contexts,
          NoSession,   \* no live session in the backend
          EmptyView,   \* the view of no session
          MaxCalls     \* bound: handlers that wait for the bridge at a time

ASSUME SessionAssumption == /\ Blank \notin Queries /\ EmptyView \notin Queries
                            /\ MaxCalls \in Nat \ {0}

VARIABLES
  u,       \* the window's state
  svc,     \* the backend's live session: [q, ns, ctx] or NoSession
  calls,   \* handlers that wait for an answer, with their closures
  raced    \* (ghost) an operation began while another was unanswered

sessVars == <<u, svc, calls, raced>>

-----------------------------------------------------------------------------
(* Pieces of the handlers, as functions of the window's state. *)

LockResources(w, scope, sessionNs, browse) ==
  [w EXCEPT !.lens = "matches", !.locked = {InvestigationLockNs(scope, sessionNs)},
            !.saved = IF @ = {} THEN {browse} ELSE @]

(* unlockResourcesFromInvestigation with the lens of the caller's render *)
Unlock(w, lens) ==
  [w EXCEPT !.saved = {}, !.locked = {}, !.invNs = NoNs, !.lens = "matches",
            !.browse = IF w.saved # {} /\ lens = "matches"
                       THEN CHOOSE s \in w.saved : TRUE ELSE @]

(* the lock is dropped where it is (no match, failed discovery, cancel) *)
Released(w) == [w EXCEPT !.saved = {}, !.locked = {}, !.invNs = NoNs]

BeginTransition(w, q) == [w EXCEPT !.view = EmptyView, !.active = q]

Ended(w) == [w EXCEPT !.active = Blank, !.view = EmptyView]

(* Mutant: the lock is not given back. *)
FailedLocked(w, lens) == [Ended(w) EXCEPT !.running = FALSE]

Failed(w, lens) == Unlock([Ended(w) EXCEPT !.running = FALSE], lens)

(* normalizedInvestigationScope *)
Scope(w) == InvestigationNs(w.scope, w.cluster.ns)

(* what a handler of this render will see after its awaits *)
Closure == [scope |-> Scope(u), browse |-> u.browse, lens |-> u.lens, cluster |-> u.cluster]

(* runInvestigation up to its first await, with the closure at; the namespace
   is the scope's, or a match's; without one it throws. *)
RunInvestigation(w, q, at, others, ns) ==
  IF ns = NoNs
  THEN /\ u' = Failed(w, at.lens)
       /\ calls' = others
  ELSE /\ u' = [LockResources(w, at.scope, ns, at.browse) EXCEPT !.view = EmptyView, !.invNs = ns]
       /\ calls' = others \cup
            {[pc |-> IF ns # at.cluster.ns THEN "namespace" ELSE "start",
              q |-> q, ns |-> ns, ctx |-> at.cluster.ctx, lens |-> at.lens]}

(* investigationNamespace(scope, matches) *)
SessionNs(scope) == IF scope # NoNs THEN {scope} ELSE Namespaces \cup {NoNs}

-----------------------------------------------------------------------------
SessInit ==
  /\ \E c \in Contexts, n \in Namespaces \cup {NoNs} :
       u = [cluster |-> [ctx |-> c, ns |-> n], scope |-> n, browse |-> AllScope, lens |-> "matches",
            locked |-> {}, saved |-> {}, invNs |-> NoNs,
            running |-> FALSE, starting |-> FALSE, active |-> Blank,
            view |-> EmptyView, pending |-> {}, picker |-> FALSE]
  /\ svc = NoSession /\ calls = {} /\ raced = FALSE

Begins == raced' = (raced \/ calls # {})

Room == Cardinality(calls) < MaxCalls

(* Investigate: onStart up to DiscoverMatches. *)
OnStart ==
  \E q \in Queries \cup {Blank} :
    /\ ~u.starting /\ ~u.picker /\ Scope(u) # NoNs /\ Room
    /\ u' = [LockResources(BeginTransition(u, q), Scope(u), Scope(u), u.browse) EXCEPT !.starting = TRUE]
    /\ calls' = calls \cup {[pc |-> "discover", q |-> q, at |-> Closure]}
    /\ Begins
    /\ UNCHANGED svc

(* What onStart does with the answer of DiscoverMatches: a blank query opens
   the picker; no match and a failure end the start; matches run it. *)
Discovered(c) ==
  LET w    == [u EXCEPT !.starting = FALSE]
      rest == calls \ {c}
  IN  \/ c.q = Blank /\ u' = [w EXCEPT !.picker = TRUE] /\ calls' = rest
      \/ c.q # Blank /\ u' = Released(Ended(w)) /\ calls' = rest
      \/ u' = Released(Ended([w EXCEPT !.running = FALSE])) /\ calls' = rest
      \/ /\ c.q # Blank
         /\ \E ns \in SessionNs(c.at.scope) :
              RunInvestigation([w EXCEPT !.running = TRUE], c.q, c.at, rest, ns)

DiscoverAnswered ==
  /\ \E c \in calls : c.pc = "discover" /\ Discovered(c)
  /\ UNCHANGED <<svc, raced>>

(* The scope picker's confirm: the blank query, or one selected object. *)
OnScopeConfirm ==
  /\ u.picker
  /\ \E q \in Queries \cup {Blank}, ns \in SessionNs(Scope(u)) :
       LET w == LockResources(BeginTransition([u EXCEPT !.picker = FALSE], q), Scope(u), Scope(u), u.browse)
       IN  RunInvestigation([w EXCEPT !.running = TRUE], q, Closure, calls, ns)
  /\ Begins
  /\ UNCHANGED svc

OnScopeCancel ==
  /\ u.picker
  /\ u' = IF u.running THEN [u EXCEPT !.picker = FALSE] ELSE Released([u EXCEPT !.picker = FALSE])
  /\ UNCHANGED <<svc, calls, raced>>

(* await setNamespace(ns) of runInvestigation, or of a browse scope change *)
NamespaceAnswered ==
  \E c \in calls :
    /\ c.pc \in {"namespace", "browse"}
    /\ u' = [u EXCEPT !.cluster.ns = c.ns, !.scope = IF @ = NoNs THEN c.ns ELSE @]
    /\ calls' = IF c.pc = "browse" THEN calls \ {c}
                ELSE (calls \ {c}) \cup {[c EXCEPT !.pc = "start"]}
    /\ UNCHANGED <<svc, raced>>

(* StartInvestigation in the backend: it first stops the session there is,
   and stops whatever there is by then again when it fails. *)
BackendBegins ==
  \E c \in calls :
    /\ c.pc = "start"
    /\ svc' = NoSession
    /\ calls' = (calls \ {c}) \cup {[c EXCEPT !.pc = "starting"]}
    /\ UNCHANGED <<u, raced>>

BackendStarts ==
  \E c \in calls :
    /\ c.pc = "starting"
    /\ \/ /\ svc' = [q |-> c.q, ns |-> c.ns, ctx |-> c.ctx]
          /\ calls' = (calls \ {c}) \cup {[c EXCEPT !.pc = "started"]}
       \/ /\ svc' = NoSession
          /\ calls' = (calls \ {c}) \cup {[c EXCEPT !.pc = "failed"]}
    /\ UNCHANGED <<u, raced>>

(* runInvestigation after StartInvestigation, or the catch of its caller *)
StartAnswered ==
  \E c \in calls :
    /\ \/ /\ c.pc = "started"
          /\ u' = [u EXCEPT !.running = TRUE, !.active = c.q]
          /\ calls' = (calls \ {c}) \cup {[pc |-> "view"]}
       \/ /\ c.pc = "failed"
          /\ u' = Failed(u, c.lens)
          /\ calls' = calls \ {c}
    /\ UNCHANGED <<svc, raced>>

ViewOf(s) == IF s = NoSession THEN EmptyView ELSE s.q

(* GetView answers; applyView keeps the payload until the timer fires *)
ViewAnswered ==
  \E c \in calls :
    /\ c.pc = "view"
    /\ u' = [u EXCEPT !.pending = {ViewOf(svc)}]
    /\ calls' = calls \ {c}
    /\ UNCHANGED <<svc, raced>>

(* a "state" event of the backend's watch loop reaches applyView *)
StateEvent ==
  /\ svc # NoSession
  /\ u' = [u EXCEPT !.pending = {svc.q}]
  /\ UNCHANGED <<svc, calls, raced>>

(* a view of another query than the active one is dropped *)
Accepts(payload) ==
  u.active \in Queries /\ payload \in Queries => payload = u.active

FlushView ==
  /\ u.pending # {}
  /\ \E payload \in u.pending :
       u' = [u EXCEPT !.pending = {}, !.view = IF Accepts(payload) THEN payload ELSE @]
  /\ UNCHANGED <<svc, calls, raced>>

(* The stop button, and the idle timer (which also fires during a start). *)
OnStop ==
  /\ u.running /\ ~u.starting /\ ~u.picker /\ Room
  /\ \A c \in calls : c.pc # "stop"
  /\ calls' = calls \cup {[pc |-> "stop", lens |-> u.lens]}
  /\ Begins
  /\ UNCHANGED <<u, svc>>

OnIdle ==
  /\ u.running /\ Room
  /\ \A c \in calls : c.pc # "stop"
  /\ calls' = calls \cup {[pc |-> "stop", lens |-> u.lens]}
  /\ Begins
  /\ UNCHANGED <<u, svc>>

(* finishStop after StopInvestigation has ended the backend's session *)
StopAnswered ==
  \E c \in calls :
    /\ c.pc = "stop"
    /\ svc' = NoSession
    /\ u' = [Ended(Unlock(u, c.lens)) EXCEPT !.running = FALSE, !.starting = FALSE]
    /\ calls' = calls \ {c}
    /\ raced' = (raced /\ calls' # {})

(* onContextChange: while investigating another context opens a new window *)
OnContextChange ==
  \E x \in Contexts :
    /\ ~u.running /\ ~u.starting /\ ~u.picker /\ Room
    /\ calls' = calls \cup {[pc |-> "context", ctx |-> x]}
    /\ Begins
    /\ UNCHANGED <<u, svc>>

(* SelectContext answers with the context and its default namespace; the two
   effects of App on the cluster follow in the same commit *)
ContextAnswered ==
  \E c \in calls, ns \in Namespaces \cup {NoNs} :
    /\ c.pc = "context"
    /\ LET w == [u EXCEPT !.cluster = [ctx |-> c.ctx, ns |-> ns]]
           moved == c.ctx # u.cluster.ctx
       IN  u' = [w EXCEPT !.browse = IF moved THEN AllScope ELSE @,
                          !.scope  = IF moved \/ @ = NoNs THEN ns ELSE @]
    /\ calls' = calls \ {c}
    /\ UNCHANGED <<svc, raced>>

(* the namespace picker of the search bar *)
OnInvestigationScopeChange ==
  \E ns \in Namespaces :
    /\ ~u.running /\ ~u.starting /\ ~u.picker
    /\ u' = [u EXCEPT !.scope = ns]
    /\ UNCHANGED <<svc, calls, raced>>

NamespaceLocked == u.locked # {} /\ u.lens = "matches"

(* the namespace picker of the Resources view *)
OnBrowseScopeChange ==
  \E s \in Scopes :
    /\ ~NamespaceLocked /\ ~u.picker
    /\ u' = [u EXCEPT !.browse = s]
    /\ IF s.mode = "single" /\ s.ns # {u.cluster.ns}
       THEN Room /\ \E n \in s.ns : calls' = calls \cup {[pc |-> "browse", ns |-> n]}
       ELSE UNCHANGED calls
    /\ UNCHANGED <<svc, raced>>

(* the lens shown in the Resources view during a session *)
OnLensChange ==
  /\ u.locked # {} /\ ~u.picker
  /\ u' = [u EXCEPT !.lens = IF @ = "matches" THEN "all" ELSE "matches"]
  /\ UNCHANGED <<svc, calls, raced>>

SessNext ==
  \/ OnStart \/ DiscoverAnswered \/ OnScopeConfirm \/ OnScopeCancel \/ NamespaceAnswered
  \/ BackendBegins \/ BackendStarts \/ StartAnswered \/ ViewAnswered
  \/ StateEvent \/ FlushView \/ OnStop \/ OnIdle \/ StopAnswered
  \/ OnContextChange \/ ContextAnswered
  \/ OnInvestigationScopeChange \/ OnBrowseScopeChange \/ OnLensChange

SessSpec == SessInit /\ [][SessNext]_sessVars
-----------------------------------------------------------------------------
(* The browse scope that will be given back is remembered exactly as long as
   the Resources view is locked, however starts, stops and failures overlap. *)
SavedWhileLocked == u.saved # {} <=> u.locked # {}

(* A lock always has someone who will take it away: a session, a start, the
   picker, or a handler whose answer is still to come. *)
NoStuckLock == u.locked # {} => u.running \/ u.starting \/ u.picker \/ calls # {}

(* The search bar is disabled by "starting" only while a discovery is under
   way. *)
StartingBacked == u.starting => \E c \in calls : c.pc = "discover"

(* As long as no operation was begun during another: when all is answered, a
   window that shows a running query has the backend's session of that query,
   namespace and context, and its Resources view is locked to it. *)
SessionShown ==
  ~raced /\ calls = {} /\ u.running /\ u.active # Blank =>
    /\ svc = [q |-> u.active, ns |-> u.invNs, ctx |-> u.cluster.ctx]
    /\ u.locked = {u.invNs}

(* A late event or a late GetView never brings back the view of the query
   before under the query that is active now. *)
ViewOwn == ~raced /\ u.active \in Queries /\ u.view \in Queries => u.view = u.active

(* Starts, stops, failures, switches and late events of investigations leave the
   window consistent, in whatever order their answers come (App.jsx:470). *)
SessionHolds == SavedWhileLocked /\ NoStuckLock /\ StartingBacked /\ SessionShown /\ ViewOwn
=============================================================================
