--------------------------- MODULE CatalogEntities ---------------------------
(***************************************************************************)
(* The list of one kind in the Resources view: useCatalogEntities with the *)
(* cache it shares (CatalogCache) and the entity watch of the desktop      *)
(* application (StartCatalogEntityWatch, StopCatalogEntityWatch and the    *)
(* throttled catalog:entities event) behind the asynchronous bridge.       *)
(*                                                                         *)
(* One action is one React commit with the effects it runs, one resumed    *)
(* await, one delivered event, or one step of the backend.  reqRef is only *)
(* ever compared with the number a request took, so a request carries      *)
(* "latest" and incrementing reqRef clears it everywhere.  The age of a    *)
(* cache entry plays no part here: every load that is not forced follows a *)
(* write to the same key in the same commit (FetchHooks has the ageing).   *)
(***************************************************************************)
EXTENDS Integers, FiniteSets, CatalogCache

CONSTANTS Resources,    \* resource ids of the catalog
          ListScopes,       \* browse scopes
          ReadyScopes,  \* those that name a namespace (or all)
          NoKey,        \* nothing selected: the empty cache key
          Answers,      \* what a list says: access state and number of rows
          InOrder,      \* the bridge handles calls in the order they are made
          MaxFetches, MaxCalls, MaxEvents

ASSUME ScopesAssumption == ReadyScopes \subseteq ListScopes
ASSUME BoundsAssumption == {MaxFetches, MaxCalls, MaxEvents} \subseteq Nat \ {0}

VARIABLES
  sel,      \* what the hook is rendered with: resource, scope, enabled
  cache,    \* the shared cache
  page,     \* state of the hook: payload shown, loading, refreshing, live
  awaits,   \* reloads waiting for a fetch
  visible,  \* document.visibilityState
  calls,    \* bridge calls the backend has not handled
  watch,    \* backend: [key of the running watch, payload of the throttled emit]
  failed,   \* the last start was refused
  events    \* catalog:entities events the page has not handled

listVars == <<sel, cache, page, awaits, visible, calls, watch, failed, events>>

Keys == Resources \X ListScopes

(* cacheKey: empty without a selected resource *)
CacheKey(s) == IF s.r = NoKey THEN NoKey ELSE <<s.r, s.s>>

(* A payload is told apart by the key whose objects it lists (the ghost "of"),
   the access state and the number of rows. *)
EmptyPayload == [of |-> NoKey, access |-> "unknown", n |-> 0]

AnswersOf(key) == {[of |-> key, access |-> a.access, n |-> a.n] : a \in Answers}

ScopeReady(s) == s.s \in ReadyScopes

(* The number a new fetch takes: the first that is not in use. *)
FreshIds ==
  LET free == (1..MaxFetches) \ ({f.id : f \in cache.fetches} \cup {a.wait : a \in awaits})
  IN  {i \in free : \A j \in free : i <= j}

-----------------------------------------------------------------------------
(* What the callbacks of the hook do to [page, cache, awaits]. *)

(* Shows a payload and writes it back to the cache as if just received. *)
ApplyPayload(h, key, payload, streaming) ==
  [h EXCEPT !.page.rows   = payload,
            !.page.live   = streaming,
            !.cache.store = IF key = NoKey THEN @ ELSE WriteCache(@, key, payload)]

Settled(h) == [h EXCEPT !.page.loading = FALSE, !.page.refreshing = FALSE]

(* Mutant: no request number. *)
SupersededNever(h) == h

(* ++reqRef.current, also the clean-up of the loading effect *)
Superseded(h) == [h EXCEPT !.awaits = {[a EXCEPT !.latest = FALSE] : a \in @}]

(* reload({force}); id is the number of the fetch it may start *)
Reload(h, s, force, id) ==
  LET key    == CacheKey(s)
      entry  == Peek(h.cache.store, key)
      h1     == Superseded(h)
      h2     == IF entry # NoData
                THEN [ApplyPayload(h1, key, entry, FALSE)
                        EXCEPT !.page.loading = FALSE, !.page.refreshing = TRUE]
                ELSE [h1 EXCEPT !.page.loading = TRUE]
      l      == Load(h2.cache, key, force, id)
      h3     == [h2 EXCEPT !.cache = l.cache]
  IN  IF ~s.on \/ key = NoKey \/ ~ScopeReady(s)
      THEN Settled(ApplyPayload(h, key, EmptyPayload, FALSE))
      ELSE IF l.wait = 0
           THEN Settled(ApplyPayload(h3, key, l.data, FALSE))
           ELSE [h3 EXCEPT !.awaits = @ \cup {[wait |-> l.wait, latest |-> TRUE,
                                               cached |-> entry # NoData]}]

(* The effect that runs when the key, "enabled" or syncedAt changes. *)
LoadEffect(h, s, id) ==
  LET key   == CacheKey(s)
      h1    == Superseded(h)
      entry == Peek(h1.cache.store, key)
      h2    == IF entry # NoData
               THEN [ApplyPayload(h1, key, entry, FALSE) EXCEPT !.page.loading = FALSE]
               ELSE [ApplyPayload(h1, key, EmptyPayload, FALSE) EXCEPT !.page.loading = TRUE]
  IN  IF ~s.on \/ key = NoKey
      THEN Settled(ApplyPayload(h1, key, EmptyPayload, FALSE))
      ELSE Reload(h2, s, FALSE, id)

(* The reload that waited resumes with data, or with the rejection NoData. *)
Resumed(h, s, a, data) ==
  LET h1 == [h EXCEPT !.awaits = @ \ {a}]
      h2 == IF a.cached THEN h1
            ELSE [h1 EXCEPT !.page.rows = [EmptyPayload EXCEPT !.access = "error"]]
  IN  CASE ~a.latest                  -> h1
        [] a.latest /\ data # NoData  -> Settled(ApplyPayload(h1, CacheKey(s), data, FALSE))
        [] a.latest /\ data = NoData  -> Settled([h2 EXCEPT !.page.live = FALSE])

Hook == [page |-> page, cache |-> cache, awaits |-> awaits]

Becomes(h) == page' = h.page /\ cache' = h.cache /\ awaits' = h.awaits

-----------------------------------------------------------------------------
(* The entity watch of the page and its calls over the bridge. *)

Watching(s) == s.on /\ CacheKey(s) # NoKey /\ ScopeReady(s)

(* syncWatch *)
SyncCall(s, v) == IF v THEN [op |-> "start", key |-> CacheKey(s)]
                  ELSE [op |-> "stop", key |-> NoKey]

(* Mutant: the new watch is started before the old one is stopped. *)
WatchCallsSwapped(old, new) ==
  (IF Watching(new) THEN <<SyncCall(new, visible)>> ELSE <<>>)
    \o (IF Watching(old) THEN <<SyncCall(old, FALSE)>> ELSE <<>>)

(* Clean-up of the old watch effect, then the new one. *)
WatchCalls(old, new) ==
  (IF Watching(old) THEN <<SyncCall(old, FALSE)>> ELSE <<>>)
    \o (IF Watching(new) THEN <<SyncCall(new, visible)>> ELSE <<>>)

Cancelled(h, old) == IF Watching(old) THEN [h EXCEPT !.page.live = FALSE] ELSE h

-----------------------------------------------------------------------------
ListInit ==
  /\ sel = [r |-> NoKey, s |-> CHOOSE s \in ReadyScopes : TRUE, on |-> FALSE]
  /\ cache = [store |-> <<>>, inflight |-> [k \in Keys |-> 0], fetches |-> {}]
  /\ page = [rows |-> EmptyPayload, loading |-> FALSE, refreshing |-> FALSE, live |-> FALSE]
  /\ awaits = {}
  /\ visible = TRUE
  /\ calls = <<>>
  /\ watch = [key |-> NoKey, pending |-> NoData]
  /\ failed = FALSE
  /\ events = <<>>

(* The user picks another kind or scope, or the kind turns out to be
   forbidden: one commit with its clean-ups and effects. *)
Select(s) ==
  /\ s # sel
  /\ Len(calls) + 2 <= MaxCalls
  /\ \E id \in FreshIds :
       Becomes(Cancelled(LoadEffect(Hook, s, id), sel))
  /\ sel' = s
  /\ calls' = calls \o WatchCalls(sel, s)
  /\ UNCHANGED <<visible, watch, failed, events>>

(* cluster.syncedAt changes: the loading effect runs again. *)
CatalogSynced ==
  /\ \E id \in FreshIds : Becomes(LoadEffect(Hook, sel, id))
  /\ UNCHANGED <<sel, visible, calls, watch, failed, events>>

(* The refresh button: reload({force: true}). *)
Refresh ==
  /\ sel.on
  /\ \E id \in FreshIds : Becomes(Reload(Hook, sel, TRUE, id))
  /\ UNCHANGED <<sel, visible, calls, watch, failed, events>>

(* invalidateCatalogCache() of a reconnect or of a context switch *)
InvalidateAll ==
  /\ cache' = Invalidate(cache, Keys)
  /\ UNCHANGED <<sel, page, awaits, visible, calls, watch, failed, events>>

(* ListCatalogEntities answers or is rejected; its waiters resume. *)
ListAnswered ==
  /\ \E f \in cache.fetches :
       \E data \in AnswersOf(f.key) \cup {NoData} :
         LET mine == {a \in awaits : a.wait = f.id}
             back == IF data = NoData THEN f.stale ELSE data
             h    == [Hook EXCEPT !.cache = IF data = NoData THEN Rejected(@, f)
                                            ELSE Resolved(@, f, data)]
         IN  Becomes(IF mine = {} THEN h
                      ELSE Resumed(h, sel, CHOOSE a \in mine : TRUE, back))
  /\ UNCHANGED <<sel, visible, calls, watch, failed, events>>

(* visibilitychange while the effect is mounted *)
Visibility ==
  /\ visible' = ~visible
  /\ Len(calls) < MaxCalls
  /\ calls' = IF Watching(sel) THEN Append(calls, SyncCall(sel, visible')) ELSE calls
  /\ page' = IF Watching(sel) /\ visible THEN [page EXCEPT !.live = FALSE] ELSE page
  /\ UNCHANGED <<sel, cache, awaits, watch, failed, events>>

(* The page handles a catalog:entities event: only its own key counts. *)
Deliver ==
  /\ events # <<>>
  /\ events' = Tail(events)
  /\ LET e == Head(events)
     IN  IF Watching(sel) /\ e.of = CacheKey(sel)
         THEN Becomes(Settled(ApplyPayload(Hook, CacheKey(sel), e.list, e.live)))
         ELSE UNCHANGED <<cache, page, awaits>>
  /\ UNCHANGED <<sel, visible, calls, watch, failed>>

-----------------------------------------------------------------------------
(* The desktop application. *)

Without(q, i) == SubSeq(q, 1, i - 1) \o SubSeq(q, i + 1, Len(q))

(* StartCatalogEntityWatch (which may fail before it stops the old watch) or
   StopCatalogEntityWatch; either drops the throttled emit. *)
HandleCall ==
  /\ \E i \in DOMAIN calls :
       /\ InOrder => i = 1
       /\ calls' = Without(calls, i)
       /\ \/ /\ watch' = [key |-> calls[i].key, pending |-> NoData]
             /\ failed' = FALSE
          \/ /\ calls[i].op = "start"
             /\ failed' = TRUE
             /\ UNCHANGED watch
  /\ UNCHANGED <<sel, cache, page, awaits, visible, events>>

(* RunCatalogEntityWatch emits a snapshot: sent at once, or within 300 ms of
   the last one kept for a timer, or dropped when one is kept already. *)
Emit ==
  /\ watch.key # NoKey
  /\ \E list \in AnswersOf(watch.key), live \in BOOLEAN :
       LET e == [of |-> watch.key, list |-> list, live |-> live]
       IN  \/ /\ Len(events) < MaxEvents
              /\ events' = Append(events, e)
              /\ UNCHANGED watch
           \/ /\ watch.pending = NoData
              /\ watch' = [watch EXCEPT !.pending = e]
              /\ UNCHANGED events
  /\ UNCHANGED <<sel, cache, page, awaits, visible, calls, failed>>

(* The timer of the throttle fires. *)
EmitPending ==
  /\ watch.pending # NoData
  /\ Len(events) < MaxEvents
  /\ events' = Append(events, watch.pending)
  /\ watch' = [watch EXCEPT !.pending = NoData]
  /\ UNCHANGED <<sel, cache, page, awaits, visible, calls, failed>>

Selections == [r : Resources \cup {NoKey}, s : ListScopes, on : BOOLEAN]

ListNext ==
  \/ \E s \in Selections : (s.on => s.r # NoKey) /\ Select(s)
  \/ CatalogSynced \/ Refresh \/ InvalidateAll
  \/ ListAnswered \/ Visibility \/ Deliver
  \/ HandleCall \/ Emit \/ EmitPending

(* A request is answered or fails, the page's event loop runs, the bridge and
   the watch work as long as they are asked to. *)
ListFairness ==
  /\ WF_listVars(ListAnswered) /\ WF_listVars(Deliver) /\ WF_listVars(HandleCall)
  /\ WF_listVars(Emit) /\ WF_listVars(EmitPending)

ListSpec == ListInit /\ [][ListNext]_listVars /\ ListFairness
-----------------------------------------------------------------------------

(* The rows on the page and every cached list are rows of the key they are
   shown or kept under, however answers, events and selections interleave. *)
OwnRows ==
  /\ page.rows.of \in {NoKey, CacheKey(sel)}
  /\ \A i \in DOMAIN cache.store : cache.store[i].data.of \in {NoKey, cache.store[i].key}

(* A spinner is backed by a request that will end it. *)
SpinnerBacked ==
  page.loading \/ page.refreshing =>
    \E a \in awaits : a.latest /\ \E f \in cache.fetches : f.id = a.wait /\ f.key = CacheKey(sel)

(* Nobody waits for an answer that has already come: neither a load that
   joins a registered fetch nor a reload that is suspended. *)
NoLostWaiter ==
  /\ InflightAlive(cache)
  /\ \A a \in awaits : \E f \in cache.fetches : f.id = a.wait

(* The Live badge is shown only for a kind whose events the page accepts. *)
LiveIsOwn == page.live => Watching(sel) /\ page.rows.of = CacheKey(sel)

(* A selected kind is listed: unless the user moves on, hides the window or
   the watch is refused, rows of the selected key come to the page. *)
EventuallyListed ==
  \A k \in Resources \X ReadyScopes :
    (sel.on /\ CacheKey(sel) = k /\ visible)
      ~> (page.rows.of = k \/ CacheKey(sel) # k \/ ~sel.on \/ ~visible \/ failed)

(* The page of a kind shows that kind's rows, and waits only for what comes. *)
ListOwn == OwnRows /\ SpinnerBacked /\ NoLostWaiter /\ LiveIsOwn
=============================================================================
