----------------------------- MODULE FetchHooks -----------------------------
(***************************************************************************)
(* The data hooks of the desktop front end that show what one request (or  *)
(* two in a row) returned for a key that may change while it is under way: *)
(*                                                                         *)
(*   "status"    useClusterStatus     cached, polled                       *)
(*   "catalog"   useResourceCatalog   cached; the index, then the counts   *)
(*   "overview"  useWorkloadOverview  cached; priority kinds, then others  *)
(*   "priority"  the same in a cluster with priority kinds only            *)
(*   "manifest"  useResourceManifest  manifestCache.js                     *)
(*   "changes"   useWorkloadChanges   changesCache.js                      *)
(*   "chain"     useFocusChainCatalog not cached                           *)
(*                                                                         *)
(* A behaviour is about one hook, chosen at the start.  What is shown has  *)
(* two parts (the second only for the hooks with two requests), each a     *)
(* payload that carries the key it was asked for and the generation of the *)
(* object it describes.                                                    *)
(***************************************************************************)
EXTENDS Integers, FiniteSets, CatalogCache

CONSTANTS Hooks,       \* the hooks to be explored
          Targets,     \* contexts, scopes or objects a hook can be asked for
          NoTarget,       \* nothing to ask for: the empty key
          Gens,        \* generations of the inspected object
          MaxFetches

(* what a request answers *)
Payloads == [of : Targets, gen : Gens]

(* what applyPayload caches of an overview: the priority kinds and the others *)
Overviews == [one : Payloads \cup {NoData}, two : Payloads \cup {NoData}]

ASSUME FetchAssumption ==
  /\ MaxFetches \in Nat \ {0} /\ Gens \subseteq Nat \ {0}
  /\ Hooks \subseteq {"status", "catalog", "overview", "priority", "manifest", "changes", "chain"}
  /\ NoTarget \notin Targets /\ NoData \notin Payloads \cup Overviews

VARIABLES
  hook,     \* which hook this behaviour is about
  key,      \* the key it is rendered with
  enabled,  \* its "enabled" argument
  gen,      \* generation of the object according to the live watch
  h         \* [one, two: what is shown; loading, refreshing; failed: the catalog's error; cache; awaits]

hookVars == <<hook, key, enabled, gen, h>>

Parts == {1, 2}
Keys == Targets \X Parts

Cached == {"status", "catalog", "overview", "priority"}   \* users of catalogCache.js

FreshIds ==
  LET used == {f.id : f \in h.cache.fetches} \cup {a.wait : a \in h.awaits}
      free == (1..MaxFetches) \ used
  IN  {i \in free : \A j \in free : i <= j}

-----------------------------------------------------------------------------
(* Common pieces of the hooks. *)

Settled(s) == [s EXCEPT !.loading = FALSE, !.refreshing = FALSE]

(* Mutant: answers of earlier requests still count. *)
SupersededNever(s) == s

(* reqRef.current += 1, or the cancelled flag of an effect's clean-up *)
Superseded(s) == [s EXCEPT !.awaits = {[a EXCEPT !.latest = FALSE] : a \in @}]

Waits(s, id, part, bg) ==
  [s EXCEPT !.awaits = @ \cup {[wait |-> id, part |-> part, bg |-> bg, latest |-> TRUE]}]

PeekPart(s, k, part) == Peek(s.cache.store, <<k, part>>)

(* A request that is registered and shared but has no TTL (manifestCache.js,
   changesCache.js): join the one under way, or start one. *)
Shared(s, ck, id) ==
  IF s.cache.inflight[ck] # 0
  THEN [cache |-> s.cache, data |-> NoData, wait |-> s.cache.inflight[ck]]
  ELSE [cache |-> [s.cache EXCEPT !.inflight[ck] = id,
                                  !.fetches = @ \cup {[id |-> id, key |-> ck, stale |-> NoData]}],
        data |-> NoData, wait |-> id]

(* A request outside every cache. *)
Plain(s, ck, id) ==
  [s EXCEPT !.cache.fetches = @ \cup {[id |-> id, key |-> ck, stale |-> NoData]}]

-----------------------------------------------------------------------------
(* useClusterStatus *)

RefreshStatus(s, k, background, force, id) ==
  LET hasCached == PeekPart(s, k, 1) # NoData
      bg  == background \/ (hasCached /\ ~force)
      s1  == [Superseded(s) EXCEPT !.loading = @ \/ ~bg, !.refreshing = @ \/ bg]
      l   == Load(s1.cache, <<k, 1>>, force, id)
      s2  == [s1 EXCEPT !.cache = l.cache]
  IN  IF l.wait = 0 THEN Settled([s2 EXCEPT !.one = l.data])
      ELSE Waits(s2, l.wait, 1, bg)

StatusEffect(s, k, id) ==
  LET cached == PeekPart(s, k, 1)
      s1 == [Superseded(s) EXCEPT !.one = IF cached # NoData THEN cached ELSE @,
                                  !.loading = (cached = NoData)]
  IN  RefreshStatus(s1, k, cached # NoData, FALSE, id)

(* useResourceCatalog; peekMergedCatalogFromCache merges the counts into the
   index, or shows whichever of the two is there. *)
ApplyCachedCatalog(s, k) ==
  IF PeekPart(s, k, 1) = NoData /\ PeekPart(s, k, 2) = NoData THEN s
  ELSE [s EXCEPT !.one = PeekPart(s, k, 1), !.two = PeekPart(s, k, 2), !.loading = FALSE]

(* the second request of reload, once the index is there *)
CatalogCounts(s, k, force, id) ==
  LET s1 == [s EXCEPT !.loading = FALSE, !.refreshing = TRUE, !.two = NoData]
      l  == Load(s1.cache, <<k, 2>>, force, id)
      s2 == [s1 EXCEPT !.cache = l.cache]
  IN  IF l.wait = 0 THEN Settled([s2 EXCEPT !.two = l.data])
      ELSE Waits(s2, l.wait, 2, force)

ReloadCatalog(s, k, force, id, id2) ==
  LET hasFast == PeekPart(s, k, 1) # NoData
      s1 == [ApplyCachedCatalog(Superseded(s), k) EXCEPT !.failed = FALSE]
      s2 == IF hasFast THEN [s1 EXCEPT !.refreshing = TRUE] ELSE [s1 EXCEPT !.loading = TRUE]
      l  == Load(s2.cache, <<k, 1>>, force, id)
      s3 == [s2 EXCEPT !.cache = l.cache]
  IN  IF l.wait = 0
      THEN CatalogCounts([s3 EXCEPT !.one = l.data], k, force, id2)
      ELSE Waits(s3, l.wait, 1, force)

CatalogEffect(s, k, id, id2) ==
  ReloadCatalog([ApplyCachedCatalog(Superseded(s), k)
                   EXCEPT !.loading = (PeekPart(s, k, 1) = NoData)], k, FALSE, id, id2)

(* useWorkloadOverview: the priority kinds are cached under a key of their
   own (part 1); the full payload (both parts) under the main key (part 2),
   where applyPayload writes back whatever is shown. *)
ApplyOverview(s, k, full) ==
  [s EXCEPT !.one = full.one, !.two = full.two,
            !.cache.store = WriteCache(@, <<k, 2>>, full)]

ShowCachedOverview(s, k) ==
  LET full     == PeekPart(s, k, 2)
      priority == PeekPart(s, k, 1)
  IN  CASE full # NoData -> [ApplyOverview(s, k, full) EXCEPT !.loading = FALSE]
        [] full = NoData /\ priority # NoData ->
             [ApplyOverview(s, k, [one |-> priority, two |-> NoData]) EXCEPT !.loading = FALSE]
        [] OTHER -> [s EXCEPT !.loading = TRUE]

(* after the priority kinds: the others, if any, asked for without the cache *)
OverviewRest(s, k, data, id) ==
  LET s1 == ApplyOverview(s, k, [one |-> data, two |-> NoData])
  IN  IF hook = "priority" THEN Settled(s1) ELSE
      Waits(Plain([s1 EXCEPT !.loading = FALSE, !.refreshing = TRUE], <<k, 2>>, id), id, 2, FALSE)

ReloadOverview(s, k, force, id, id2) ==
  LET hasCached == PeekPart(s, k, 1) # NoData \/ PeekPart(s, k, 2) # NoData
      s1 == ShowCachedOverview(Superseded(s), k)
      s2 == [s1 EXCEPT !.refreshing = hasCached]
      l  == Load(s2.cache, <<k, 1>>, force \/ ~hasCached, id)
      s3 == [s2 EXCEPT !.cache = l.cache]
  IN  IF l.wait = 0 THEN OverviewRest(s3, k, l.data, id2)
      ELSE Waits(s3, l.wait, 1, force)

OverviewEffect(s, k, id, id2) ==
  LET s1 == ShowCachedOverview(Superseded(s), k)
      s2 == IF s1.loading
            THEN ApplyOverview(s1, k, [one |-> NoData, two |-> NoData]) ELSE s1
  IN  ReloadOverview(s2, k, FALSE, id, id2)

(* useResourceManifest *)
RunFetch(s, k, background, id) ==
  LET s1 == [Superseded(s) EXCEPT !.loading = @ \/ ~background, !.refreshing = @ \/ background]
      l  == Shared(s1, <<k, 1>>, id)
  IN  Waits([s1 EXCEPT !.cache = l.cache], l.wait, 1, background)

ManifestEffect(s, k, id) ==
  LET cached == PeekPart(s, k, 1)
  IN  RunFetch([Superseded(s) EXCEPT !.one = cached, !.refreshing = FALSE,
                                     !.loading = (cached = NoData)], k, cached # NoData, id)

(* useCachedFetch of useWorkloadChanges; entryFreshness of changesCache.js *)
EntryFreshness(s, k, g) ==
  LET entry == PeekPart(s, k, 1)
  IN  CASE entry = NoData                           -> "missing"
        [] entry # NoData /\ entry.gen # g          -> "invalid"
        [] entry # NoData /\ entry.gen = g /\ ~Fresh(s.cache.store, <<k, 1>>) -> "stale"
        [] OTHER                                    -> "fresh"

ChangesEffect(s, k, g, id) ==
  LET f  == EntryFreshness(s, k, g)
      s1 == [Superseded(s) EXCEPT
               !.one = IF f \in {"fresh", "stale"} THEN PeekPart(s, k, 1) ELSE NoData,
               !.loading = (f # "fresh")]
      l  == Shared(s1, <<k, 1>>, id)
  IN  IF f = "fresh" THEN s1 ELSE Waits([s1 EXCEPT !.cache = l.cache], l.wait, 1, FALSE)

(* useFocusChainCatalog: the lists of all kinds of the chain, one Promise.all *)
ChainEffect(s, k, id) ==
  Waits(Plain([Superseded(s) EXCEPT !.loading = TRUE], <<k, 1>>, id), id, 1, FALSE)

-----------------------------------------------------------------------------
(* The effect of the hook for a key; Disabled is its early return. *)
Effect(s, k, g, id, id2) ==
  CASE hook = "status"   -> StatusEffect(s, k, id)
    [] hook = "catalog"  -> CatalogEffect(s, k, id, id2)
    [] hook \in {"overview", "priority"} -> OverviewEffect(s, k, id, id2)
    [] hook = "manifest" -> ManifestEffect(s, k, id)
    [] hook = "changes"  -> ChangesEffect(s, k, g, id)
    [] hook = "chain"    -> ChainEffect(s, k, id)

(* Without a key everything is cleared; disabled with a key, the status and
   the catalog keep what they show. *)
Disabled(s, k, on) ==
  LET s1 == Settled(Superseded(s))
  IN  IF ~on /\ hook \in {"status", "catalog"} THEN s1
      ELSE [s1 EXCEPT !.one = NoData, !.two = NoData, !.failed = FALSE]

(* One effect run may start two requests: their numbers. *)
FreshPairs == {ids \in FreshIds \X (1..MaxFetches) :
                 ids[2] > ids[1] /\ \A f \in h.cache.fetches : f.id # ids[2]}

Run(k, on, g) ==
  IF k = NoTarget \/ ~on THEN h' = Disabled(h, k, on)
  ELSE \E ids \in FreshPairs : h' = Effect(h, k, g, ids[1], ids[2])

HookInit ==
  /\ hook \in Hooks
  /\ key = NoTarget /\ enabled = TRUE
  /\ gen = CHOOSE g \in Gens : \A x \in Gens : g <= x
  /\ h = [one |-> NoData, two |-> NoData, loading |-> FALSE, refreshing |-> FALSE, failed |-> FALSE,
          cache |-> [store |-> <<>>, inflight |-> [c \in Keys |-> 0], fetches |-> {}],
          awaits |-> {}]

(* The user selects another context, scope or object, or none. *)
SelectKey ==
  /\ \E k \in Targets \cup {NoTarget} : k # key /\ Run(k, enabled, gen) /\ key' = k
  /\ UNCHANGED <<hook, enabled, gen>>

(* Monitoring is paused or resumed, the panel is closed or opened. *)
SetEnabled ==
  /\ hook # "manifest"
  /\ enabled' = ~enabled
  /\ Run(key, enabled', gen)
  /\ UNCHANGED <<hook, key, gen>>

(* The live watch reports a new generation of the object. *)
NewGeneration ==
  /\ hook = "changes"
  /\ \E g \in Gens : g > gen /\ gen' = g /\ Run(key, enabled, g)
  /\ UNCHANGED <<hook, key, enabled>>

(* syncedAt changes (status, catalog): the effect runs again. *)
Synced ==
  /\ hook \in {"status", "catalog"}
  /\ Run(key, enabled, gen)
  /\ UNCHANGED <<hook, key, enabled, gen>>

(* The refresh button, a reconnect, or the poll of a visible panel. *)
Refresh ==
  /\ key # NoTarget /\ enabled
  /\ \E ids \in FreshPairs :
       h' = CASE hook = "status"   -> RefreshStatus(h, key, FALSE, TRUE, ids[1])
              [] hook = "catalog"  -> ReloadCatalog(h, key, TRUE, ids[1], ids[2])
              [] hook \in {"overview", "priority"} -> ReloadOverview(h, key, TRUE, ids[1], ids[2])
              [] hook = "manifest" -> RunFetch(h, key, h.one # NoData, ids[1])
              [] OTHER             -> h
  /\ UNCHANGED <<hook, key, enabled, gen>>

(* the 45 s poll of the status *)
PollStatus ==
  /\ hook = "status" /\ key # NoTarget /\ enabled
  /\ \E ids \in FreshPairs : h' = RefreshStatus(h, key, TRUE, FALSE, ids[1])
  /\ UNCHANGED <<hook, key, enabled, gen>>

(* InspectorPanel warms the manifest cache; nothing waits for the answer. *)
PrefetchManifest ==
  /\ hook = "manifest" /\ key # NoTarget
  /\ ~Fresh(h.cache.store, <<key, 1>>)
  /\ h.cache.inflight[<<key, 1>>] = 0
  /\ \E id \in FreshIds : h' = [h EXCEPT !.cache = Shared(h, <<key, 1>>, id).cache]
  /\ UNCHANGED <<hook, key, enabled, gen>>

(* Time passes beyond the TTL of an entry. *)
Expire ==
  /\ \E i \in DOMAIN h.cache.store :
       h.cache.store[i].fresh /\ h' = [h EXCEPT !.cache.store = Aged(@, i)]
  /\ UNCHANGED <<hook, key, enabled, gen>>

(* invalidateCatalogCache() *)
InvalidateAll ==
  /\ hook \in Cached
  /\ h' = [h EXCEPT !.cache = Invalidate(@, Keys)]
  /\ UNCHANGED <<hook, key, enabled, gen>>

(* What the latest waiter does with the data, or with the rejection NoData. *)
Resumed(s, a, data, id2) ==
  CASE hook = "status"   -> Settled([s EXCEPT !.one = data])
    [] hook = "catalog" /\ data # NoData /\ a.part = 1 ->
         CatalogCounts([s EXCEPT !.one = data], key, a.bg, id2)
    [] hook = "catalog" /\ data # NoData /\ a.part = 2 -> Settled([s EXCEPT !.two = data])
    [] hook = "catalog" /\ data = NoData ->
         Settled(IF PeekPart(s, key, 1) = NoData
                 THEN [s EXCEPT !.one = NoData, !.two = NoData, !.failed = TRUE]
                 ELSE [s EXCEPT !.failed = TRUE])
    [] hook \in {"overview", "priority"} /\ a.part = 1 -> OverviewRest(s, key, data, id2)
    [] hook = "overview" /\ a.part = 2 ->
         Settled(ApplyOverview(s, key, [one |-> s.one, two |-> data]))
    [] hook = "manifest" -> Settled(IF data = NoData /\ a.bg THEN s ELSE [s EXCEPT !.one = data])
    [] hook = "changes"  -> IF data = NoData THEN [s EXCEPT !.loading = FALSE]
                            ELSE [s EXCEPT !.one = data, !.loading = FALSE]
    [] hook = "chain"    -> Settled([s EXCEPT !.one = data])

(* GetClusterStatus and the lists of the overview and the chain turn every
   failure into an answer; the other calls can be rejected. *)
CanReject == hook \in {"catalog", "manifest", "changes"}

(* Only a request outside the cache leaves the store alone. *)
Bypasses(f) == hook = "chain" \/ (hook = "overview" /\ f.key[2] = 2)

(* Its answer, or rejection, leaves this of the cache. *)
Dropped(c, f) == [c EXCEPT !.fetches = @ \ {f}]

Answered ==
  /\ \E f \in h.cache.fetches, g \in {x \in Gens : x <= gen}, ok \in BOOLEAN, ids \in FreshPairs :
       LET data == IF ok THEN [of |-> f.key[1], gen |-> g] ELSE NoData
           mine == {a \in h.awaits : a.wait = f.id}
           s1   == [h EXCEPT !.awaits = @ \ mine,
                             !.cache = IF Bypasses(f) THEN Dropped(@, f)
                                       ELSE IF ok THEN Resolved(@, f, data) ELSE Rejected(@, f)]
           last == {a \in mine : a.latest}
       IN  /\ ~ok => CanReject
           /\ h' = IF last = {} THEN s1
                   ELSE Resumed(s1, CHOOSE a \in last : TRUE,
                                IF ok THEN data ELSE f.stale, ids[2])
  /\ UNCHANGED <<hook, key, enabled, gen>>

HookNext ==
  \/ SelectKey \/ SetEnabled \/ NewGeneration \/ Synced \/ Refresh \/ PollStatus
  \/ PrefetchManifest \/ Expire \/ InvalidateAll \/ Answered

HookSpec == HookInit /\ [][HookNext]_hookVars
-----------------------------------------------------------------------------

(* What is shown, no longer loading and without an error is the selected key's,
   in both parts: an answer for a key the user has left never comes up under the
   new one.  Under an error the catalog may still be the one shown before: the
   catch of reload clears it only if no request has cached one of the key. *)
OwnWhenSettled ==
  enabled /\ ~h.loading /\ ~h.refreshing /\ ~h.failed =>
    /\ h.one # NoData => h.one.of = key
    /\ h.two # NoData => h.two.of = key

(* Counts are never merged into the index of another key, nor the rest of an
   overview into the priority kinds of another. *)
NeverMixed == h.one # NoData /\ h.two # NoData => h.one.of = h.two.of

(* A spinner is backed by a request under way for the selected key. *)
SpinnerBacked ==
  h.loading \/ h.refreshing =>
    \E a \in h.awaits : a.latest /\ \E f \in h.cache.fetches : f.id = a.wait /\ f.key[1] = key

(* No load joins, and no reload waits for, a request that has ended. *)
NoLostWaiter ==
  /\ InflightAlive(h.cache)
  /\ \A a \in h.awaits : \E f \in h.cache.fetches : f.id = a.wait

(* A revision history of another generation than the live object's is shown
   only while it is being fetched again, or when the backend answered it. *)
GenerationChecked ==
  hook = "changes" /\ h.one # NoData /\ h.loading => h.one.gen = gen

(* Each of the fetching hooks shows the answers of its own request, in whatever
   order requests, answers and selections come. *)
RequestsOwn == OwnWhenSettled /\ NeverMixed /\ SpinnerBacked /\ NoLostWaiter /\ GenerationChecked
=============================================================================
