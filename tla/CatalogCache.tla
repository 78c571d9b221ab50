---------------------------- MODULE CatalogCache ----------------------------
(***************************************************************************)
(* lib/catalogCache.js: the cache of the browse hooks.  A JavaScript Map   *)
(* keeps its entries in the order of insertion, so the store is a sequence *)
(* of entries, oldest first; an entry is fresh until its age has passed    *)
(* the reader's TTL.  The module has no state of its own: the hooks that   *)
(* share the cache hold it in a record                                     *)
(*                                                                         *)
(*   [store |-> entries, inflight |-> [Key -> id of a fetch, or 0],        *)
(*    fetches |-> the requests the backend has not answered]               *)
(***************************************************************************)
EXTENDS Naturals, Sequences, Kept

CONSTANTS MaxEntries,   \* MAX_ENTRIES
          NoData        \* absence of an entry (null)

ASSUME CacheAssumption == MaxEntries \in Nat \ {0}

(* store.get(key)?.data ?? null *)
Peek(store, key) ==
  LET at == {i \in DOMAIN store : store[i].key = key}
  IN  IF at = {} THEN NoData ELSE store[CHOOSE i \in at : TRUE].data

(* the entry exists and Date.now() - entry.at < ttlMs *)
Fresh(store, key) == \E i \in DOMAIN store : store[i].key = key /\ store[i].fresh

Held(store) == {store[i] : i \in DOMAIN store}

(* Re-inserts the key at the end and drops the oldest entries over the cap. *)
WriteCache(store, key, data) ==
  LET kept == Append(Keeping(store, {e \in Held(store) : e.key # key}),
                     [key |-> key, data |-> data, fresh |-> TRUE])
      over == IF Len(kept) > MaxEntries THEN Len(kept) - MaxEntries ELSE 0
  IN  SubSeq(kept, over + 1, Len(kept))

(* Time passes beyond the TTL of an entry. *)
Aged(store, i) == [store EXCEPT ![i].fresh = FALSE]

(* The invalidation with a prefix; the empty prefix takes every key. *)
Invalidate(cache, gone) ==
  [cache EXCEPT !.store    = Keeping(@, {e \in Held(@) : e.key \notin gone}),
                !.inflight = [k \in DOMAIN @ |-> IF k \in gone THEN 0 ELSE @[k]]]

(***************************************************************************)
(* loadCatalogCached(key, ttlMs, fetchFn, {force}).  The result says what  *)
(* the caller gets at once (data, or NoData) and which fetch it must wait  *)
(* for (0: none).  A stale entry is returned at once and refetched in the  *)
(* background; a fetch under way is shared unless the load is forced.      *)
(***************************************************************************)
Load(cache, key, force, id) ==
  LET entry   == Peek(cache.store, key)
      started == [cache EXCEPT !.inflight[key] = id,
                               !.fetches = @ \cup {[id |-> id, key |-> key, stale |-> entry]}]
  IN  CASE ~force /\ Fresh(cache.store, key) ->
             [cache |-> cache, data |-> entry, wait |-> 0]
        [] ~force /\ ~Fresh(cache.store, key) /\ cache.inflight[key] # 0 ->
             [cache |-> cache, data |-> NoData, wait |-> cache.inflight[key]]
        [] ~force /\ ~Fresh(cache.store, key) /\ cache.inflight[key] = 0 /\ entry # NoData ->
             [cache |-> started, data |-> entry, wait |-> 0]
        [] OTHER ->
             [cache |-> started, data |-> NoData, wait |-> id]

(* fetchFn resolved: the answer is stored and the key's registration goes,
   whichever fetch it names. *)
Resolved(cache, f, data) ==
  [store    |-> WriteCache(cache.store, f.key, data),
   inflight |-> [cache.inflight EXCEPT ![f.key] = 0],
   fetches  |-> cache.fetches \ {f}]

(* fetchFn rejected: the waiters get the entry the load found, if any. *)
Rejected(cache, f) ==
  [cache EXCEPT !.inflight[f.key] = 0, !.fetches = @ \ {f}]

(* A registration names a fetch that is still under way, so no load ever
   waits for an answer that has already come. *)
InflightAlive(cache) ==
  \A k \in DOMAIN cache.inflight :
     cache.inflight[k] # 0 =>
       \E f \in cache.fetches : f.id = cache.inflight[k] /\ f.key = k
=============================================================================
