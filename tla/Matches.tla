------------------------------ MODULE Matches ------------------------------
(***************************************************************************)
(* The matched components of an investigation (matches.js): the keys that  *)
(* name an object in every list, the health of a match's row as it is      *)
(* derived from workloads, pods and services, the default selections, and  *)
(* the focus that App.jsx keeps on one of the rows.                        *)
(*                                                                         *)
(* A name is a sequence of parts (the words between its dashes).  A key is *)
(* <<kind, name>> or <<kind, namespace, name>>.  A pod is [name, owner,    *)
(* ready, phase, why], why telling what holds up its containers.           *)
(***************************************************************************)
EXTENDS Integers, Sequences, FiniteSets, FiniteSetsExt

CONSTANTS
  MatchRefs,     \* the matches of the investigation: [kind, name, score]
  MatchLoads,    \* states of its workloads: [kind, name, ready, replicas]
  MatchPods,     \* states of its pods
  MatchServices, \* states of its services: [name, ready, total]
  MatchNs, NoSpace  \* namespaces, and none

(* the backend names kinds in full and lists an object of a namespace once (dedupeMatches);
   the investigation is of one namespace *)
ASSUME MatchAssumption ==
  /\ \A x \in MatchRefs : x.kind \notin {"deploy", "svc"} /\ x.score \in Int
  /\ \A x, y \in MatchRefs : x.kind = y.kind /\ x.name = y.name => x = y

VARIABLES
  found,   \* the last view: [refs, loads, pods, services]
  focus,   \* [key, pinned], the key is <<>> when there is none
  nsNow,   \* the investigation's namespace as the window knows it
  meant    \* (ghost) kind and name of the row the focus was set on

matchVars == <<found, focus, nsNow, meant>>

ClusterScoped == {"Node", "Namespace"}
OnDemand == {"Deployment", "Service", "Pod", "Node"}
HealthKinds == {"Deployment", "Service", "Pod"}

-----------------------------------------------------------------------------
(* Keys *)

normalizeInspectKind(k) == CASE k = "deploy" -> "Deployment" [] k = "svc" -> "Service" [] OTHER -> k

buildInspectKey(kind, name, ns) ==
  LET k == normalizeInspectKind(kind)
  IN  IF ns # NoSpace /\ k \notin ClusterScoped THEN <<k, ns, name>> ELSE <<k, name>>

(* a name never holds a slash; a third part of a cluster-scoped key is joined to it *)
parseInspectKey(key) ==
  LET kind == normalizeInspectKind(key[1])
  IN  IF Len(key) = 2 THEN [kind |-> kind, name |-> key[2], ns |-> NoSpace]
      ELSE IF kind \in ClusterScoped THEN [kind |-> kind, name |-> <<key[2]>> \o key[3], ns |-> NoSpace]
      ELSE [kind |-> kind, name |-> key[3], ns |-> key[2]]

rowKeysMatch(a, b) ==
  /\ a # <<>> /\ b # <<>>
  /\ LET pa == parseInspectKey(a)
         pb == parseInspectKey(b)
     IN  \/ a = b
         \/ pa.kind = pb.kind /\ pa.name = pb.name /\ (pa.ns = NoSpace \/ pb.ns = NoSpace \/ pa.ns = pb.ns)

canonicalInspectKey(key, fallback) ==
  LET p == parseInspectKey(key)
  IN  buildInspectKey(p.kind, p.name, IF p.ns = NoSpace THEN fallback ELSE p.ns)

matchKey(ref) == <<ref.kind, ref.name>>

-----------------------------------------------------------------------------
(* Health of a match *)

Includes(long, short) == \E i \in 0..(Len(long) - Len(short)) : SubSeq(long, i + 1, i + Len(short)) = short

Terminal(p) == p.phase \in {"succeeded", "failed"}

podsForMatch(ref, pods) ==
  {p \in pods : IF ref.kind = "Pod" THEN p.name = ref.name
                ELSE Includes(p.name, ref.name) \/ Includes(p.owner, ref.name)}

podsForHealth(ref, pods) == {p \in podsForMatch(ref, pods) : ref.kind = "Pod" \/ ~Terminal(p)}

StatusRank(s) == CASE s = "critical" -> 0 [] s = "degraded" -> 1 [] s = "healthy" -> 2 [] OTHER -> 3

podStatus(p) ==
  IF p.phase = "succeeded" THEN [status |-> "healthy", signal |-> "complete"]
  ELSE IF p.phase = "failed" THEN [status |-> "critical", signal |-> "failed"]
  ELSE IF p.ready THEN [status |-> "healthy", signal |-> "none"]
  ELSE IF p.why = "crash" THEN [status |-> "critical", signal |-> "crash"]
  ELSE [status |-> "degraded", signal |-> IF p.why = "waiting" THEN "waiting" ELSE "not ready"]

worstPodStatus(pods) ==
  LET worse == {podStatus(p) : p \in {q \in pods : podStatus(q).status # "healthy"}}
  IN  IF worse = {} THEN [status |-> "healthy", signal |-> "none"]
      ELSE CHOOSE w \in worse : \A v \in worse : StatusRank(w.status) <= StatusRank(v.status)

(* Mutant: enough ready pods hide the ones that are not. *)
reconcileWorkloadHealthEnough(row, wl, pods) ==
  LET op == {p \in pods : ~Terminal(p)}
      ready == Cardinality({p \in op : p.ready})
  IN  IF wl = {} \/ row.status # "degraded" \/ row.signal # "not ready" \/ op = {} THEN row
      ELSE IF \E w \in wl : ready >= w.replicas THEN [status |-> "healthy", signal |-> "none"] ELSE row

(* the API's replica counts may lag behind the pods: believe the pods *)
reconcileWorkloadHealth(row, wl, pods) ==
  LET op == {p \in pods : ~Terminal(p)}
      ready == Cardinality({p \in op : p.ready})
  IN  IF wl = {} \/ row.status # "degraded" \/ row.signal # "not ready" \/ op = {} THEN row
      ELSE IF \E w \in wl : ready = Cardinality(op) /\ (ready >= w.replicas \/ (ready >= w.ready /\ w.ready >= w.replicas))
           THEN [status |-> "healthy", signal |-> "none"] ELSE row

(* replicas, then pods, then endpoints, each of which may replace the verdict
   before it *)
HealthOf(ref, v) ==
  LET wl == {w \in v.loads : w.kind = ref.kind /\ w.name = ref.name}
      related == podsForHealth(ref, v.pods)
      worst == worstPodStatus(related)
      svc == IF ref.kind = "Service" THEN {s \in v.services : s.name = ref.name} ELSE {}
      ok == [status |-> "healthy", signal |-> "none"]
      bad == [status |-> "degraded", signal |-> "not ready"]
      afterLoad == IF \E w \in wl : w.ready < w.replicas THEN bad ELSE ok
      afterPods == IF related # {} /\ StatusRank(worst.status) < StatusRank(afterLoad.status) THEN worst
                   ELSE IF afterLoad.signal = "none" /\ \E p \in related : ~p.ready THEN bad ELSE afterLoad
      afterSvc == IF \E s \in svc : s.total > 0 /\ s.ready < s.total
                  THEN [status |-> "degraded", signal |-> IF afterPods.signal = "none" THEN "not ready" ELSE afterPods.signal]
                  ELSE afterPods
      afterPod == IF ref.kind = "Pod" /\ Cardinality(related) = 1
                  THEN podStatus(CHOOSE p \in related : TRUE) ELSE afterSvc
  IN  reconcileWorkloadHealth(afterPod, wl, related)

deriveMatchRows(v) ==
  {[key |-> matchKey(r), kind |-> r.kind, name |-> r.name, ns |-> NoSpace, score |-> r.score,
    status |-> HealthOf(r, v).status, signal |-> HealthOf(r, v).signal] : r \in v.refs}

findRowByKey(rows, key) == {r \in rows : rowKeysMatch(r.key, key)}

(* equal ranks and scores keep the order of the list, which is any here *)
pickWorstRow(rows) ==
  CHOOSE r \in rows : \A s \in rows :
    \/ StatusRank(r.status) < StatusRank(s.status)
    \/ StatusRank(r.status) = StatusRank(s.status) /\ r.score >= s.score

pickDefaultFocus(rows) ==
  IF pickWorstRow(rows).status # "healthy" THEN pickWorstRow(rows).key
  ELSE (CHOOSE r \in rows : \A s \in rows : r.score >= s.score).key

scopeHealthRows(rows) == {r \in rows : r.kind \in HealthKinds /\ ~(r.kind = "Pod" /\ r.signal = "complete")}

scopeStatus(rows) ==
  LET pool == IF scopeHealthRows(rows) = {} THEN rows ELSE scopeHealthRows(rows)
  IN  IF pool = {} THEN "unknown" ELSE pickWorstRow(pool).status

-----------------------------------------------------------------------------
(* Rows for keys that no match has *)

SnapshotHas(p, v) ==
  \/ p.kind = "Pod" /\ \E x \in v.pods : x.name = p.name
  \/ p.kind = "Service" /\ \E x \in v.services : x.name = p.name
  \/ \E x \in v.loads : x.kind = p.kind /\ x.name = p.name

synthesizeInspectRow(p, ns) ==
  LET n == IF p.kind \in ClusterScoped THEN NoSpace ELSE ns
  IN  [key |-> buildInspectKey(p.kind, p.name, n), kind |-> p.kind, name |-> p.name, ns |-> n,
       score |-> 0, status |-> "unknown", signal |-> "none"]

inspectRowForKey(key, v, rows, ns) ==
  IF findRowByKey(rows, key) # {} THEN findRowByKey(rows, key)
  ELSE LET p == parseInspectKey(key)
       IN  IF SnapshotHas(p, v) THEN {synthesizeInspectRow(p, ns)}
           ELSE IF p.kind \in OnDemand THEN {synthesizeInspectRow(p, p.ns)} ELSE {}

synthesizeFocusRow(key, ns) ==
  LET p == parseInspectKey(key) IN synthesizeInspectRow(p, IF p.ns = NoSpace THEN ns ELSE p.ns)

-----------------------------------------------------------------------------
(* App.jsx: the focus *)

MatchInit ==
  /\ found = [refs |-> {}, loads |-> {}, pods |-> {}, services |-> {}]
  /\ focus = [key |-> <<>>, pinned |-> FALSE] /\ nsNow = NoSpace /\ meant = <<>>

ByName(set, x) == {y \in set : y.name # x.name \/ (DOMAIN y = DOMAIN x /\ "kind" \in DOMAIN x /\ y.kind # x.kind)} \cup {x}

(* a view arrives in which one thing differs *)
MatchesArrive ==
  /\ \/ \E r \in MatchRefs : found' = [found EXCEPT !.refs = IF r \in @ THEN @ \ {r} ELSE @ \cup {r}]
     \/ \E w \in MatchLoads : found' = [found EXCEPT !.loads = ByName(@, w)]
     \/ \E p \in MatchPods : found' = [found EXCEPT !.pods = IF p \in @ THEN @ \ {p} ELSE ByName(@, p)]
     \/ \E s \in MatchServices : found' = [found EXCEPT !.services = ByName(@, s)]
  /\ UNCHANGED <<focus, nsNow, meant>>

handleFocusChange(key) == canonicalInspectKey(key, nsNow)

(* a list's key may name the namespace or not *)
FocusChange ==
  \E r \in deriveMatchRows(found), full \in BOOLEAN, pin \in BOOLEAN :
    /\ full => nsNow # NoSpace
    /\ focus' = [key |-> handleFocusChange(IF full THEN buildInspectKey(r.kind, r.name, nsNow) ELSE r.key), pinned |-> pin]
    /\ meant' = <<r.kind, r.name>> /\ UNCHANGED <<found, nsNow>>

ClearFocus ==
  /\ focus.key # <<>>
  /\ focus' = [key |-> <<>>, pinned |-> FALSE] /\ meant' = <<>> /\ UNCHANGED <<found, nsNow>>

(* the namespace becomes known, or the investigation ends *)
NamespaceKnown ==
  /\ nsNow' = IF nsNow = NoSpace THEN CHOOSE n \in MatchNs : TRUE ELSE NoSpace
  /\ UNCHANGED <<found, focus, meant>>

MatchNext == MatchesArrive \/ FocusChange \/ ClearFocus \/ NamespaceKnown

MatchSpec == MatchInit /\ [][MatchNext]_matchVars

focusRow ==
  LET hit == findRowByKey(deriveMatchRows(found), focus.key)
  IN  IF hit # {} THEN hit
      ELSE IF focus.pinned /\ focus.key # <<>> THEN {synthesizeFocusRow(focus.key, nsNow)} ELSE {}

-----------------------------------------------------------------------------
(* The focus is always on the object it was set on, whichever form of its key
   was clicked, whether or not the object is still matched and whatever the
   namespace has become; a pinned focus always has a row. *)
FocusKept ==
  /\ \A r \in focusRow : <<r.kind, r.name>> = meant
  /\ focus.key # <<>> =>
       \A r \in inspectRowForKey(focus.key, found, deriveMatchRows(found), nsNow) : <<r.kind, r.name>> = meant
  /\ Cardinality(focusRow) <= 1
  /\ focus.pinned => focusRow # {}

(* A key built for an object is the key of that object: reading it back gives
   kind and name, and making it canonical again changes nothing. *)
KeysFaithful ==
  \A r \in found.refs, ns \in MatchNs \cup {NoSpace} :
    LET k == buildInspectKey(r.kind, r.name, ns)
    IN  /\ parseInspectKey(k).kind = r.kind /\ parseInspectKey(k).name = r.name
        /\ canonicalInspectKey(k, ns) = k
        /\ rowKeysMatch(k, matchKey(r))

(* A workload's row is healthy only when every one of its live pods is ready,
   also when the replica counts of the API lag behind; and it is at least as bad
   as its worst pod. *)
HealthyMeansReady ==
  \A r \in found.refs : r.kind # "Service" =>
    LET h == HealthOf(r, found)
        live == podsForHealth(r, found.pods)
    IN  /\ h.status = "healthy" => \A p \in live : p.ready \/ p.phase = "succeeded"
        /\ StatusRank(h.status) <= StatusRank(worstPodStatus(live).status)
        /\ h.status # "healthy" => h.signal # "none"

(* While anything matched is unwell the focus that is chosen by default is on a
   match that is as bad as any, and the strip shows no better than that. *)
WorstFirst ==
  LET rows == deriveMatchRows(found)
  IN  rows # {} =>
        /\ \E r \in rows : r.key = pickDefaultFocus(rows) /\ \A s \in rows : StatusRank(r.status) <= StatusRank(s.status)
        /\ scopeHealthRows(rows) # {} => \A r \in scopeHealthRows(rows) : StatusRank(scopeStatus(rows)) <= StatusRank(r.status)

(* The match list is true of the objects, and the focus stays on the one meant. *)
MatchesTrue == FocusKept /\ KeysFaithful /\ HealthyMeansReady /\ WorstFirst
=============================================================================
