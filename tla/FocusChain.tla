----------------------------- MODULE FocusChain -----------------------------
(***************************************************************************)
(* The chain of a pinned focus and the trace of a workload: the objects    *)
(* around it, found in the snapshot of the investigation and in lists      *)
(* loaded for the chain (focusScope, workloadTrace), as the Resources page *)
(* and the window recompute them when either changes.                      *)
(*                                                                         *)
(* A name is the sequence of its parts, so "web-api" starts with "web-".   *)
(* Lists know owners, selectors and one backend of an object; labels and   *)
(* mounts come from the snapshot alone. Labels are values of one key that  *)
(* names an application. Sources are merged by name, so a name stands for  *)
(* one object of its kind: the same name in two namespaces is left out.    *)
(***************************************************************************)
EXTENDS Integers, Sequences, FiniteSets, FiniteSetsExt, SequencesExt, Kept

CONSTANTS
  Facts,      \* id -> [kind, ns, name, owner, labels, mounts, select, backend, ready]
  Pinnable,   \* ids the user pins
  Nobody      \* no object, no owner, no label

ASSUME FactAssumption ==
  /\ IsFiniteSet(DOMAIN Facts) /\ Pinnable \subseteq DOMAIN Facts
  /\ Nobody \notin DOMAIN Facts \cup ({"ReplicaSet"} \X {Facts[o].name : o \in DOMAIN Facts})
  /\ \A o \in DOMAIN Facts :
       /\ DOMAIN Facts[o] = {"kind", "ns", "name", "owner", "labels", "mounts", "select", "backend", "ready"}
       /\ IsFiniteSet(Facts[o].mounts)
  /\ \A o, p \in DOMAIN Facts : Facts[o].kind = Facts[p].kind /\ Facts[o].name = Facts[p].name => o = p

VARIABLES
  chainFocus, \* id of the focus, or Nobody
  known,      \* ids in the snapshot
  chainRows   \* [of, ids]: what was loaded for a focus

chainVars == <<chainFocus, known, chainRows>>

Ids == DOMAIN Facts
ChainWorkloads == {"Deployment", "StatefulSet", "DaemonSet", "Job", "CronJob", "ReplicaSet"}
TraceOrder == <<"Ingress", "Service", "Deployment", "StatefulSet", "DaemonSet", "CronJob", "Job", "ReplicaSet", "Pod">>
ChainKinds == Range(TraceOrder) \cup {"ConfigMap", "Secret", "PersistentVolumeClaim"}

focusEntityKey(kind, ns, name) == <<kind, ns, name>>
KeyOf(o) == focusEntityKey(Facts[o].kind, Facts[o].ns, Facts[o].name)

StartsWith(a, b) == Len(a) > Len(b) /\ IsPrefix(b, a)
namesRelated(a, b) == a = b \/ StartsWith(a, b) \/ StartsWith(b, a)

(* snapshot and lists merged: an object of the lists alone has neither labels
   nor mounts *)
mergeSnapshotSources(sn, ct) ==
  [o \in {x \in sn \cup ct : Facts[x].kind \in Range(TraceOrder)} |->
     IF o \in sn THEN Facts[o] ELSE [Facts[o] EXCEPT !.labels = {}, !.mounts = {}]]

OfKind(m, ks) == {o \in DOMAIN m : m[o].kind \in ks}
labelsTouchName(f, name) == \E l \in f.labels : namesRelated(l, name)
Owned(f, kinds) == f.owner # Nobody /\ f.owner[1] \in kinds

-----------------------------------------------------------------------------
(* Pods of the realm *)

NameContains(a, b) == namesRelated(a, b) /\ Len(a) >= Len(b)

podsOfMatch(f, m) ==
  {p \in OfKind(m, {"Pod"}) :
     IF f.kind = "Pod" THEN m[p].name = f.name
     ELSE NameContains(m[p].name, f.name) \/ (m[p].owner # Nobody /\ NameContains(m[p].owner[2], f.name))}

(* a pod whose owner is the focus, or a replica set of the focus *)
OwnedByFocus(f, m, p) ==
  /\ m[p].owner # Nobody
  /\ \/ /\ m[p].owner[1] = "ReplicaSet"
        /\ \/ StartsWith(m[p].owner[2], f.name)
           \/ \E r \in OfKind(m, {"ReplicaSet"}) : m[r].name = m[p].owner[2] /\ Owned(m[r], {"Deployment"}) /\ m[r].owner[2] = f.name
     \/ m[p].owner[1] \in {f.kind, "StatefulSet", "DaemonSet", "Job"} /\ m[p].owner[2] = f.name

collectRealmPods(f, m) ==
  LET found == podsOfMatch(f, m)
               \cup {p \in OfKind(m, {"Pod"}) : labelsTouchName(m[p], f.name)}
               \cup {p \in OfKind(m, {"Pod"}) : f.kind \in ChainWorkloads /\ OwnedByFocus(f, m, p)}
  IN  IF found # {} THEN found ELSE {p \in OfKind(m, {"Pod"}) : m[p].name = f.name \/ StartsWith(m[p].name, f.name)}

(* Mutant: the owner of a replica set is not looked up. *)
climbReplicaSetNot(rs, m, ns) == {}

(* from a replica set to its deployment: as recorded, by the name of one that is
   known, or by cutting the last part of the name *)
climbReplicaSet(rs, m, ns) ==
  LET rec == {r \in OfKind(m, {"ReplicaSet"}) : m[r].name = rs /\ Owned(m[r], {"Deployment"})}
      byName == {d \in OfKind(m, {"Deployment"}) : StartsWith(rs, m[d].name)}
  IN  IF rec # {} THEN {focusEntityKey("Deployment", ns, m[CHOOSE r \in rec : TRUE].owner[2])}
      ELSE IF byName # {} THEN {focusEntityKey("Deployment", ns, m[CHOOSE d \in byName : TRUE].name)}
      ELSE IF Len(rs) > 1 THEN {focusEntityKey("Deployment", ns, Front(rs))} ELSE {}

(* a cron job is named by the job without its last part *)
OwnersOf(p, m, ns) ==
  IF m[p].owner = Nobody THEN {}
  ELSE {focusEntityKey(m[p].owner[1], ns, m[p].owner[2])}
       \cup (IF m[p].owner[1] = "ReplicaSet" THEN climbReplicaSet(m[p].owner[2], m, ns) ELSE {})
       \cup (IF m[p].owner[1] = "Job" /\ Len(m[p].owner[2]) > 1 THEN {focusEntityKey("CronJob", ns, Front(m[p].owner[2]))} ELSE {})

MountsOf(pods, m) == UNION {{focusEntityKey(x[1], m[p].ns, x[2]) : x \in m[p].mounts} : p \in pods}

(* one value of a key stays, that of some pod of the realm *)
aggregatePodLabels(pods, m) ==
  LET all == UNION {m[p].labels : p \in pods}
  IN  IF all = {} THEN {} ELSE {CHOOSE l \in all : TRUE}

selectorMatchesLabels(s, labels) == s # Nobody /\ s \in labels

-----------------------------------------------------------------------------

emptyFocusScope == [active |-> FALSE, keys |-> {}, pods |-> {}]

(* keys of the realm, in the steps of the code: pods with owners and mounts, other
   workloads of these pods, services, pods of a service in focus, ingresses *)
buildFocusScope(f, m) ==
  LET own == focusEntityKey(f.kind, f.ns, f.name)
      realm == collectRealmPods(f, m)
      keys1 == {own} \cup {focusEntityKey("Pod", m[p].ns, m[p].name) : p \in realm}
               \cup (UNION {OwnersOf(p, m, f.ns) : p \in realm}) \cup MountsOf(realm, m)
      owners == {w \in OfKind(m, ChainWorkloads \ {"ReplicaSet"}) : podsOfMatch(m[w], m) \cap realm # {}}
      keys2 == keys1 \cup {focusEntityKey(m[w].kind, m[w].ns, m[w].name) : w \in owners}
      labels == aggregatePodLabels(realm, m)
      services == {s \in OfKind(m, {"Service"}) : namesRelated(m[s].name, f.name) \/ selectorMatchesLabels(m[s].select, labels)}
      selected == IF f.kind # "Service" \/ ~\E s \in services : m[s].name = f.name THEN {}
                  ELSE {p \in OfKind(m, {"Pod"}) : namesRelated(m[p].name, f.name) \/ labelsTouchName(m[p], f.name)}
      pods == realm \cup selected
      keys3 == keys2 \cup {focusEntityKey("Service", m[s].ns, m[s].name) : s \in services}
               \cup {focusEntityKey("Pod", m[p].ns, m[p].name) : p \in selected} \cup MountsOf(pods, m)
      routed(i) == m[i].backend # Nobody /\ (namesRelated(m[i].backend, f.name) \/ \E k \in keys3 : k[3] = m[i].backend)
      ings == {i \in OfKind(m, {"Ingress"}) : routed(i) \/ namesRelated(m[i].name, f.name)}
  IN  IF DOMAIN m = {} THEN [active |-> TRUE, keys |-> {own}, pods |-> {}]
      ELSE [active |-> TRUE, keys |-> keys3 \cup {focusEntityKey("Ingress", m[i].ns, m[i].name) : i \in ings}, pods |-> pods]

ChainRank(k, own) ==
  IF k = own THEN 0
  ELSE CASE k[1] \in ChainWorkloads -> 1
         [] k[1] \in {"Service", "Ingress"} -> 2
         [] k[1] = "Pod" -> 3
         [] k[1] \in {"ConfigMap", "Secret", "PersistentVolumeClaim"} -> 4
         [] OTHER -> 5

\* by rank; the alphabet that orders a rank is left out
sortChainKeys(keys, own) ==
  LET ranked(r) == SetToSeq({k \in keys : ChainRank(k, own) = r})
  IN  ranked(0) \o ranked(1) \o ranked(2) \o ranked(3) \o ranked(4) \o ranked(5)

(* a key that no row has is told healthy unless the snapshot knows better *)
synthesizeRow(k, sn) ==
  LET hits == {o \in sn : Facts[o].kind = k[1] /\ Facts[o].name = k[3] /\ k[1] \in ({"Pod"} \cup ChainWorkloads) \ {"ReplicaSet"}}
  IN  [key |-> k, healthy |-> \A o \in hits : Facts[o].ready]

(* rows of the chain in order, from the rows at hand where there are any *)
buildChainRows(scope, own, rows, sn) ==
  LET row(k) == IF \E o \in rows : KeyOf(o) = k
                THEN [key |-> k, healthy |-> Facts[CHOOSE o \in rows : KeyOf(o) = k].ready]
                ELSE synthesizeRow(k, sn)
      ordered == sortChainKeys(scope.keys, own)
  IN  [i \in DOMAIN ordered |-> row(ordered[i])]

(* the nearest of the rows of a kind: the focus, else one named like the anchor,
   else like its first part *)
pickBestRow(cands, anchor, own) ==
  IF own \in cands THEN own
  ELSE LET score(k) == IF namesRelated(k[3], anchor) THEN 10 ELSE IF namesRelated(k[3], <<Head(anchor)>>) THEN 5 ELSE 0
       IN  CHOOSE k \in cands : \A j \in cands : score(j) <= score(k)

(* the deployment above a pod or a service, else the focus itself *)
resolveRoot(f, scope, m) ==
  LET tops == {w \in OfKind(m, {"Deployment", "StatefulSet", "DaemonSet"}) : focusEntityKey(m[w].kind, m[w].ns, m[w].name) \in scope.keys}
  IN  IF f.kind \in ChainWorkloads \ {"ReplicaSet"} \/ tops = {} THEN f.name ELSE m[CHOOSE w \in tops : TRUE].name

(* one node of each kind of the chain, from traffic to runtime *)
buildWorkloadTrace(f, scope, m) ==
  LET own == focusEntityKey(f.kind, f.ns, f.name)
      of(kind) == {k \in scope.keys : k[1] = kind}
      kinds == Keeping(TraceOrder, {kind \in Range(TraceOrder) : of(kind) # {}})
  IN  IF f.kind \notin Range(TraceOrder) THEN <<>>
      ELSE [i \in DOMAIN kinds |-> pickBestRow(of(kinds[i]), resolveRoot(f, scope, m), own)]

-----------------------------------------------------------------------------

Merged == mergeSnapshotSources(known, chainRows.ids)
Scope == IF chainFocus = Nobody THEN emptyFocusScope ELSE buildFocusScope(Facts[chainFocus], Merged)
OwnKey == KeyOf(chainFocus)
Chain == buildChainRows(Scope, OwnKey, chainRows.ids, known)
Trace == buildWorkloadTrace(Facts[chainFocus], Scope, Merged)
NoRows == [of |-> Nobody, ids |-> {}]

ChainInit == chainFocus = Nobody /\ known = {} /\ chainRows = NoRows

PinFocus ==
  \E o \in Pinnable \ {chainFocus} : chainFocus' = o /\ UNCHANGED <<known, chainRows>>

ClearPin == chainFocus # Nobody /\ chainFocus' = Nobody /\ chainRows' = NoRows /\ UNCHANGED known

(* a view arrives; objects come and go *)
SnapshotChanges == \E o \in Ids : known' = (known \ {o}) \cup ({o} \ known) /\ UNCHANGED <<chainFocus, chainRows>>

(* lists of every kind of the chain, in the namespace of the focus, one of which
   may fail; the rows of the focus before stay until they are here *)
ListsArrive ==
  /\ chainFocus # Nobody /\ chainRows.of # chainFocus
  /\ \E failed \in ChainKinds \cup {Nobody} :
       chainRows' = [of |-> chainFocus, ids |-> {o \in Ids : Facts[o].ns = Facts[chainFocus].ns /\ Facts[o].kind # failed}]
  /\ UNCHANGED <<chainFocus, known>>

ChainNext == PinFocus \/ ClearPin \/ SnapshotChanges \/ ListsArrive

ChainSpec == ChainInit /\ [][ChainNext]_chainVars

-----------------------------------------------------------------------------
Pinned == chainFocus # Nobody

(* The focus heads its own chain whatever snapshot and lists know of it, and its
   trace, if it has one, shows it. *)
FocusFirst ==
  Pinned => /\ Chain # <<>> /\ Chain[1].key = OwnKey
            /\ Trace # <<>> => OwnKey \in Range(Trace)

(* The chain is closed: what a pod of it mounts is in it, and so is the deployment
   of a pod that the chain was found by, also when its name tells nothing of it. *)
ChainClosed ==
  Pinned =>
    LET focus == Facts[chainFocus]
    IN  /\ \A p \in Scope.pods \cap known : \A x \in Facts[p].mounts : <<x[1], Facts[p].ns, x[2]>> \in Scope.keys
        /\ \A p \in collectRealmPods(focus, Merged), r \in DOMAIN Merged :
             /\ Facts[r].kind = "ReplicaSet" /\ Facts[p].owner = <<"ReplicaSet", Facts[r].name>>
             /\ Owned(Facts[r], {"Deployment"})
             => <<"Deployment", focus.ns, Facts[r].owner[2]>> \in Scope.keys

(* A pod or workload that the snapshot knows not to be ready is not told healthy in
   the chain. Of a replica set the snapshot knows the owner alone. *)
ChainHonest ==
  Pinned =>
    \A i \in DOMAIN Chain : \A o \in known :
      /\ KeyOf(o) = Chain[i].key /\ ~Facts[o].ready
      /\ Facts[o].kind \in ({"Pod"} \cup ChainWorkloads) \ {"ReplicaSet"}
      => ~Chain[i].healthy

(* The pinned object's chain is about that object, complete and true. *)
ChainTrue == FocusFirst /\ ChainClosed /\ ChainHonest
=============================================================================
