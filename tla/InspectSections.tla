-------------------------- MODULE InspectSections --------------------------
(***************************************************************************)
(* What the inspector makes of an object: the sections of its live details *)
(* put into tabs (objectDetails, inspectEnrich), what the snapshot knows   *)
(* of it (componentInspect), the pods, links, containers and relationship  *)
(* graph drawn from both (relatedPods, relationshipGraph,                  *)
(* inspectContainers, ComponentInspectPanel).                              *)
(*                                                                         *)
(* An object is <<kind, namespace, name>>.  A section is [id, group, body, *)
(* rows]: the parts it has besides its table, and the table's rows.  A row *)
(* says which object it means and in which form its cells say so; without  *)
(* a namespace in them it means an object beside the inspected one.  The   *)
(* order of sections in a tab is left out.                                 *)
(***************************************************************************)
EXTENDS Integers, Sequences, FiniteSets, SequencesExt, FiniteSetsExt

CONSTANTS
  SectionPool,    \* the sections the backend may send
  InspectTargets, \* objects that may be inspected
  PodFacts,       \* pods of snapshots: name -> [ns, owner, mounts, labels]
  ServiceFacts,   \* services of snapshots: name -> label they select
  EngineSignals,  \* signals of the engine: [about, level]
  MaxSections,    \* bound: sections of one answer
  NoRef           \* no link

VARIABLES
  target,  \* the object inspected
  live,    \* live details held: [of, healthy, sections], of the object inspected before until the new ones answer
  snap     \* what the snapshot has: [pods, unready, events, labels, status]

sectionVars == <<target, live, snap>>

TabOrder == <<"summary", "containers", "relationships", "spec", "runtime", "events", "metadata">>
PodWorkloads == {"Deployment", "ReplicaSet", "StatefulSet", "DaemonSet", "Job", "CronJob"}
NoNamespaceKinds == {"Node", "Namespace", "PersistentVolume", "ClusterRole", "StorageClass"}
LINKABLE_KINDS == NoNamespaceKinds \cup PodWorkloads \cup
                  {"Pod", "Service", "Ingress", "ConfigMap", "Secret", "PersistentVolumeClaim", "Endpoints", "EndpointSlice", "Role"}
NoLive == [of |-> NoRef, healthy |-> FALSE, sections |-> {}]

\* the namespace of an object whose row has none in its cells
Beside == "-"
MeantBy(o, ns) == IF o[2] = Beside THEN <<o[1], ns, o[3]>> ELSE o

-----------------------------------------------------------------------------
(* Links: inspectEnrich *)

refResult(kind, name, ns) ==
  IF kind \notin LINKABLE_KINDS THEN NoRef
  ELSE <<kind, IF kind \in NoNamespaceKinds THEN "" ELSE ns, name>>

(* the kind that the title of a section and the name of a column suggest *)
inferKindFromPlainName(id, group) ==
  CASE id \in {"targetPods", "podsScheduled", "usedByPods"} -> "Pod"
    [] id = "replicaSets" -> "ReplicaSet"
    [] id = "endpointSlices" -> "EndpointSlice"
    [] id = "backendServices" -> "Service"
    [] id = "imagePullSecrets" -> "Secret"
    [] id \in {"environment", "dataKeys"} -> "none"
    [] OTHER -> IF group = "relationships" THEN "Pod" ELSE "none"

(* Kind/name, or Kind/namespace/name *)
parseKindNameValue(o, ns, full) == refResult(o[1], o[3], IF full THEN o[2] ELSE ns)

(* secret:name/key and the like: what follows the slash is a key of the object *)
parseObjectRefCell(o, ns) == IF o[1] \in {"Secret", "ConfigMap", "PersistentVolumeClaim"} THEN refResult(o[1], o[3], ns) ELSE NoRef

(* ns/name, in a column for claims or services *)
parseNamespacedName(o) == IF o[1] \in {"PersistentVolumeClaim", "Service"} THEN refResult(o[1], o[3], o[2]) ELSE NoRef

(* columns kind and name, perhaps a namespace *)
resolveStructuredTableRow(o, ns) == refResult(o[1], o[3], IF o[2] = Beside THEN ns ELSE o[2])

resolveInspectRef(row, sec, ns) ==
  CASE row.form \in {"empty", "policy"} -> NoRef
    [] row.form = "prefixed" -> parseObjectRefCell(row.obj, ns)
    [] row.form = "kindName" -> parseKindNameValue(row.obj, ns, FALSE)
    [] row.form = "kindNsName" -> parseKindNameValue(row.obj, ns, TRUE)
    [] row.form = "columns" -> resolveStructuredTableRow(row.obj, ns)
    [] row.form = "nsName" -> parseNamespacedName(row.obj)
    [] OTHER -> LET k == inferKindFromPlainName(sec.id, sec.group)
                IN  IF k = "none" THEN NoRef ELSE refResult(k, row.obj[3], ns)

labelValueTouches(p, name) == name \in PodFacts[p].labels

findRelatedPods(o, pods) ==
  CASE o[1] = "Pod" -> {p \in pods : p = o[3]}
    [] o[1] \in PodWorkloads -> {p \in pods : PodFacts[p].owner = o[3] \/ labelValueTouches(p, o[3])}
    [] o[1] = "Service" -> {p \in pods : labelValueTouches(p, o[3])}
    [] OTHER -> {p \in pods : <<o[1], o[3]>> \in PodFacts[p].mounts}

-----------------------------------------------------------------------------
(* Sections into tabs: objectDetails, inspectEnrich *)

sectionHasContent(s) == s.body # {} \/ s.rows # <<>>

(* a section without a group gets one from its id and title *)
inferGroup(id) ==
  CASE id = "events" -> "events"
    [] id \in {"labels", "annotations"} -> "metadata"
    [] id \in {"ownerRefs", "targetPods", "selector", "usedByPods", "podsScheduled"} -> "relationships"
    [] id \in {"conditions", "replicas"} -> "summary"
    [] id \in {"containers", "environment", "probes", "imagePullSecrets", "containerStates", "initContainerStates"} -> "containers"
    [] id \in {"resources", "qos"} -> "runtime"
    [] OTHER -> "spec"

normalizeSectionGroup(s) ==
  LET g == IF s.group = "" THEN inferGroup(s.id) ELSE s.group
  IN  IF g \in {"status", "scheduling"} THEN "summary" ELSE g

groupSections(sections) ==
  [t \in Range(TabOrder) |-> {s \in sections : normalizeSectionGroup(s) = t}]

(* two sections are the same if their fields are, and tables if their ids are *)
sectionSignature(s) == <<s.id, s.body>>

dedupeSections(sections) ==
  {CHOOSE s \in sections : sectionSignature(s) = g : g \in {sectionSignature(x) : x \in sections}}

Snapshot(id, group, part) == [id |-> id, group |-> group, body |-> {part}, rows |-> <<>>]
SnapshotEvents == Snapshot("snapshot-events", "events", "_events")
SnapshotLabels == Snapshot("snapshot-labels", "metadata", "_labels")
SnapshotResources == Snapshot("snapshot-resources", "runtime", "_resourceBars")

(* the snapshot's events and labels fill a tab that has none of its own *)
enrichInspectGroups(groups, sn) ==
  LET has(t, ids) == \E s \in groups[t] : s.id \in ids
      missing ==
        {s \in {SnapshotEvents, SnapshotLabels, SnapshotResources} :
           \/ s = SnapshotEvents /\ sn.events /\ ~has("events", {"events"})
           \/ s = SnapshotLabels /\ sn.labels /\ ~has("metadata", {"labels", "annotations"})
           \/ s = SnapshotResources /\ findRelatedPods(target, sn.pods) # {} /\ \A x \in groups["runtime"] : x.body # {"_resourceBars"}}
  IN  [t \in Range(TabOrder) |-> dedupeSections(groups[t] \cup {s \in missing : s.group = t})]

(* without live details the panel is filled from the snapshot alone *)
fallbackGroups(sn) ==
  LET drawn == {Snapshot("status", "summary", "fields")}
               \cup (IF findRelatedPods(target, sn.pods) # {} THEN {Snapshot("resources", "runtime", "_resourceBars")} ELSE {})
               \cup (IF sn.labels THEN {Snapshot("labels", "metadata", "_labels")} ELSE {})
               \cup (IF sn.events THEN {Snapshot("events", "events", "_events")} ELSE {})
  IN  [t \in Range(TabOrder) |-> {s \in drawn : s.group = t}]

(* the panel names the object whose details it holds *)
ShownObj == IF live.of # NoRef THEN live.of ELSE target
LiveSections == {s \in live.sections : sectionHasContent(s)}
Groups ==
  enrichInspectGroups(IF live.of # NoRef /\ LiveSections # {} THEN groupSections(LiveSections) ELSE fallbackGroups(snap), snap)

-----------------------------------------------------------------------------
(* What the snapshot knows: componentInspect, relatedPods *)

serviceMatchesPodLabels(s, pods) == \E p \in pods : ServiceFacts[s] \in PodFacts[p].labels

(* [obj, role] of everything the snapshot relates to the object *)
collectRelationships(o, pods) ==
  LET mine == findRelatedPods(o, pods)
      rel(k, n, r) == [obj |-> <<k, IF k \in NoNamespaceKinds THEN "" ELSE o[2], n>>, role |-> r]
  IN  {[obj |-> <<"Pod", PodFacts[p].ns, p>>, role |-> "Pod"] : p \in mine}
      \cup (IF o[1] = "Pod" THEN UNION {{rel("Deployment", PodFacts[p].owner, "Owner")} \cup {rel(m[1], m[2], m[1]) : m \in PodFacts[p].mounts} : p \in mine} ELSE {})
      \cup {rel("Service", s, "Service") : s \in {x \in DOMAIN ServiceFacts : serviceMatchesPodLabels(x, mine)}}

SnapshotPods == findRelatedPods(target, snap.pods)
isPodListSection(s) == s.id \in {"pods", "targetPods"}

(* Mutant: only the pods of the snapshot are listed. *)
collectRelatedPodsSnapshot(o, sections, pods) == {<<"Pod", PodFacts[p].ns, p>> : p \in pods}

(* pods of the snapshot and of the details' pod tables, each once *)
collectRelatedPods(o, sections, pods) ==
  {<<"Pod", PodFacts[p].ns, p>> : p \in pods}
  \cup UNION {{<<"Pod", o[2], s.rows[i].obj[3]>> : i \in DOMAIN s.rows} : s \in {x \in sections : isPodListSection(x)}}

RelatedPods == IF ShownObj[1] = "Pod" THEN {} ELSE collectRelatedPods(ShownObj, LiveSections, SnapshotPods)
hidePodsTable == RelatedPods # {} /\ ShownObj[1] \in PodWorkloads
relationshipItems ==
  LET items == collectRelationships(target, snap.pods)
  IN  IF RelatedPods = {} \/ ShownObj[1] = "Pod" THEN items ELSE {r \in items : r.obj[1] # "Pod" /\ r.role \notin {"Pod", "Target pod"}}

signalBelongsTo(g, o) == g.about = o[3] \/ g.about \in findRelatedPods(o, snap.pods)

(* signals of the engine, the row's own status, replicas and pods not ready *)
collectAnomalies(o, sn) ==
  {[source |-> "signal", level |-> g.level] : g \in {x \in EngineSignals : signalBelongsTo(x, o)}}
  \cup (IF sn.status \in {"critical", "degraded"} THEN {[source |-> "status", level |-> IF sn.status = "critical" THEN "crit" ELSE "warn"]} ELSE {})
  \cup (IF findRelatedPods(o, sn.pods) \cap sn.unready # {} THEN {[source |-> "pods", level |-> "crit"]} ELSE {})
  \cup (IF sn.events THEN {[source |-> "event", level |-> "warn"]} ELSE {})

deriveTone(o, sn) ==
  IF sn.status \in {"critical", "degraded"} THEN sn.status
  ELSE IF findRelatedPods(o, sn.pods) \cap sn.unready # {} THEN "degraded" ELSE sn.status

(* live details replace the status, and drop the row's own when they are healthy *)
mergeAnomalies(found) ==
  IF live.of # NoRef /\ live.healthy THEN {a \in found : a.source # "status"} ELSE found
Tone == IF live.of # NoRef THEN IF live.healthy THEN "healthy" ELSE "degraded" ELSE deriveTone(target, snap)
Anomalies == mergeAnomalies(collectAnomalies(target, snap))

-----------------------------------------------------------------------------
(* What is drawn: relationshipGraph, inspectContainers, ComponentInspectPanel *)

pickRelationshipRefFromRow(row, sec) == resolveInspectRef(row, sec, ShownObj[2])

(* every satellite once, and no graph of the object alone *)
buildRelationshipGraph(items, sections) ==
  ({r.obj : r \in items}
   \cup UNION {{pickRelationshipRefFromRow(s.rows[i], s) : i \in DOMAIN s.rows} : s \in sections}) \ {NoRef, ShownObj}

(* cards of containers: sections of states say which are init containers *)
parseInspectContainers(sections) ==
  LET rows(ids) == UNION {{s.rows[i].obj[3] : i \in DOMAIN s.rows} : s \in {x \in sections : x.id \in ids}}
      init == rows({"initContainerStates"})
  IN  {<<c, TRUE>> : c \in init}
      \cup {<<c, FALSE>> : c \in rows({"containerStates", "environment", "probes"})}
      \cup {<<c, c \in init>> : c \in rows({"containerSpec", "volumeMounts"})}

KnownContainerSections == {"containerStates", "initContainerStates", "containerSpec", "volumeMounts", "environment", "probes", "imagePullSecrets"}
hasContainerPanelData(sections) ==
  parseInspectContainers(sections) # {} \/ \E s \in sections : s.id \notin KnownContainerSections

(* a section with code alone is drawn by nobody but the Helm view *)
DetailSectionShown(s) == s.body \ {"code"} # {} \/ s.rows # <<>>

(* what the body of a tab draws: "graph", "cards" or the sections themselves *)
GroupBody(t) ==
  IF t = "relationships" /\ buildRelationshipGraph(relationshipItems, Groups[t]) # {} THEN "graph"
  ELSE IF t = "containers" /\ ShownObj[1] = "Pod" /\ hasContainerPanelData(Groups[t]) THEN "cards"
  ELSE "sections"

(* where a row of the details is found, as the places that draw it *)
PlacesOf(s, i) ==
  LET r == s.rows[i]
      places(t) ==
        CASE GroupBody(t) = "graph" -> IF pickRelationshipRefFromRow(r, s) \in {NoRef, ShownObj} THEN {} ELSE {<<t, "graph">>}
          [] GroupBody(t) = "cards" -> IF s.id \in KnownContainerSections THEN {<<t, "card">>} ELSE {<<t, "table">>}
          [] OTHER -> IF (hidePodsTable /\ isPodListSection(s)) \/ ~DetailSectionShown(s) THEN {} ELSE {<<t, "table">>}
  IN  (UNION {places(t) : t \in {x \in Range(TabOrder) : s \in Groups[x]}})
      \cup (IF isPodListSection(s) /\ <<"Pod", ShownObj[2], r.obj[3]>> \in RelatedPods THEN {<<"summary", "pods">>} ELSE {})

-----------------------------------------------------------------------------
(* What the backend sends *)

(* A row has a namespace where its cells have one and the kind has namespaces, and
   where they name no kind it is of the one that its section is known for. *)
ToldTruly(row, sec) ==
  LET o == row.obj
  IN  /\ row.form \in {"empty", "policy", "prefixed", "kindName", "kindNsName", "columns", "nsName", "plain"}
      /\ o = <<o[1], o[2], o[3]>>
      /\ o[1] \in NoNamespaceKinds <=> o[2] = ""
      /\ row.form \in {"kindNsName", "nsName"} => o[2] # Beside
      /\ row.form \in {"prefixed", "kindName", "plain"} => o[2] \in {Beside, ""}
      /\ row.form = "plain" => inferKindFromPlainName(sec.id, sec.group) \in {"none", o[1]}

(* The backend's groups are tabs, no section of its own is named like one of the
   snapshot, and its rows are told truly. One table of the backend is not of the
   pool: the names of the jobs of a cron job (details/cronjob.go:63) stand alone and
   are taken for pods. *)
ASSUME SectionAssumption ==
  /\ InspectTargets # {} /\ NoRef \notin InspectTargets
  /\ \A s \in SectionPool :
       /\ s.group \in Range(TabOrder) \cup {"", "status", "scheduling"}
       /\ s.id \notin {"snapshot-events", "snapshot-labels", "snapshot-resources"}
       /\ \A i \in DOMAIN s.rows : ToldTruly(s.rows[i], s)

NoSnapshot == [pods |-> {}, unready |-> {}, events |-> FALSE, labels |-> FALSE, status |-> "unknown"]

SectionsInit == live = NoLive /\ snap = NoSnapshot /\ target = CHOOSE o \in InspectTargets : TRUE

InspectOther == \E o \in InspectTargets \ {target} : target' = o /\ UNCHANGED <<live, snap>>

(* what the backend sends of an object, no id twice *)
normalizeObjectDetail ==
  /\ live.of # target
  /\ \E k \in 0..MaxSections : \E sent \in kSubset(k, SectionPool), h \in BOOLEAN :
       /\ \A s, t \in sent : s.id = t.id => s = t
       /\ live' = [of |-> target, healthy |-> h, sections |-> sent]
  /\ UNCHANGED <<target, snap>>

DetailFails == live.of # target /\ live' = NoLive /\ UNCHANGED <<target, snap>>

SnapshotArrives ==
  \E ps \in SUBSET DOMAIN PodFacts, e, l \in BOOLEAN, st \in {"healthy", "degraded"} :
    \E un \in SUBSET ps :
      /\ snap' = [pods |-> ps, unready |-> un, events |-> e, labels |-> l, status |-> st]
      /\ UNCHANGED <<target, live>>

SectionsNext == InspectOther \/ normalizeObjectDetail \/ DetailFails \/ SnapshotArrives

SectionsSpec == SectionsInit /\ [][SectionsNext]_sectionVars

-----------------------------------------------------------------------------
(* Every section of the details is in exactly one tab, and every row of its table
   that names another object is drawn somewhere: in the table, a card, the graph
   or the list of pods that replaces the table. *)
SectionsReached ==
  \A s \in LiveSections :
    /\ Cardinality({t \in Range(TabOrder) : s \in Groups[t]}) = 1
    /\ \A i \in DOMAIN s.rows : pickRelationshipRefFromRow(s.rows[i], s) \notin {NoRef, ShownObj} => PlacesOf(s, i) # {}

(* No pod of the details' table is lost when the list replaces the table. *)
PodsKept ==
  \A s \in LiveSections :
    hidePodsTable /\ isPodListSection(s) => \A i \in DOMAIN s.rows : \E p \in RelatedPods : p[3] = s.rows[i].obj[3]

(* A link opens the object its row means, in that object's namespace, when the
   inspected object has a namespace to lend. *)
LinksFaithful ==
  ShownObj[2] # "" =>
    \A s \in LiveSections : \A i \in DOMAIN s.rows :
      resolveInspectRef(s.rows[i], s, ShownObj[2]) \in {NoRef, MeantBy(s.rows[i].obj, ShownObj[2])}

(* Events and labels are shown once: the snapshot's give way to the live ones. *)
ShownOnce ==
  /\ Cardinality({s \in Groups["events"] : s.id \in {"events", "snapshot-events"}}) <= 1
  /\ Cardinality({s \in Groups["metadata"] : s.id \in {"labels", "snapshot-labels"}}) <= 1

(* A related pod that is not ready is told even where the live status says the
   object is healthy. *)
UnreadyTold == SnapshotPods \cap snap.unready # {} => \E a \in Anomalies : a.level = "crit"

(* The colour of the panel does not deny a status told among the anomalies. *)
ToneAgrees == (\E a \in Anomalies : a.source = "status") => Tone # "healthy"

(* Nothing of the details is lost, doubled or linked wrongly on their way to the
   inspector's tabs. *)
DetailsTrue == SectionsReached /\ PodsKept /\ LinksFaithful /\ ShownOnce /\ UnreadyTold /\ ToneAgrees
=============================================================================
