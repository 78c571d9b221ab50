----------------------------- MODULE TableFields ----------------------------
(***************************************************************************)
(* What the table of resources shows of an object: the row made of what    *)
(* the backend lists (catalogEntityToRow), the layers of fields merged for *)
(* the table (enrichEntityForTable), the columns of its kind, the labels   *)
(* made of counts, and the order of rows.                                  *)
(*                                                                         *)
(* The API leaves out counts that are zero, those a daemon set must report *)
(* excepted. A cell is a sequence: <<>> is the dash, <<n>> a count and     *)
(* <<a, b>> a fraction.                                                    *)
(***************************************************************************)
EXTENDS Integers, Sequences, FiniteSets

CONSTANTS
  Counts,     \* values of a count, some below and some above ten
  Null        \* a count or a hint that is absent

ASSUME FieldAssumption == Counts \subseteq Nat /\ Null \notin Nat \cup Seq(Nat)

VARIABLES
  tableKind,  \* kind the table shows
  object      \* [desired, current, ready, updated, available]: what is true of it

fieldVars == <<tableKind, object>>

Coalesce(a, b) == IF a # Null THEN a ELSE b

-----------------------------------------------------------------------------
(* The columns of a kind, here without their order *)

PodColumns == {"name", "namespace", "status", "cpu", "memory", "containers", "restarts", "controlledBy", "node",
               "nodeSelector", "tolerations", "affinity", "qos", "age"}

WORKLOAD_PODS_COLUMNS == {"name", "namespace", "pods", "replicas", "nodeSelector", "tolerations", "affinity", "age"}

DAEMONSET_COLUMNS == {"name", "namespace", "desired", "current", "ready", "updated", "available", "misscheduled",
                      "nodeSelector", "tolerations", "affinity", "age"}

KIND_TABLE_SCHEMAS ==
  [Pod |-> PodColumns, StatefulSet |-> WORKLOAD_PODS_COLUMNS, Deployment |-> WORKLOAD_PODS_COLUMNS \cup {"conditions"},
   DaemonSet |-> DAEMONSET_COLUMNS,
   ReplicaSet |-> {"name", "namespace", "status", "desired", "current", "ready", "nodeSelector", "tolerations", "affinity", "age"},
   Job |-> {"name", "completions", "age", "conditions", "namespace", "duration", "controlledBy", "nodeSelector", "tolerations", "affinity"},
   CronJob |-> {"name", "namespace", "age", "schedule", "suspend", "active", "lastSchedule", "nodeSelector", "tolerations", "affinity"},
   HelmRelease |-> {"name", "namespace", "chart", "revision", "chartVersion", "appVersion", "status", "updated"},
   Endpoints |-> {"name", "namespace", "endpoints", "age"},
   EndpointSlice |-> {"name", "namespace", "endpoints", "service", "addressType", "age"},
   Ingress |-> {"name", "namespace", "loadBalancers", "rules", "age"},
   IngressClass |-> {"name", "namespace", "controller", "apiGroup", "scope", "parameterKind"},
   NetworkPolicy |-> {"name", "namespace", "policyTypes", "age"},
   StorageClass |-> {"name", "provisioner", "reclaimPolicy", "volumeBindingMode", "defaultClass", "age"},
   Service |-> {"name", "namespace", "type", "clusterIP", "ports", "externalIP", "selector", "age", "status"}]

(* the columns of each built-in kind between its name and its age *)
BUILTIN_KIND_TABLE_SCHEMAS ==
  [ReplicationController |-> {"status", "desired", "current", "ready"},
   PersistentVolumeClaim |-> {"status", "volume", "capacity", "accessModes", "storageClass"},
   PersistentVolume |-> {"capacity", "accessModes", "reclaimPolicy", "status", "claim", "storageClass"},
   ConfigMap |-> {"dataKeys"}, Secret |-> {"secretType", "keys"},
   HorizontalPodAutoscaler |-> {"scaleTarget", "targets", "minPods", "maxPods", "hpaReplicas"},
   PodDisruptionBudget |-> {"minAvailable", "maxUnavailable", "allowedDisruptions"},
   Lease |-> {"holder"}, Node |-> {"cpu", "memory", "disk", "taints", "roles", "version", "conditions"}]

ClusterKindSchemas ==
  [Event |-> {"type", "reason", "object", "message", "lastSeen"}, ServiceAccount |-> {"secrets"}, Role |-> {"rules"},
   RoleBinding |-> {"role", "subjects"}, ResourceQuota |-> {"hard"}, LimitRange |-> {"limits"},
   PriorityClass |-> {"value", "globalDefault"}, RuntimeClass |-> {"handler"},
   VolumeAttachment |-> {"attacher", "pv", "node", "status"}]

ExtensionSchemas ==
  [CSIDriver |-> {"attachRequired", "podInfoOnMount", "storageCapacity"}, CSINode |-> {"drivers"},
   CustomResourceDefinition |-> {"group", "version", "scope"}, APIService |-> {"service", "available"},
   ValidatingWebhookConfiguration |-> {"webhooks", "namespaceScope"},
   ValidatingAdmissionPolicy |-> {"failurePolicy", "matchConstraints"},
   ValidatingAdmissionPolicyBinding |-> {"policy", "validationActions"}]

BuiltinSchemas == [k \in DOMAIN BUILTIN_KIND_TABLE_SCHEMAS \cup DOMAIN ClusterKindSchemas \cup DOMAIN ExtensionSchemas |->
                     CASE k \in DOMAIN BUILTIN_KIND_TABLE_SCHEMAS -> BUILTIN_KIND_TABLE_SCHEMAS[k]
                       [] k \in DOMAIN ClusterKindSchemas -> ClusterKindSchemas[k]
                       [] OTHER -> ExtensionSchemas[k]]

TableKinds == DOMAIN KIND_TABLE_SCHEMAS \cup DOMAIN BuiltinSchemas

schemaForKind(kind) ==
  IF kind \in DOMAIN KIND_TABLE_SCHEMAS THEN KIND_TABLE_SCHEMAS[kind]
  ELSE BuiltinSchemas[kind] \cup {"name", "namespace", "age"}

-----------------------------------------------------------------------------
(* The row of a listed object *)

WORKLOAD_READY_KINDS == {"Deployment", "StatefulSet", "ReplicaSet", "DaemonSet"}

(* counts as the API sends them *)
OmitZero(n) == IF n = 0 THEN Null ELSE n

SentCounts(kind, o) ==
  [desired |-> o.desired, current |-> IF kind = "DaemonSet" THEN o.current ELSE OmitZero(o.current),
   ready |-> IF kind = "DaemonSet" THEN o.ready ELSE OmitZero(o.ready),
   updated |-> OmitZero(o.updated), available |-> OmitZero(o.available)]

(* "ready/total ready" of the backend, for a job "succeeded/completions" *)
StatusHint(kind, o) ==
  LET s == SentCounts(kind, o)
  IN  IF kind = "DaemonSet" \/ (kind = "Job" /\ s.ready # Null) THEN <<s.ready, s.desired>>
      ELSE IF kind \in WORKLOAD_READY_KINDS /\ s.ready # Null /\ s.current # Null THEN <<s.ready, s.current>>
      ELSE Null

parseWorkloadReplicaSignal(hint) == IF hint = Null THEN [ready |-> Null, current |-> Null] ELSE [ready |-> hint[1], current |-> hint[2]]

hydrateCatalogWorkloadFields(kind, s, hint) ==
  LET p == parseWorkloadReplicaSignal(hint)
      ready == Coalesce(s.ready, p.ready)
  IN  IF kind \notin WORKLOAD_READY_KINDS THEN s
      ELSE [desired |-> Coalesce(s.desired, p.current), current |-> Coalesce(s.current, p.current), ready |-> ready,
            updated |-> IF kind = "DaemonSet" THEN Coalesce(s.updated, p.ready) ELSE s.updated,
            available |-> IF kind = "DaemonSet" THEN Coalesce(s.available, p.ready) ELSE s.available]

catalogEntityToRow(kind, o) ==
  [counts |-> hydrateCatalogWorkloadFields(kind, SentCounts(kind, o), StatusHint(kind, o)), signal |-> StatusHint(kind, o)]

(* "1/1" is matched as the beginning of the hint of a job *)
catalogStatusTone(kind, hint) ==
  LET startsWithOne(n) == n = 1 \/ n \in 10..19
  IN  IF hint = Null THEN "unknown"
      ELSE IF kind # "Job" /\ hint[2] > 0 THEN IF hint[1] < hint[2] THEN "degraded" ELSE "healthy"
      ELSE IF hint[1] = 1 /\ startsWithOne(hint[2]) THEN "healthy" ELSE "unknown"

-----------------------------------------------------------------------------
(* Cells made of counts *)

Cell(n) == IF n = Null THEN <<>> ELSE <<n>>
Fraction(a, b) == IF a = Null /\ b = Null THEN <<>> ELSE <<IF a = Null THEN 0 ELSE a, IF b = Null THEN 0 ELSE b>>

resolveReplicaCounts(row) ==
  LET c == row.counts
      ready == IF c.ready = Null /\ c.current = 0 THEN 0 ELSE c.ready
  IN  [desired |-> Cell(c.desired), current |-> Cell(c.current), ready |-> Cell(ready)]

resolveDaemonSetCounts(row) ==
  LET c == row.counts
  IN  [desired |-> Cell(c.desired), current |-> Cell(c.current), ready |-> Cell(c.ready),
       updated |-> Cell(Coalesce(c.updated, c.ready)), available |-> Cell(Coalesce(c.available, c.ready))]

formatWorkloadPods(row) == Fraction(row.counts.ready, row.counts.current)
workloadPodsTableFields(row) == [pods |-> formatWorkloadPods(row), replicas |-> Cell(row.counts.desired)]
formatJobCompletions(row) == IF row.counts.ready = Null THEN <<>> ELSE <<row.counts.ready, row.counts.desired>>

(* conditions the API has not reported are inferred of the counts *)
resolveJobConditions(row) ==
  IF row.counts.ready # Null /\ row.counts.ready >= row.counts.desired THEN {"Complete"} ELSE {}

resolveDeploymentConditions(row) ==
  LET c == row.counts
      available == Coalesce(c.available, c.ready)
      up == IF c.desired = 0 THEN available = 0 ELSE available # Null /\ available >= c.desired
      progressing == /\ c.ready # Null /\ c.ready >= c.desired
                     /\ c.updated = Null \/ c.updated >= c.desired
                     /\ c.updated # Null \/ Coalesce(c.current, c.ready) >= c.desired
  IN  {x \in {"Available", "Progressing"} : IF x = "Available" THEN available # Null /\ up ELSE progressing}

CountCells(kind, row) ==
  CASE kind = "DaemonSet" -> resolveDaemonSetCounts(row)
    [] kind = "ReplicaSet" -> resolveReplicaCounts(row)
    [] kind \in {"Deployment", "StatefulSet"} -> workloadPodsTableFields(row)
    [] kind = "Job" -> [completions |-> formatJobCompletions(row)]
    [] OTHER -> [name |-> <<>>]      \* no counts
CountColumns(kind) == DOMAIN CountCells(kind, catalogEntityToRow(kind, object)) \ {"name"}

-----------------------------------------------------------------------------
(* Layers of fields: which columns have a value *)

(* what the backend derives for the table, per kind (those that clash with a
   layer below, the others by the columns of their kind) *)
catalogTableFields(kind) ==
  IF kind = "Pod" THEN {"status", "restarts", "node", "qos", "nodeSelector", "tolerations", "affinity"}
  ELSE IF kind = "ReplicationController" THEN {"status", "desired", "current", "ready", "pods", "replicas"}
  ELSE IF kind = "VolumeAttachment" THEN {"attacher", "node", "pv", "status"}
  ELSE IF kind = "HelmRelease" THEN {"chart", "revision", "chartVersion", "appVersion", "status", "updated"}
  ELSE IF kind \in DOMAIN KIND_TABLE_SCHEMAS THEN schemaForKind(kind) \ {"name", "namespace", "age", "controlledBy"}
  ELSE BuiltinSchemas[kind] \ {"cpu", "memory", "disk", "taints"}

nodeTableFields(kind) == IF kind = "Node" THEN {"roles", "version", "taints", "conditions", "cpu", "memory", "disk"} ELSE {}

readyLabelForRow(kind) == IF kind \in WORKLOAD_READY_KINDS \cup {"Job", "Pod"} THEN "row" ELSE "dash"

podForRow(kind) == IF kind = "Pod" THEN "row" ELSE "dash"

cronJobTableFields(kind) == IF kind = "CronJob" THEN {"schedule", "suspend", "active", "lastSchedule"} ELSE {}
serviceTableFields(kind) == IF kind = "Service" THEN {"type", "clusterIP", "ports", "externalIP", "selector"} ELSE {}
endpointResourceTableFields(kind) == IF kind \in {"Endpoints", "EndpointSlice"} THEN {"endpoints", "service", "addressType"} ELSE {}
ingressTableFields(kind) == IF kind = "Ingress" THEN {"loadBalancers", "rules"} ELSE {}
ingressClassTableFields(kind) == IF kind = "IngressClass" THEN {"namespace", "controller", "apiGroup", "scope", "parameterKind"} ELSE {}
networkPolicyTableFields(kind) == IF kind = "NetworkPolicy" THEN {"policyTypes"} ELSE {}
storageClassTableFields(kind) == IF kind = "StorageClass" THEN {"provisioner", "reclaimPolicy", "volumeBindingMode", "defaultClass"} ELSE {}
builtinKindTableFields(kind) ==
  IF kind \in {"PersistentVolumeClaim", "PersistentVolume", "ConfigMap", "Secret", "HorizontalPodAutoscaler", "PodDisruptionBudget", "Lease"}
  THEN BUILTIN_KIND_TABLE_SCHEMAS[kind] \ {"status"}
  ELSE IF kind = "HelmRelease" THEN {"chart", "chartVersion", "appVersion", "revision", "updated"} ELSE {}

OwnFields(kind) ==
  CountColumns(kind) \cup cronJobTableFields(kind) \cup serviceTableFields(kind)
  \cup endpointResourceTableFields(kind) \cup ingressTableFields(kind) \cup ingressClassTableFields(kind)
  \cup networkPolicyTableFields(kind) \cup storageClassTableFields(kind) \cup builtinKindTableFields(kind)
  \cup (IF kind \in {"Deployment", "Job"} THEN {"conditions"} ELSE {}) \cup (IF kind = "Job" THEN {"duration"} ELSE {})

(* where the value of a column comes from, the last layer first *)
enrichEntityForTable(kind, col) ==
  IF \/ col \in {"name", "status", "age", "namespace", "restarts", "containers", "controlledBy", "qos", "cpu", "memory"}
     \/ col \in OwnFields(kind) THEN "row"
  ELSE IF col = "ready" /\ kind # "ReplicaSet" THEN readyLabelForRow(kind)
  ELSE IF col = "node" THEN podForRow(kind)
  ELSE IF col \in nodeTableFields(kind) THEN "row"
  ELSE IF col \in catalogTableFields(kind) THEN "backend" ELSE "dash"

(* every column shows the field of its own name, a missing one as a dash *)
tableCellValue(kind, col) == enrichEntityForTable(kind, col)

(* cells drawn as lights, links, pills and meters *)
DrawnCells(kind) ==
  {"name", "status", "containers", "controlledBy", "conditions", "namespace", "selector", "dataKeys", "nodeSelector",
   "tolerations", "affinity", "taints"} \cup (IF kind = "Node" THEN {"cpu", "memory", "disk"} ELSE {})
TableRow(kind, col) == IF col \in DrawnCells(kind) THEN "drawn" ELSE tableCellValue(kind, col)

-----------------------------------------------------------------------------
(* Order of rows *)

isEmptySortValue(v) == v = <<>>

compareFractionValues(a, b) == IF a[1] # b[1] THEN a[1] - b[1] ELSE a[2] - b[2]

compareSortValues(a, b) ==
  IF isEmptySortValue(a) THEN IF isEmptySortValue(b) THEN 0 ELSE 1
  ELSE IF isEmptySortValue(b) THEN -1
  ELSE IF Len(a) = 2 THEN compareFractionValues(a, b) ELSE a[1] - b[1]

(* rows are <<name, cell>>; ties in name order in both directions *)
compareTableRows(a, b, direction) ==
  LET cmp == compareSortValues(a[2], b[2])
      ordered == IF direction = "desc" THEN -cmp ELSE cmp
  IN  IF ordered # 0 THEN ordered ELSE a[1] - b[1]

-----------------------------------------------------------------------------

Zero == [desired |-> 0, current |-> 0, ready |-> 0, updated |-> 0, available |-> 0]
FieldInit == tableKind = "Pod" /\ object = Zero

OpenKind == \E k \in TableKinds \ {tableKind} : tableKind' = k /\ object' = Zero

(* the controller changes a count of its status, the user the desired one *)
ObjectChanges ==
  /\ tableKind \in WORKLOAD_READY_KINDS \cup {"Job"}
  /\ \E f \in DOMAIN object, n \in Counts :
       /\ object[f] # n
       /\ object' = [object EXCEPT ![f] = n]
       /\ object'.ready <= object'.current /\ object'.available <= object'.ready /\ object'.updated <= object'.current
  /\ UNCHANGED tableKind

FieldNext == OpenKind \/ ObjectChanges

FieldSpec == FieldInit /\ [][FieldNext]_fieldVars

-----------------------------------------------------------------------------
Row == catalogEntityToRow(tableKind, object)
Cells == CountCells(tableKind, Row)

(* A count in the table is the object's, or a dash; of a fraction, what the API
   leaves out counts as none. *)
True(col) ==
  CASE col = "pods" -> <<object.ready, object.current>>
    [] col = "replicas" -> <<object.desired>>
    [] col = "completions" -> <<object.ready, object.desired>>
    [] OTHER -> <<object[col]>>

CountsTrue == \A col \in CountColumns(tableKind) \ {"updated", "available"} : Cells[col] # <<>> => Cells[col] = True(col)

(* Every column of a kind's table that the backend derives a value for shows it,
   two excepted: the layers that know only pods put a dash over them
   (entityTable.js:715, 747). *)
Overlaid == {<<"ReplicationController", "ready">>, <<"VolumeAttachment", "node">>}
FieldsShown ==
  \A col \in schemaForKind(tableKind) \cap catalogTableFields(tableKind) :
    TableRow(tableKind, col) = "dash" => <<tableKind, col>> \in Overlaid

(* An object told healthy has all it should have, a job of ten and more excepted;
   conditions made up for a job or a deployment say no more than its counts. *)
ToneEarned ==
  /\ catalogStatusTone(tableKind, Row.signal) = "healthy" /\ ~(tableKind = "Job" /\ object.desired >= 10)
     => object.ready >= (IF tableKind \in {"DaemonSet", "Job"} THEN object.desired ELSE object.current)
  /\ tableKind = "Job" /\ "Complete" \in resolveJobConditions(Row) => object.ready >= object.desired
  /\ tableKind = "Deployment" /\ "Available" \in resolveDeploymentConditions(Row) => object.ready >= object.desired

(* Rows have one order: of two different rows one comes first, and what comes
   before what comes before a row comes before it, in both directions. *)
SortOrdered ==
  \A col \in CountColumns(tableKind), d \in {"asc", "desc"} :
    LET rows == {<<4, Cells[col]>>, <<5, True(col)>>, <<1, <<>>>>, <<2, <<>>>>}
    IN  \A a, b, c \in rows :
          /\ a # b => (compareTableRows(a, b, d) < 0 <=> compareTableRows(b, a, d) > 0) /\ compareTableRows(a, b, d) # 0
          /\ compareTableRows(a, b, d) < 0 /\ compareTableRows(b, c, d) < 0 => compareTableRows(a, c, d) < 0
=============================================================================
