------------------------------ MODULE MCLists ------------------------------
(***************************************************************************)
(* Instance for TLC of what a window lists: the matches with their focus,  *)
(* the tree, the sections of the inspector, the chain of the focus and the *)
(* tables; and what of the evidence about them an investigation keeps.     *)
(* One of them runs in each behaviour.                                     *)
(***************************************************************************)
EXTENDS Matches, ResourceTree, InspectSections, FocusChain, TableFields,
        TablePane, LiveSession

MP(n, o, r, ph, w) == [name |-> n, owner |-> o, ready |-> r, phase |-> ph, why |-> w]
MCMatchRefs ==
  {[kind |-> "Deployment", name |-> <<"web">>, score |-> 2], [kind |-> "Service", name |-> <<"web">>, score |-> 3],
   [kind |-> "Pod", name |-> <<"web", "x">>, score |-> 1], [kind |-> "Node", name |-> <<"n">>, score |-> 1]}
MCMatchLoads == {[kind |-> "Deployment", name |-> <<"web">>, ready |-> r, replicas |-> 1] : r \in {0, 1}}
MCMatchPods ==
  {MP(<<"web", "x">>, <<"web">>, TRUE, "running", "none"), MP(<<"web", "x">>, <<"web">>, FALSE, "running", "crash"),
   MP(<<"web", "x">>, <<"web">>, FALSE, "succeeded", "none"), MP(<<"web", "y">>, <<"web">>, FALSE, "pending", "waiting"),
   MP(<<"web", "y">>, <<"web">>, TRUE, "running", "none")}
MCMatchServices == {[name |-> <<"web">>, ready |-> r, total |-> 2] : r \in {1, 2}}

PEntry(k, n, v, o) == [key |-> k, kind |-> n, virtual |-> v, only |-> o]
MCPresentation ==
  <<[id |-> "workloads", entries |-> <<PEntry("pods", "Pod", FALSE, FALSE), PEntry("vpas", "VPA", FALSE, TRUE),
                                       PEntry("releases", "Release", TRUE, FALSE)>>]>>
Desc(k, access, e) == [kind |-> k, access |-> access, count |-> Unknown, ext |-> e]
MCDiscoveries ==
  {[pods |-> Desc("Pod", "allowed", FALSE)],
   [pods |-> Desc("Pod", "error", FALSE), vpas |-> Desc("VPA", "allowed", FALSE), widgets |-> Desc("Widget", "allowed", TRUE)]}
MCCountAnswers == {[pods |-> [state |-> "forbidden", value |-> 0], vpas |-> Loaded(2)]}
MCTreeRows == {[kind |-> "Widget", name |-> "w", status |-> "unknown", signal |-> "none"]}
MCTreePods == {[name |-> "p", ready |-> FALSE, phase |-> "running"]}

SRow(k, ns, n, f) == [obj |-> <<k, ns, n>>, form |-> f]
MCSectionPool == {
  [id |-> "pods", group |-> "relationships", body |-> {},
   rows |-> <<SRow("Pod", Beside, "a", "plain"), SRow("Pod", Beside, "b", "plain")>>],
  [id |-> "ownerRefs", group |-> "", body |-> {},
   rows |-> <<SRow("Deployment", "n2", "w", "columns"), SRow("Widget", "n1", "x", "columns")>>],
  [id |-> "environment", group |-> "containers", body |-> {}, rows |-> <<SRow("Secret", Beside, "s", "prefixed")>>],
  [id |-> "initContainerStates", group |-> "containers", body |-> {}, rows |-> <<SRow("Secret", Beside, "s", "empty")>>],
  [id |-> "conditions", group |-> "status", body |-> {"fields"},
   rows |-> <<SRow("Service", "n2", "v", "kindNsName"), SRow("PersistentVolume", "", "d", "kindName"),
              SRow("PersistentVolumeClaim", "n2", "c", "nsName")>>],
  [id |-> "events", group |-> "events", body |-> {"notes"}, rows |-> <<>>],
  [id |-> "labels", group |-> "", body |-> {"kv"}, rows |-> <<>>]}
MCInspectTargets == {<<"Deployment", "n1", "w">>, <<"Pod", "n1", "a">>, <<"Node", "", "k">>}
MCPodFacts == [a |-> [ns |-> "n1", owner |-> "w", mounts |-> {<<"Secret", "s">>}, labels |-> {"w"}]]
MCServiceFacts == [v |-> "w"]
MCEngineSignals == {[about |-> "a", level |-> "warn"]}

NoFact ==
  [kind |-> "", ns |-> "n1", name |-> <<>>, owner |-> Nobody, labels |-> {}, mounts |-> {}, select |-> Nobody,
   backend |-> Nobody, ready |-> TRUE]
Fact(k, n) == [NoFact EXCEPT !.kind = k, !.name = n]
MCFacts ==
  [web |-> Fact("Deployment", <<"web">>),
   rs |-> [Fact("ReplicaSet", <<"r7">>) EXCEPT !.owner = <<"Deployment", <<"web">>>>],
   pod |-> [Fact("Pod", <<"r7", "x">>) EXCEPT !.owner = <<"ReplicaSet", <<"r7">>>>, !.labels = {<<"shop">>},
                                              !.mounts = {<<"Secret", <<"key">>>>}, !.ready = FALSE],
   svc |-> [Fact("Service", <<"shop">>) EXCEPT !.select = <<"shop">>],
   ing |-> [Fact("Ingress", <<"front">>) EXCEPT !.backend = <<"shop">>],
   key |-> Fact("Secret", <<"key">>),
   far |-> [Fact("Pod", <<"web", "y">>) EXCEPT !.ns = "n2", !.mounts = {<<"Secret", <<"key">>>>}]]

MCSchemas ==
  [ka |-> [columnOrder |-> <<"name", "namespace">>, defaultVisible |-> <<"name", "namespace">>, clusterScoped |-> FALSE],
   kb |-> [columnOrder |-> <<"name", "node", "version">>, defaultVisible |-> <<"name", "node">>, clusterScoped |-> TRUE]]

Evidence(s, v, a) == [src |-> s, sev |-> v, about |-> a]
MCEvidencePool ==
  {Evidence("log", "info", "o1"), Evidence("event", "high", "o1"),
   Evidence("event", "critical", "o1"), Evidence("event", "critical", "o2"), Evidence("event", "critical", "o3")}
MCClusterHealth == <<>> @@ (0 :> "nominal")

VARIABLE area   \* the part that runs

Runs(x) == area = x /\ UNCHANGED area

ListsInit ==
  /\ area \in {"matches", "tree", "sections", "chain", "fields", "columns", "pane", "evidence"}
  /\ MatchInit /\ TreeInit /\ SectionsInit /\ ChainInit /\ FieldInit /\ TableInit /\ PaneInit /\ LiveInit /\ ~autoRefresh

ListsNext ==
  \/ /\ Runs("matches") /\ MatchNext
     /\ UNCHANGED <<treeVars, sectionVars, chainVars, fieldVars, tableVars, paneVars, liveVars>>
  \/ /\ Runs("tree") /\ TreeNext
     /\ UNCHANGED <<matchVars, sectionVars, chainVars, fieldVars, tableVars, paneVars, liveVars>>
  \/ /\ Runs("sections") /\ SectionsNext
     /\ UNCHANGED <<matchVars, treeVars, chainVars, fieldVars, tableVars, paneVars, liveVars>>
  \/ /\ Runs("chain") /\ ChainNext
     /\ UNCHANGED <<matchVars, treeVars, sectionVars, fieldVars, tableVars, paneVars, liveVars>>
  \/ /\ Runs("fields") /\ FieldNext
     /\ UNCHANGED <<matchVars, treeVars, sectionVars, chainVars, tableVars, paneVars, liveVars>>
  \/ /\ Runs("columns") /\ TableNext
     /\ UNCHANGED <<matchVars, treeVars, sectionVars, chainVars, fieldVars, paneVars, liveVars>>
  \/ /\ Runs("pane") /\ PaneNext
     /\ UNCHANGED <<matchVars, treeVars, sectionVars, chainVars, fieldVars, tableVars, liveVars>>
  \/ /\ Runs("evidence") /\ (FlowNext \/ (StartLive /\ ~autoRefresh') \/ StopSession)
     /\ UNCHANGED <<matchVars, treeVars, sectionVars, chainVars, fieldVars, tableVars, paneVars>>

ListsSpec ==
  /\ ListsInit
  /\ [][ListsNext]_<<area, matchVars, treeVars, sectionVars, chainVars, fieldVars, tableVars, paneVars, liveVars>>

(* The sections of the inspector and the chain of a focus are of the object and
   of what is known of it now (objectDetails.js, focusScope.js). *)
ObjectsTrue == DetailsTrue /\ ChainTrue

(* The table of a kind is true of its objects, ordered, drawn with the chosen
   columns, and never without a reason empty (entityTable.js, EntityTable.jsx). *)
TableTrue == CountsTrue /\ FieldsShown /\ ToneEarned /\ SortOrdered /\ ChoiceKept /\ RowsReachable /\ EmptyHonest
=============================================================================
