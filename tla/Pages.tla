------------------------------- MODULE Pages -------------------------------
(***************************************************************************)
(* The investigation's pages and their explorers: which page MainContent   *)
(* shows, the explorer filters of Failures, Patterns and Evidence, and     *)
(* what those pages list (ExplorerPanels.jsx, patternFilters.js,           *)
(* PatternsView.jsx, StreamPatternsPanel.jsx, TimelineView.jsx,            *)
(* FailuresView.jsx, EvidenceView.jsx, investigationViews.js).             *)
(*                                                                         *)
(* A template is [id, events, count, up, signal]; a pod is [name, phase,   *)
(* ready, restarts, boxes], its containers in order as [ready, last].      *)
(***************************************************************************)
EXTENDS Integers, Sequences, FiniteSets, FiniteSetsExt

CONSTANTS AllTemplates,   \* the templates that may be found
          AllPods,        \* the states a pod may be in
          NoPick          \* nothing is selected

VARIABLES
  facts,  \* what the investigation found: [templates, pods, evidence]
  page    \* [tab, running, starting, filters, kind, expanded, picked]

pageVars == <<facts, page>>

PatternSignals == {"restart", "memory"}
EvidenceTypes == {"log", "event", "system"}   \* changes and metrics are listed like events

-----------------------------------------------------------------------------
(* MainContent.jsx: the page of a tab *)

InvestigationActive(g) == g.running \/ g.starting

Surface(g) ==
  IF g.tab \in {"home", "settings", "resources"} THEN g.tab
  ELSE IF InvestigationActive(g) THEN g.tab ELSE "guide"

-----------------------------------------------------------------------------
(* patternFilters.js *)

Recurring(t) == t.count >= 3

Filtered(ts, f) ==
  {t \in ts : /\ f.kind = "recurring" => Recurring(t)
              /\ f.kind = "emerging" => t.up
              /\ f.signal # "none" => t.signal = f.signal}

TabKind(f) == IF f.kind = "events" THEN "events" ELSE "logs"

ExplorerCounts(ts) ==
  [all |-> Cardinality(ts), recurring |-> Cardinality({t \in ts : Recurring(t)}),
   emerging |-> Cardinality({t \in ts : t.up}),
   logs |-> Cardinality({t \in ts : ~t.events}), events |-> Cardinality({t \in ts : t.events})]

SignalRows(ts) == {s \in PatternSignals : \E t \in ts : t.signal = s}

(* the filter has a name, and with it the banner that clears it *)
FilterDescribed(f) == f.kind # "none" \/ f.signal # "none"

OfKind(g) == {t \in facts.templates : t.events = (g.kind = "events")}

ShownTemplates(g) == Filtered(OfKind(g), g.filters.patterns)

(* the body of the Patterns page *)
PatternsBody(g) ==
  IF ~InvestigationActive(g) THEN "guide"
  ELSE IF FilterDescribed(g.filters.patterns) /\ OfKind(g) # {} /\ ShownTemplates(g) = {} THEN "no match"
  ELSE IF ShownTemplates(g) = {} THEN "no patterns yet" ELSE "list"

-----------------------------------------------------------------------------
(* investigationViews.js: health of pods and the order of triage *)

Bad(c) == c.last \in {"oom", "crash"}

PodHealth(p) ==
  IF p.phase = "succeeded" THEN "healthy"
  ELSE IF p.phase = "failed" \/ \E i \in DOMAIN p.boxes : Bad(p.boxes[i]) THEN "critical"
  ELSE IF p.phase = "running" THEN IF p.ready THEN "healthy" ELSE "warning"
  ELSE IF p.restarts > 3 THEN "critical"
  ELSE IF p.phase = "pending" \/ ~p.ready THEN "warning" ELSE "unknown"

HealthRank(h) == CASE h = "critical" -> 3 [] h = "warning" -> 2 [] h = "unknown" -> 1 [] OTHER -> 0

ContainerRank(c) == IF Bad(c) THEN 3 ELSE IF c.ready THEN 0 ELSE 2

(* the first of the worst containers; their own restart counts are left out *)
WorstContainer(p) ==
  LET best == {i \in DOMAIN p.boxes : \A j \in DOMAIN p.boxes : ContainerRank(p.boxes[j]) <= ContainerRank(p.boxes[i])}
  IN  p.boxes[Min(best)]

TriageScore(p) ==
  HealthRank(PodHealth(p)) * 100 + p.restarts * 5 + (IF p.ready THEN 0 ELSE 20)
    + (IF p.boxes # <<>> /\ WorstContainer(p).last = "oom" THEN 30 ELSE 0)

(* p is listed before q *)
Before(p, q) ==
  \/ TriageScore(p) > TriageScore(q)
  \/ TriageScore(p) = TriageScore(q) /\ (p.restarts > q.restarts \/ (p.restarts = q.restarts /\ p.name < q.name))

ListedInFailures(g) ==
  LET f == g.filters.failures
  IN  {p \in facts.pods :
         /\ f.severity = "critical" => PodHealth(p) = "critical"
         /\ f.severity = "warning" => PodHealth(p) = "warning"
         /\ f.severity = "stable" => PodHealth(p) = "healthy"
         /\ f.type # "none" => p.boxes # <<>> /\ WorstContainer(p).last = f.type}

FirstListed(pods) == IF pods = {} THEN NoPick ELSE (CHOOSE p \in pods : \A q \in pods : q = p \/ Before(p, q)).name

(* Mutant: a selection is shown even when it is no longer listed. *)
ActivePodSticky(g) == IF g.picked # NoPick THEN g.picked ELSE FirstListed(ListedInFailures(g))

ActivePod(g) ==
  IF \E p \in ListedInFailures(g) : p.name = g.picked THEN g.picked ELSE FirstListed(ListedInFailures(g))

(* the explorer's own counts look at the first container only *)
FailureStat(p) ==
  IF p.boxes # <<>> /\ p.boxes[1].last \in {"oom", "crash", "error"} THEN "critical"
  ELSE IF ~p.ready \/ p.restarts >= 3 THEN "warning" ELSE "stable"

FailureTypes(g) == {t \in {"oom", "crash"} : \E p \in facts.pods : p.boxes # <<>> /\ p.boxes[1].last = t}

(* EvidenceView.jsx *)
ShownEvidence(g) ==
  LET t == g.filters.evidence IN IF t = "none" THEN facts.evidence ELSE facts.evidence \cap {t}

(* groupEvidence leaves logs and the session's own messages out *)
Observations(g) == ShownEvidence(g) \ {"log", "system"}

-----------------------------------------------------------------------------
NoFilters == [failures |-> [severity |-> "all", type |-> "none"],
              patterns |-> [kind |-> "none", signal |-> "none"], evidence |-> "none"]

PageInit ==
  /\ facts = [templates |-> {}, pods |-> {}, evidence |-> {}]
  /\ page = [tab |-> "patterns", running |-> FALSE, starting |-> FALSE, filters |-> NoFilters,
             kind |-> "logs", expanded |-> NoPick, picked |-> NoPick]

(* the page's tab follows the filter *)
KindEffect(g) == [g EXCEPT !.kind = TabKind(g.filters.patterns)]

(* leaving a page unmounts it: its own state is gone, the filters stay *)
Visit ==
  \E t \in {"home", "patterns", "failures", "evidence"} \ {page.tab} :
    /\ page' = [page EXCEPT !.tab = t, !.expanded = NoPick, !.picked = NoPick,
                            !.kind = TabKind(page.filters.patterns)]
    /\ UNCHANGED facts

InvestigationStep ==
  /\ \/ ~page.running /\ ~page.starting /\ page' = [page EXCEPT !.starting = TRUE]
     \/ page.starting /\ page' = [page EXCEPT !.starting = FALSE, !.running = TRUE]
     \/ page.running /\ page' = [page EXCEPT !.running = FALSE]
  /\ facts' = IF page.running THEN [templates |-> {}, pods |-> {}, evidence |-> {}] ELSE facts

(* a view arrives while the investigation runs *)
FactsArrive ==
  /\ page.running
  /\ \/ \E t \in AllTemplates : facts' = [facts EXCEPT !.templates =
           IF t \in @ THEN @ \ {t} ELSE {u \in @ : u.id # t.id} \cup {t}]
     \/ \E p \in AllPods : facts' = [facts EXCEPT !.pods = IF p \in @ THEN @ \ {p} ELSE {q \in @ : q.name # p.name} \cup {p}]
     \/ \E e \in EvidenceTypes : facts' = [facts EXCEPT !.evidence = @ \cup {e}]
  /\ UNCHANGED page

(* every explorer and page replaces the whole set of filters by its own *)
OnlyFilter(k, v) == [NoFilters EXCEPT ![k] = v]

FilterPatterns ==
  /\ Surface(page) = "patterns"
  /\ \E f \in {[kind |-> "none", signal |-> "none"]}
            \cup {[kind |-> k, signal |-> page.filters.patterns.signal] : k \in {"recurring", "emerging", "logs", "events"}}
            \cup {[kind |-> page.filters.patterns.kind, signal |-> s] : s \in SignalRows(facts.templates)} :
       page' = KindEffect([page EXCEPT !.filters = OnlyFilter("patterns", f)])
  /\ UNCHANGED facts

SelectKind ==
  /\ Surface(page) = "patterns"
  /\ \E k \in {"logs", "events"} :
       page' = KindEffect([page EXCEPT !.kind = k,
                 !.filters = OnlyFilter("patterns", [kind |-> k, signal |-> page.filters.patterns.signal])])
  /\ UNCHANGED facts

ToggleTemplate ==
  /\ page.tab = "patterns" /\ PatternsBody(page) = "list"
  /\ \E t \in ShownTemplates(page) : page' = [page EXCEPT !.expanded = IF @ = t.id THEN NoPick ELSE t.id]
  /\ UNCHANGED facts

FilterFailures ==
  /\ Surface(page) = "failures"
  /\ LET f == page.filters.failures
     IN  \E n \in {[f EXCEPT !.severity = s] : s \in {"all", "critical", "warning", "stable"}}
              \cup {[f EXCEPT !.type = t] : t \in FailureTypes(page)} :
           page' = [page EXCEPT !.filters = OnlyFilter("failures", n)]
  /\ UNCHANGED facts

PickPod ==
  /\ page.tab = "failures" /\ page.running
  /\ \E p \in ListedInFailures(page) : page' = [page EXCEPT !.picked = p.name]
  /\ UNCHANGED facts

FilterEvidence ==
  /\ Surface(page) = "evidence"
  /\ \E t \in {"none", "log", "event"} : page' = [page EXCEPT !.filters = OnlyFilter("evidence", t)]
  /\ UNCHANGED facts

PageNext ==
  \/ Visit \/ InvestigationStep \/ FactsArrive \/ FilterPatterns \/ SelectKind \/ ToggleTemplate
  \/ FilterFailures \/ PickPod \/ FilterEvidence

-----------------------------------------------------------------------------
(* The detail beside the triage list is of a listed pod, also when the pod that
   was picked has gone or no longer passes the filter. *)
DetailListed ==
  page.tab = "failures" /\ ListedInFailures(page) # {} => ActivePod(page) \in {p.name : p \in ListedInFailures(page)}

(* The Patterns page shows the kind of template that its explorer's filter
   names, whichever of the two was clicked last and also after a detour. *)
KindFollowsFilter == page.tab = "patterns" => page.kind = TabKind(page.filters.patterns)

(* Whenever templates of the shown kind are hidden, the page says so and offers
   to clear the filter. *)
HiddenExplained ==
  page.tab = "patterns" /\ ShownTemplates(page) # OfKind(page) => FilterDescribed(page.filters.patterns)

(* An explorer row promises a count that its click does not exceed. *)
CountsCover ==
  LET c == ExplorerCounts(facts.templates)
  IN  /\ Cardinality(ShownTemplates(page)) <= c.all
      /\ Cardinality(Observations(page)) <= Cardinality(ShownEvidence(page))
      /\ page.filters.patterns.kind = "recurring" => Cardinality(ShownTemplates(page)) <= c.recurring
      /\ page.filters.patterns.signal # "none" =>
           Cardinality(ShownTemplates(page)) <= Cardinality({t \in facts.templates : t.signal = page.filters.patterns.signal})
      /\ \A p \in facts.pods :
           FailureStat(p) = "critical" /\ Bad(p.boxes[1]) /\ p.phase # "succeeded" => PodHealth(p) = "critical"

(* A type that the failures explorer offers lists at least the pod it was offered
   for, unless the severity filter hides it. *)
TypeLists ==
  LET f == page.filters.failures
  IN  f.severity = "all" /\ f.type \in FailureTypes(page) => ListedInFailures(page) # {}

(* What the pages of an investigation list, select and count agrees, whatever was
   filtered and picked before on which page. *)
PagesTrue == DetailListed /\ KindFollowsFilter /\ HiddenExplained /\ CountsCover /\ TypeLists
=============================================================================
