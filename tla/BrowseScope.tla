---------------------------- MODULE BrowseScope -----------------------------
(***************************************************************************)
(* Cluster scopes of the desktop front end (lib/browseScope.js): one       *)
(* namespace, several, or all.  A scope is [mode, ns] with the set of its  *)
(* namespaces; an investigation has exactly one namespace, or none yet.    *)
(***************************************************************************)
EXTENDS Naturals, FiniteSets

CONSTANTS Namespaces,
          NoNs           \* no namespace: the empty string

AllScope == [mode |-> "all", ns |-> {}]

SingleScope(n) == [mode |-> "single", ns |-> {n}]

MultiScope(names) == [mode |-> "multi", ns |-> names]

(* every scope the pickers can produce *)
Scopes == {AllScope} \cup {SingleScope(n) : n \in Namespaces}
            \cup {MultiScope(s) : s \in {x \in SUBSET Namespaces : \E a, b \in x : a # b}}

(* normalizeInvestigationScope of an investigation's scope, which is a single
   namespace: without one, that of the cluster *)
InvestigationNs(scope, fallback) == IF scope # NoNs THEN scope ELSE fallback

(* investigationLockScope: the session's namespace, or the scope's *)
InvestigationLockNs(scope, sessionNs) == IF sessionNs # NoNs THEN sessionNs ELSE scope

(* scopeFromBrowseDraft: the checked names of the picker; all namespaces only
   when "all" itself was ticked; nothing ({}) when nothing is checked *)
IsAllDraft(draft, namespaces, allExplicit) ==
  allExplicit /\ namespaces # {} /\ Cardinality(draft) = Cardinality(namespaces)

FromDraft(draft, namespaces, allExplicit) ==
  CASE IsAllDraft(draft, namespaces, allExplicit) -> {AllScope}
    [] ~IsAllDraft(draft, namespaces, allExplicit) /\ Cardinality(draft) > 1 -> {MultiScope(draft)}
    [] OTHER -> {SingleScope(n) : n \in draft}

(* browseSelectionSeed: what is checked when the picker opens *)
DraftSeed(scope, namespaces) == IF scope.mode = "all" THEN namespaces ELSE scope.ns
=============================================================================
