------------------------------ MODULE Pickers -------------------------------
(***************************************************************************)
(* The namespace picker of the top bar and the resources workbench         *)
(* (components/shell/ClusterNamespacePopover.jsx): a draft of checked      *)
(* names, seeded from the scope when the popover opens and again whenever  *)
(* the scope or the cluster's list of namespaces changes under it, and     *)
(* applied as a scope; and the investigation's scope picker                *)
(* (components/incident/ScopePickerModal.jsx), a selection among the       *)
(* matches a discovery returned.                                           *)
(***************************************************************************)
EXTENDS BrowseScope

CONSTANTS MaxBrowseNamespaces,  \* 50 in the code
          Matches, Roots,       \* match keys a discovery may return; those of workload kinds
          SmallList, Precheck   \* 5 and 3 in the code: lists checked as a whole; names prechecked

ASSUME PickersAssumption == /\ MaxBrowseNamespaces \in Nat \ {0, 1} /\ IsFiniteSet(Namespaces)
                            /\ SmallList \in Nat /\ Precheck \in Nat /\ Roots \subseteq Matches

VARIABLES listed,   \* cluster.namespaces
          scope,    \* the applied browse scope
          pick,     \* [open, draft, all]: the popover
          modal     \* [open, matches, selected]: the scope picker

pickVars == <<listed, scope, pick, modal>>

(* the seeding effect of the popover *)
Seeded(p, sc, names) ==
  IF p.open THEN [p EXCEPT !.draft = DraftSeed(sc, names), !.all = sc.mode = "all"] ELSE p

(* nextBrowseDraftOnCheck *)
NextDraft(draft, name, checked) ==
  IF ~checked THEN draft \ {name}
  ELSE IF Cardinality(draft) > 1 /\ Cardinality(draft) >= MaxBrowseNamespaces THEN draft
  ELSE draft \cup {name}

(* setBrowseDraftChecked: ticking a name while all are ticked starts over with it *)
Checked(p, name, checked) ==
  LET leavingAll == IsAllDraft(p.draft, listed, p.all)
  IN [p EXCEPT !.all = @ /\ ~leavingAll /\ ~checked,
               !.draft = IF checked /\ leavingAll THEN {name} ELSE NextDraft(@, name, checked)]

(* smartDefaultSelectedKeys: a short list as a whole, else the best few workloads,
   else the best few of all; any of them may have the best scores *)
DefaultSelections(ms) ==
  LET pool == IF ms \cap Roots = {} THEN ms ELSE ms \cap Roots
      take == IF Cardinality(pool) < Precheck THEN Cardinality(pool) ELSE Precheck
  IN IF Cardinality(ms) <= SmallList THEN {ms}
     ELSE {s \in SUBSET pool : Cardinality(s) = take}

PickInit == /\ listed = {} /\ scope = AllScope
            /\ pick = [open |-> FALSE, draft |-> {}, all |-> FALSE]
            /\ modal = [open |-> FALSE, matches |-> {}, selected |-> {}]

(* the cluster was synchronised or another context selected: a new list, even if
   it holds the same names *)
NamespacesListed(names) ==
  /\ listed' = names
  /\ pick' = Seeded(pick, scope, names)
  /\ UNCHANGED <<scope, modal>>

(* App.jsx resets the browse scope when the context changes *)
ContextReset ==
  /\ scope' = AllScope
  /\ pick' = Seeded(pick, AllScope, listed)
  /\ UNCHANGED <<listed, modal>>

TogglePopover ==
  /\ pick' = Seeded([pick EXCEPT !.open = ~@], scope, listed)
  /\ UNCHANGED <<listed, scope, modal>>

(* a checkbox, or a name typed in the search field; the checkboxes of names not
   ticked are disabled at the cap *)
CheckNamespace(name, checked) ==
  /\ pick.open
  /\ pick' = Checked(pick, name, checked)
  /\ UNCHANGED <<listed, scope, modal>>

CheckAll(checked) ==
  /\ pick.open
  /\ pick' = [pick EXCEPT !.all = checked, !.draft = IF checked THEN listed ELSE {}]
  /\ UNCHANGED <<listed, scope, modal>>

(* applyBrowseDraft: nothing to apply without a name, or for the scope in force *)
ApplyDraft ==
  /\ pick.open
  /\ \E next \in FromDraft(pick.draft, listed, pick.all) \ {scope} :
       /\ scope' = next
       /\ pick' = [pick EXCEPT !.open = FALSE]
  /\ UNCHANGED <<listed, modal>>

(* Mutant: the selection of the discovery before is kept. *)
OpenModalKept(ms) ==
  /\ ~modal.open
  /\ modal' = [open |-> TRUE, matches |-> ms,
               selected |-> IF modal.selected = {} THEN ms ELSE modal.selected]
  /\ UNCHANGED <<listed, scope, pick>>

(* App opens the modal with a discovery's matches: its effect selects the defaults *)
OpenModal(ms) ==
  /\ ~modal.open
  /\ \E sel \in DefaultSelections(ms) : modal' = [open |-> TRUE, matches |-> ms, selected |-> sel]
  /\ UNCHANGED <<listed, scope, pick>>

(* a box, "select visible" under some filter, "workloads", "clear" *)
SelectMatches ==
  /\ modal.open
  /\ \/ \E m \in modal.matches :
          modal' = [modal EXCEPT !.selected = IF m \in @ THEN @ \ {m} ELSE @ \cup {m}]
     \/ \E visible \in SUBSET modal.matches : modal' = [modal EXCEPT !.selected = @ \cup visible]
     \/ modal' = [modal EXCEPT !.selected = modal.matches \cap Roots]
     \/ modal' = [modal EXCEPT !.selected = {}]
  /\ UNCHANGED <<listed, scope, pick>>

(* confirmed or cancelled: the component stays mounted with its selection *)
CloseModal ==
  /\ modal.open
  /\ modal' = [modal EXCEPT !.open = FALSE, !.matches = {}]
  /\ UNCHANGED <<listed, scope, pick>>

PopoverNext == \/ \E names \in SUBSET Namespaces : NamespacesListed(names)
               \/ ContextReset
               \/ TogglePopover
               \/ \E name \in Namespaces, checked \in BOOLEAN : CheckNamespace(name, checked)
               \/ \E checked \in BOOLEAN : CheckAll(checked)
               \/ ApplyDraft

ModalNext == \/ \E ms \in SUBSET Matches : OpenModal(ms)
             \/ SelectMatches
             \/ CloseModal
-----------------------------------------------------------------------------
(* The picker decides by counting whether "all namespaces" is meant; the count
   stands for the set: while the popover is open and "all" is ticked, the draft
   is the cluster's list, even if the list changed since it was ticked. *)
AllMeansAll == pick.open /\ pick.all => pick.draft = listed

(* The cap holds for names added one at a time: a draft above it can only be the
   cluster's list with names removed, or the scope that was already applied. *)
OverCapOnlyFromAll ==
  pick.open /\ Cardinality(pick.draft) > MaxBrowseNamespaces
    => pick.draft \subseteq listed \cup scope.ns

(* What the scope picker confirms are matches of the discovery it was opened for,
   although the component keeps its selection from one opening to the next. *)
SelectionOwn == modal.open => modal.selected \subseteq modal.matches

(* The namespace popover and the scope picker confirm what the user ticked. *)
PickersTrue == AllMeansAll /\ OverCapOnlyFromAll /\ SelectionOwn
=============================================================================
