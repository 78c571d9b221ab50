----------------------------- MODULE Navigation -----------------------------
(***************************************************************************)
(* In-app navigation of the desktop front end: the history hook            *)
(* (hooks/useNavigationHistory.js) and its use by App.jsx, which keeps the *)
(* surface it shows in state of its own.  A stack of entries and an index; *)
(* back and forward set skipPush so that the visit they are expected to    *)
(* cause is not recorded.                                                  *)
(***************************************************************************)
EXTENDS Naturals, Sequences

CONSTANTS NavTabs, NavSections,   \* surfaces, and the sections of one
          HomeTab, HomeSection,
          MaxStack                \* bound on the length of the history

ASSUME NavAssumption == HomeTab \in NavTabs /\ HomeSection \in NavSections /\ MaxStack \in Nat

VARIABLES nav,     \* [stack, index, skip]: the hook's three refs
          shown    \* tab, nodesFocus and settingsSection of App.jsx

navVars == <<nav, shown>>

NavEntries == [tab : NavTabs, section : NavSections]
HomeNav == [tab |-> HomeTab, section |-> HomeSection]

(* a navigation target: a tab with or without a section; a section left out is
   the current one's *)
NavTargets == NavEntries \cup [tab : NavTabs]

(* normalizeNavEntry *)
NormalizeNavEntry(target, current) ==
  IF "section" \in DOMAIN target THEN target
  ELSE [tab |-> target.tab, section |-> current.section]

CurrentEntry == nav.stack[nav.index]

(* Mutant: what was ahead stays in the stack. *)
PushUntrimmed(n, entry) ==
  IF n.skip THEN [n EXCEPT !.skip = FALSE]
  ELSE IF entry = n.stack[n.index] THEN n
  ELSE [n EXCEPT !.stack = Append(n.stack, entry), !.index = Len(n.stack) + 1]

(* push: swallowed after a back or forward; the current entry is not pushed
   again; what was ahead is cut off *)
Push(n, entry) ==
  IF n.skip THEN [n EXCEPT !.skip = FALSE]
  ELSE IF entry = n.stack[n.index] THEN n
  ELSE [n EXCEPT !.stack = Append(SubSeq(n.stack, 1, n.index), entry), !.index = n.index + 1]

NavInit == /\ nav = [stack |-> <<HomeNav>>, index |-> 1, skip |-> FALSE]
           /\ shown = HomeNav

(* navigateTo: shows the entry, then pushes it *)
NavigateTo(target) ==
  LET entry == NormalizeNavEntry(target, shown)
  IN /\ Len(Push(nav, entry).stack) <= MaxStack
     /\ shown' = entry
     /\ nav' = Push(nav, entry)

HandleNavHome == NavigateTo(HomeNav)

(* go: past either end it returns null and applyNavEntry does nothing *)
Go(next) ==
  /\ next \in 1 .. Len(nav.stack)
  /\ nav' = [nav EXCEPT !.index = next, !.skip = TRUE]
  /\ shown' = nav.stack[next]

HandleNavBack == Go(nav.index - 1)

HandleNavForward == Go(nav.index + 1)

NavNext == \/ \E t \in NavTargets : NavigateTo(t)
           \/ HandleNavHome
           \/ HandleNavBack
           \/ HandleNavForward

NavSpec == NavInit /\ [][NavNext]_navVars
-----------------------------------------------------------------------------
(* The hook's stack and index are a history: seen as what is behind, at and
   ahead of the index they do what BackForward allows, whatever order visits,
   swallowed visits, back and forward come in. *)
History == INSTANCE BackForward WITH
             Surfaces <- NavEntries, Start <- HomeNav,
             past <- SubSeq(nav.stack, 1, nav.index - 1), now <- CurrentEntry,
             future <- SubSeq(nav.stack, nav.index + 1, Len(nav.stack))

NavIsHistory == History!HistorySpec

=============================================================================
