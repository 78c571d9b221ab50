------------------------------ MODULE Inspect ------------------------------
(***************************************************************************)
(* The inspector of the Resources page: which object is inspected while    *)
(* lists, matches and the pinned focus change (ResourcesWorkbenchView),    *)
(* the details that are fetched for it, and the tabs, revealed values and  *)
(* manifest of the panel (ComponentInspectPanel, InspectorPanel), with the *)
(* one-shot request for a tab that the Overview page leaves for it.        *)
(*                                                                         *)
(* A key is <<object, full>>: with its namespace, or in the short form of  *)
(* match rows.  Everything inspected here can be fetched on demand.        *)
(***************************************************************************)
EXTENDS Integers, Sequences, FiniteSets, SequencesExt

CONSTANTS
  KindOf,       \* object -> kind
  EntityLists,  \* lists of the kinds: [kind, keys], keys a sequence
  InspectRows,  \* sets of matched objects
  MaxDetails,   \* requests for details under way (bound)
  NoKey         \* no key, no object, no request

VARIABLES
  bench,   \* [on, key, focus, pinned, cat]: page mounted, inspected key, focus, keys of the list as the page knows them
  given,   \* [list, rows]: the list shown and the matches
  detail,  \* [of, loading, failed]: key of the object whose details are held
  asked,   \* requests for details: [key, live]
  panel,   \* [last, tab, bare, manifest]: key seen last, tab, objects with values revealed, row whose manifest is open
  wish     \* object for which the Changes tab is requested

inspectVars == <<bench, given, detail, asked, panel, wish>>

Objs == DOMAIN KindOf
InspectKeys == Objs \X BOOLEAN

(* lists and matches are of objects, and no key is not the key of one *)
ASSUME InspectAssumption ==
  /\ NoKey \notin InspectKeys
  /\ \A l \in EntityLists : l.keys \in Seq(InspectKeys)
  /\ \A r \in InspectRows : r \subseteq Objs

Obj(k) == k[1]
Short(o) == <<o, FALSE>>
Full(o) == <<o, TRUE>>
NotListed == [kind |-> NoKey, keys |-> <<>>]
WorkloadKinds == {"Deployment", "StatefulSet", "DaemonSet"}
NoDetail == [of |-> NoKey, loading |-> FALSE, failed |-> FALSE]
NoPanel == [last |-> NoKey, tab |-> "summary", bare |-> {}, manifest |-> NoKey]

(* every tab that applies to the kind is listed, filled or not; the changes of a
   workload come after its summary; other tabs are as the summary here *)
Tabs(k) ==
  (IF KindOf[Obj(k)] \in WorkloadKinds THEN <<"summary", "changes">> ELSE <<"summary">>) \o <<"spec">>

-----------------------------------------------------------------------------
(* The inspected row *)

(* matches first, then the list, then whatever can be fetched *)
inspectRow(b, g) ==
  IF b.key # NoKey
  THEN IF Obj(b.key) \in g.rows THEN IF b.pinned THEN Full(Obj(b.key)) ELSE Short(Obj(b.key))
       ELSE IF \E i \in DOMAIN g.list.keys : Obj(g.list.keys[i]) = Obj(b.key)
       THEN g.list.keys[CHOOSE i \in DOMAIN g.list.keys : Obj(g.list.keys[i]) = Obj(b.key)]
       ELSE b.key
  ELSE IF b.cat # NotListed \/ g.rows = {} THEN NoKey
  ELSE IF b.focus # NoKey /\ Obj(b.focus) \in g.rows THEN Short(Obj(b.focus))
  ELSE Short(CHOOSE o \in g.rows : TRUE)

(* what the body of the panel shows: the details at hand, else the snapshot *)
BodyOf(d, row) == IF d.of # NoKey THEN d.of ELSE row

(* a list of objects was reported: stay on an object it has, else take its first *)
handleNavKindChange(b, list) ==
  [b EXCEPT !.cat = list,
            !.key = IF list.keys = <<>> THEN NoKey
                    ELSE IF @ \in Range(list.keys) THEN @ ELSE Head(list.keys)]

(* the effects of one commit from w to b, in the order they run, each with the
   state of the render: the panel's report, the default, the pinned focus *)
BenchEffects(w, b, g, mounts) ==
  LET report == ~b.pinned /\ (mounts \/ w.pinned \/ g.list # given.list)
      b1 == IF report THEN handleNavKindChange(b, g.list) ELSE b
      browsing == b.cat # NotListed
      b2 == IF b.pinned \/ browsing THEN b1
            ELSE IF g.rows = {} THEN [b1 EXCEPT !.key = NoKey]
            ELSE IF b.key # NoKey THEN b1 ELSE [b1 EXCEPT !.key = Short(CHOOSE o \in g.rows : TRUE)]
      pins == b.pinned /\ b.focus # NoKey /\ (mounts \/ ~w.pinned \/ b.focus # w.focus)
      b3 == IF pins THEN [b2 EXCEPT !.key = b.focus] ELSE b2
  IN  IF g.rows = {} \/ browsing \/ b.key # NoKey THEN b3
      ELSE [b3 EXCEPT !.key = IF b.pinned THEN b.focus ELSE Short(CHOOSE o \in g.rows : TRUE)]

(* Mutant: every refresh goes back to the first tab. *)
TabEffectResets(p, body, w) == [panel |-> [p EXCEPT !.last = body, !.tab = "summary", !.bare = {}], wish |-> w]

(* back to the first tab for another key, or to the one that was requested *)
TabEffect(p, body, w) ==
  LET changed == p.last # body
      wanted == changed /\ w = Obj(body) /\ KindOf[w] \in WorkloadKinds
      tab == IF wanted THEN "changes"
             ELSE IF ~changed /\ p.tab \in Range(Tabs(body)) THEN p.tab ELSE Head(Tabs(body))
  IN  [panel |-> [p EXCEPT !.last = body, !.tab = tab,
                           !.bare = IF tab = p.tab THEN @ ELSE {}],
       wish |-> IF changed /\ w = Obj(body) THEN NoKey ELSE w]

(* a panel that mounts takes the key it mounts with for the last one *)
PanelEffects(p, row, d, w, rowChanged) ==
  LET body == BodyOf(d, row)
      q == [p EXCEPT !.manifest = IF rowChanged THEN NoKey ELSE @]
  IN  IF row = NoKey THEN [panel |-> NoPanel, wish |-> w]
      ELSE TabEffect(IF p.last = NoKey THEN [NoPanel EXCEPT !.last = body] ELSE q, body, w)

GiveUp(calls) == [i \in DOMAIN calls |-> [calls[i] EXCEPT !.live = FALSE]]

(* one commit: effects of the page, details for a row with another key, panel *)
BenchCommit(b, g, d, calls, p, w, mounts) ==
  LET nb == BenchEffects(bench, b, g, mounts)
      row == inspectRow(nb, g)
      old == IF mounts THEN NoKey ELSE inspectRow(bench, given)
      fresh == row # old
      nd == IF row = NoKey THEN NoDetail ELSE IF fresh THEN [d EXCEPT !.loading = TRUE, !.failed = FALSE] ELSE d
      ncalls == IF ~fresh THEN calls
                ELSE IF row = NoKey THEN GiveUp(calls) ELSE Append(GiveUp(calls), [key |-> row, live |-> TRUE])
      np == PanelEffects(p, row, nd, w, fresh)
  IN  /\ Len(ncalls) <= MaxDetails
      /\ bench' = nb /\ given' = g /\ detail' = nd /\ asked' = ncalls
      /\ panel' = np.panel /\ wish' = np.wish

-----------------------------------------------------------------------------

InspectInit ==
  /\ bench = [on |-> FALSE, key |-> NoKey, focus |-> NoKey, pinned |-> FALSE, cat |-> NotListed]
  /\ given = [list |-> NotListed, rows |-> {}]
  /\ detail = NoDetail /\ asked = <<>> /\ panel = NoPanel /\ wish = NoKey

OpenResources ==
  /\ ~bench.on
  /\ BenchCommit([bench EXCEPT !.on = TRUE], given, NoDetail, asked, NoPanel, wish, TRUE)

(* the page goes with its state; key and focus are the window's *)
LeaveResources ==
  /\ bench.on
  /\ bench' = [bench EXCEPT !.on = FALSE, !.cat = NotListed]
  /\ detail' = NoDetail /\ asked' = GiveUp(asked) /\ panel' = NoPanel /\ UNCHANGED <<given, wish>>

(* another kind is selected, or its list changes *)
ListReported ==
  \E l \in EntityLists :
    /\ l # given.list
    /\ IF bench.on THEN BenchCommit(bench, [given EXCEPT !.list = l], detail, asked, panel, wish, FALSE)
       ELSE given' = [given EXCEPT !.list = l] /\ UNCHANGED <<bench, detail, asked, panel, wish>>

MatchesChange ==
  \E r \in InspectRows :
    /\ r # given.rows
    /\ IF bench.on THEN BenchCommit(bench, [given EXCEPT !.rows = r], detail, asked, panel, wish, FALSE)
       ELSE given' = [given EXCEPT !.rows = r] /\ UNCHANGED <<bench, detail, asked, panel, wish>>

(* a row of the list or a link of the panel is clicked: its key is completed *)
handleInspect ==
  /\ bench.on
  /\ \E o \in Objs :
       LET b == [bench EXCEPT !.key = Full(o),
                              !.focus = IF ~bench.pinned /\ o \in given.rows THEN Full(o) ELSE @]
       IN  BenchCommit(b, given, detail, asked, panel, wish, FALSE)

handleFocus ==
  /\ bench.on /\ inspectRow(bench, given) # NoKey
  /\ BenchCommit([bench EXCEPT !.focus = Full(Obj(inspectRow(bench, given))), !.pinned = TRUE],
                 given, detail, asked, panel, wish, FALSE)

handleClearFocus ==
  /\ bench.on /\ bench.pinned
  /\ BenchCommit([bench EXCEPT !.focus = NoKey, !.pinned = FALSE], given, detail, asked, panel, wish, FALSE)

(* an answer, which may be an error; requests that were given up are ignored *)
DetailsArrive ==
  \E i \in DOMAIN asked, ok \in BOOLEAN :
    LET c == asked[i]
        rest == RemoveAt(asked, i)
        d == IF ~c.live THEN detail
             ELSE [of |-> IF ok THEN c.key ELSE NoKey, loading |-> FALSE, failed |-> ~ok]
        np == PanelEffects(panel, inspectRow(bench, given), d, wish, FALSE)
    IN  /\ detail' = d /\ asked' = rest
        /\ IF c.live THEN panel' = np.panel /\ wish' = np.wish ELSE UNCHANGED <<panel, wish>>
        /\ UNCHANGED <<bench, given>>

PanelOpen == bench.on /\ inspectRow(bench, given) # NoKey
Inspected == BodyOf(detail, inspectRow(bench, given))

SelectTab ==
  /\ PanelOpen
  /\ \E t \in Range(Tabs(Inspected)) :
       panel' = [panel EXCEPT !.tab = t, !.bare = IF t = panel.tab THEN @ ELSE {}]
  /\ UNCHANGED <<bench, given, detail, asked, wish>>

(* the values of a secret are in its spec *)
RevealValue ==
  /\ PanelOpen /\ panel.tab = "spec" /\ KindOf[Obj(Inspected)] = "Secret" /\ detail.of # NoKey
  /\ panel' = [panel EXCEPT !.bare = IF @ = {} THEN {Obj(Inspected)} ELSE {}]
  /\ UNCHANGED <<bench, given, detail, asked, wish>>

ToggleManifest ==
  /\ PanelOpen
  /\ panel' = [panel EXCEPT !.manifest = IF @ = NoKey THEN inspectRow(bench, given) ELSE NoKey]
  /\ UNCHANGED <<bench, given, detail, asked, wish>>

(* Overview: the pinned change of a workload, or a resource of the chain *)
OpenChanges ==
  /\ ~bench.on
  /\ \E o \in Objs :
       /\ KindOf[o] \in WorkloadKinds
       /\ wish' = o /\ bench' = [bench EXCEPT !.key = Full(o)]
  /\ UNCHANGED <<given, detail, asked, panel>>

handleResourceSelect ==
  /\ ~bench.on
  /\ \E o \in given.rows : BenchCommit([bench EXCEPT !.key = Short(o), !.on = TRUE], given, NoDetail, asked, NoPanel, wish, TRUE)

InspectNext ==
  \/ OpenResources \/ LeaveResources \/ ListReported \/ MatchesChange \/ handleInspect \/ handleFocus \/ handleClearFocus
  \/ DetailsArrive \/ SelectTab \/ RevealValue \/ ToggleManifest \/ OpenChanges \/ handleResourceSelect

-----------------------------------------------------------------------------
(* Details that are not of the inspected row are shown only while the row's own
   are under way; one request is live exactly while the bar says so. *)
DetailOwn ==
  /\ PanelOpen /\ ~detail.loading => Inspected = inspectRow(bench, given)
  /\ detail.loading <=> \E i \in DOMAIN asked : asked[i].live
  /\ \A i \in DOMAIN asked : asked[i].live => asked[i].key = inspectRow(bench, given)

(* A value is revealed, and a manifest open, only for the object it was opened
   for. *)
NothingCarriedOver ==
  PanelOpen => panel.bare \subseteq {Obj(Inspected)} /\ panel.manifest \in {NoKey, inspectRow(bench, given)}

(* A list that changes and still has the inspected key keeps it inspected, and a
   pinned focus survives every list and every match. *)
SelectionKept ==
  [][/\ bench.on /\ bench'.on /\ bench'.cat # bench.cat /\ ~bench.pinned /\ ~bench'.pinned
          /\ bench.key \in Range(bench'.cat.keys) => bench'.key = bench.key
     /\ bench.pinned /\ bench'.pinned /\ bench'.focus = bench.focus /\ given' # given => bench'.key = bench.key]_inspectVars

(* "Live refreshes rebuild groups with a new reference - preserve the active tab
   when it still exists": no list, match or answer changes the tab of a key that
   stays shown, and a tab that is shown is one the object has. *)
TabKept ==
  [][/\ panel'.last = panel.last /\ panel.last # NoKey /\ detail' # detail => panel'.tab = panel.tab
     /\ panel'.last # NoKey => panel'.tab \in Range(Tabs(panel'.last))]_inspectVars

(* The inspector shows the inspected object, in the tab that was chosen for it. *)
InspectHolds == [](DetailOwn /\ NothingCarriedOver) /\ SelectionKept /\ TabKept
=============================================================================
