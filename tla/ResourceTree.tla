---------------------------- MODULE ResourceTree ----------------------------
(***************************************************************************)
(* The tree of resource kinds beside the resource list: discovery, counts  *)
(* and matches merged into one tree (resourceCatalog.js), which is kept    *)
(* until a signature of its inputs changes (ScopeBrowseContext.jsx), and   *)
(* the selection in it (useResourceNavigation.js, resourceNavigation.js).  *)
(*                                                                         *)
(* A presentation entry is [key, kind, virtual, only], only marking kinds  *)
(* that are listed just when the cluster has them.  A descriptor of the    *)
(* catalog is [kind, access, count, ext].  A count is [state, value].      *)
(***************************************************************************)
EXTENDS Integers, Sequences, FiniteSets, FiniteSetsExt, SequencesExt

CONSTANTS
  Presentation,  \* sequence of categories [id, entries]
  Discoveries,   \* catalogs that discovery may answer: key -> descriptor
  CountAnswers,  \* answers to the request for workload counts: key -> count
  TreeRows,      \* match rows that may arrive: [kind, name, status, signal]
  TreePods,      \* states of the snapshot's pods: [name, ready, phase]
  MaxListed,     \* kinds whose list is remembered (bound)
  NoCatalog, NoKind

VARIABLES
  src,    \* inputs: [gen, descs, rows, pods, all]
  memo,   \* the tree in use and the signature it was built for
  sel,    \* [group, kind, id, showEmpty, open]
  lazy,   \* the last LIST of the selected kind: [access, n]
  counts  \* counts of kinds listed so far: key -> [access, n]

treeVars == <<src, memo, sel, lazy, counts>>

Overview == "overview"
OverviewGroups == {"workloads"}
Loaded(n) == [state |-> "loaded", value |-> n]
Unknown == [state |-> "unknown", value |-> 0]

-----------------------------------------------------------------------------
(* resourceCatalog.js: one node of the tree *)

DescOf(s, key) == IF s.gen = 0 \/ key \notin DOMAIN s.descs THEN NoCatalog ELSE s.descs[key]

deriveCountState(desc, n) ==
  IF n > 0 THEN Loaded(n) ELSE IF desc = NoCatalog THEN Unknown ELSE desc.count

AccessOf(desc, count, n) ==
  IF desc = NoCatalog THEN "unknown"
  ELSE IF count.state = "forbidden" THEN "forbidden"
  ELSE IF n > 0 THEN "allowed" ELSE IF desc.access = "error" THEN "unknown" ELSE desc.access

syntheticPodRow(p) ==
  [kind |-> "Pod", name |-> p.name, signal |-> "none",
   status |-> IF p.ready \/ p.phase = "succeeded" THEN "healthy" ELSE "degraded"]

buildPodItems(rows, pods) ==
  {r \in rows : r.kind = "Pod"}
    \cup {syntheticPodRow(p) : p \in {q \in pods : ~\E r \in rows : r.kind = "Pod" /\ r.name = q.name}}

(* match rows carry no resource id: they are found by kind *)
matchEntitiesFor(kind, rows, pods) ==
  IF kind = "Pod" THEN buildPodItems(rows, pods) ELSE {r \in rows : r.kind = kind}

Node(key, kind, desc, items, builtin, virtual, only) ==
  LET n == Cardinality(items)
      count == deriveCountState(desc, n)
  IN  [id |-> key, kind |-> kind, builtin |-> builtin, virtual |-> virtual, only |-> only,
       discovered |-> TRUE, access |-> IF virtual /\ n > 0 THEN "allowed" ELSE AccessOf(desc, count, n),
       count |-> count, matches |-> n, items |-> items]

mergeBuiltinEntry(e, s, rows) ==
  Node(e.key, e.kind, IF e.virtual THEN NoCatalog ELSE DescOf(s, e.key),
       matchEntitiesFor(e.kind, rows, s.pods), TRUE, e.virtual, e.only)

BuiltinKeys == UNION {{Presentation[i].entries[j].key : j \in DOMAIN Presentation[i].entries} : i \in DOMAIN Presentation}

(* what discovery found beyond the presentation, as one more category *)
mergeCustomEntry(key, s, rows) ==
  Node(key, s.descs[key].kind, s.descs[key], matchEntitiesFor(s.descs[key].kind, rows, s.pods), FALSE, FALSE, FALSE)

CustomCategory(s, rows, id) ==
  LET keys == {k \in DOMAIN s.descs \ BuiltinKeys : s.descs[k].ext = (id = "custom")}
  IN  IF keys = {} THEN <<>>
      ELSE <<[id |-> id, kinds |-> SetToSeq({mergeCustomEntry(k, s, rows) : k \in keys})]>>

PresentedCategories(s, rows) ==
  [i \in DOMAIN Presentation |->
    [id |-> Presentation[i].id,
     kinds |-> LET here == SelectSeq(Presentation[i].entries, LAMBDA e : ~e.only \/ DescOf(s, e.key) # NoCatalog)
               IN  [j \in DOMAIN here |-> mergeBuiltinEntry(here[j], s, rows)]]]

(* before discovery: the kinds of the rows and no others *)
buildRowsOnlyScopeTree(s, rows) ==
  LET ofKind(k) == matchEntitiesFor(k, rows, s.pods)
      node(k) == [id |-> k, kind |-> k, builtin |-> FALSE, virtual |-> FALSE, only |-> FALSE, discovered |-> FALSE,
                  access |-> "unknown", count |-> Loaded(Cardinality(ofKind(k))), matches |-> Cardinality(ofKind(k)), items |-> ofKind(k)]
  IN  <<[id |-> "in-scope", kinds |-> SetToSeq({node(k) : k \in {r.kind : r \in rows}})]>>

LensRows(s) == IF s.all THEN {} ELSE s.rows

buildPresentationFallbackTree(s) == PresentedCategories([s EXCEPT !.pods = {}], {})

buildCatalogScopeTree(s) ==
  LET rows == LensRows(s)
  IN  IF s.gen = 0 THEN IF rows = {} THEN buildPresentationFallbackTree(s) ELSE buildRowsOnlyScopeTree(s, rows)
      ELSE PresentedCategories(s, rows) \o CustomCategory(s, rows, "custom") \o CustomCategory(s, rows, "other")

(* counts of a later answer replace those of discovery *)
mergeCatalogCounts(descs, answer) ==
  [k \in DOMAIN descs |-> IF k \in DOMAIN answer THEN [descs[k] EXCEPT !.count = answer[k]] ELSE descs[k]]

catalogTreeSignature(s) ==
  IF s.gen = 0 THEN <<>>
  ELSE LET done == {k \in DOMAIN s.descs : s.descs[k].count.state = "loaded"}
       IN  <<s.gen, Cardinality(DOMAIN s.descs), Cardinality(done),
             MapThenSumSet(LAMBDA k : s.descs[k].count.value, done)>>

(* ScopeBrowseContext.jsx: rowSig, podSig and catalogSig *)
TreeSignature(s) ==
  <<{<<r.kind, r.name, r.status>> : r \in LensRows(s)}, {<<p.name, p.ready>> : p \in s.pods}, catalogTreeSignature(s)>>

-----------------------------------------------------------------------------
(* Counts of kinds that were listed *)

patchNode(k) ==
  IF k.id \notin DOMAIN counts THEN k
  ELSE LET c == counts[k.id]
       IN  IF c.access # "allowed" THEN [k EXCEPT !.access = c.access, !.count = [state |-> c.access, value |-> 0]]
           ELSE IF k.matches > 0 THEN k
           ELSE [k EXCEPT !.access = "allowed", !.count = Loaded(c.n)]

applyLazyCountsToTree(t) == [i \in DOMAIN t |-> [t[i] EXCEPT !.kinds = [j \in DOMAIN @ |-> patchNode(@[j])]]]

(* what a row of the tree shows *)
getKindCountDisplay(k) ==
  IF k.access = "forbidden" \/ k.count.state = "forbidden" THEN "denied"
  ELSE IF k.matches > 0 \/ k.count.state = "loaded" THEN "count"
  ELSE IF k.access = "unavailable" \/ k.count.state = "unavailable" THEN "unavailable"
  ELSE IF k.access = "error" \/ k.count.state = "error" THEN "error" ELSE "none"

VisibleKind(k, showEmpty) ==
  \/ k.virtual \/ (k.builtin /\ ~k.only)
  \/ /\ k.discovered
     /\ showEmpty \/ k.access = "forbidden" \/ k.matches > 0
        \/ (k.count.state = "loaded" /\ k.count.value > 0)
        \/ (k.count.state \notin {"loaded", "unknown"} /\ k.access # "unavailable")

visibleCategories(t, showEmpty) ==
  SelectSeq([i \in DOMAIN t |-> [t[i] EXCEPT !.kinds = SelectSeq(@, LAMBDA k : VisibleKind(k, showEmpty))]],
            LAMBDA c : c.kinds # <<>>)

canLoadCatalogEntities(k) ==
  /\ k.access # "forbidden" /\ k.count.state # "forbidden"
  /\ k.virtual \/ k.builtin \/ k.discovered

-----------------------------------------------------------------------------
(* resourceNavigation.js: the selection *)

NodesOf(t, group) == UNION {Range(t[i].kinds) : i \in {j \in DOMAIN t : t[j].id = group}}

Pick(group, kind, id) == [group |-> group, kind |-> kind, id |-> id]

pickDefaultKindSelection(t, showEmpty) ==
  LET cats == visibleCategories(t, showEmpty)
      matched == {i \in DOMAIN cats : \E j \in DOMAIN cats[i].kinds : cats[i].kinds[j].matches > 0}
  IN  IF \E i \in DOMAIN cats : cats[i].id \in OverviewGroups THEN Pick("workloads", Overview, NoKind)
      ELSE IF matched # {}
      THEN LET c == cats[Min(matched)]
               k == c.kinds[Min({j \in DOMAIN c.kinds : c.kinds[j].matches > 0})]
           IN  Pick(c.id, k.kind, k.id)
      ELSE IF t # <<>> THEN Pick(t[1].id, t[1].kinds[1].kind, t[1].kinds[1].id) ELSE Pick(NoKind, NoKind, NoKind)

resolveKindSelection(t, s) ==
  IF s.kind = Overview /\ \E i \in DOMAIN t : t[i].id = s.group THEN Pick(s.group, Overview, NoKind)
  ELSE IF \E k \in NodesOf(t, s.group) : IF s.id = NoKind THEN k.kind = s.kind ELSE k.id = s.id
  THEN Pick(s.group, s.kind, (CHOOSE k \in NodesOf(t, s.group) : IF s.id = NoKind THEN k.kind = s.kind ELSE k.id = s.id).id)
  ELSE pickDefaultKindSelection(t, s.showEmpty)

selectedKindGroup(t, s) == {k \in NodesOf(t, s.group) : IF s.id = NoKind THEN k.kind = s.kind ELSE k.id = s.id}

entitiesForKind(t, s) == UNION {k.items : k \in selectedKindGroup(t, s)}

-----------------------------------------------------------------------------
(* One commit: the tree if its signature changed, then the selection if the
   tree or the filter changed, then the group of a new selection is opened *)

(* Mutant: a selection that moves by itself opens nothing. *)
OpenGroupNever(s, was) == s

OpenGroup(s, was) == IF s.group # was.group /\ s.group # NoKind THEN [s EXCEPT !.open = @ \cup {s.group}] ELSE s

MemoTree(s) == IF TreeSignature(s) = memo.sig THEN memo ELSE [sig |-> TreeSignature(s), tree |-> buildCatalogScopeTree(s)]

Reselect(m, s) ==
  IF m.tree # memo.tree \/ s.showEmpty # sel.showEmpty
  THEN LET r == resolveKindSelection(m.tree, s) IN [s EXCEPT !.group = r.group, !.kind = r.kind, !.id = r.id]
  ELSE s

(* the list of a kind that was just selected is asked for again *)
TreeCommit(s, nav, cts, lz) ==
  LET m == MemoTree(s)
      n == OpenGroup(Reselect(m, nav), sel)
  IN  /\ src' = s /\ memo' = m /\ sel' = n /\ counts' = cts
      /\ lazy' = IF n.id # sel.id \/ n.group # sel.group THEN [access |-> "unknown", n |-> 0] ELSE lz

TreeInit ==
  LET s == [gen |-> 0, descs |-> <<>>, rows |-> {}, pods |-> {}, all |-> FALSE]
      t == buildCatalogScopeTree(s)
      d == pickDefaultKindSelection(t, TRUE)
  IN  /\ src = s /\ memo = [sig |-> TreeSignature(s), tree |-> t]
      /\ sel = [group |-> d.group, kind |-> d.kind, id |-> d.id, showEmpty |-> TRUE, open |-> {"workloads"}]
      /\ lazy = [access |-> "unknown", n |-> 0] /\ counts = <<>>

(* discovery answers; its time of generation is new every time *)
CatalogArrives ==
  \E d \in Discoveries : TreeCommit([src EXCEPT !.gen = IF @ = 1 THEN 2 ELSE 1, !.descs = d], sel, counts, lazy)

CountsArrive ==
  /\ src.gen > 0
  /\ \E a \in CountAnswers : TreeCommit([src EXCEPT !.descs = mergeCatalogCounts(@, a)], sel, counts, lazy)

(* another cluster or namespace: no catalog, no view, no counts *)
ScopeChanges ==
  TreeCommit([src EXCEPT !.gen = 0, !.descs = <<>>, !.rows = {}, !.pods = {}], sel, <<>>, [access |-> "unknown", n |-> 0])

TreeViewArrives ==
  \/ \E r \in TreeRows :
       TreeCommit([src EXCEPT !.rows = IF r \in @ THEN @ \ {r} ELSE {x \in @ : x.name # r.name \/ x.kind # r.kind} \cup {r}], sel, counts, lazy)
  \/ \E p \in TreePods :
       TreeCommit([src EXCEPT !.pods = IF p \in @ THEN @ \ {p} ELSE {x \in @ : x.name # p.name} \cup {p}], sel, counts, lazy)

ToggleLens == TreeCommit([src EXCEPT !.all = ~@], sel, counts, lazy)

ToggleShowEmpty == TreeCommit(src, [sel EXCEPT !.showEmpty = ~@], counts, lazy)

Shown == applyLazyCountsToTree(memo.tree)

toggleGroup ==
  \E i \in DOMAIN Shown :
    LET g == Shown[i].id
    IN  TreeCommit(src, [sel EXCEPT !.open = IF g \in @ THEN @ \ {g} ELSE @ \cup {g}], counts, lazy)

(* a kind of an open group, or the overview of the workloads *)
selectKind ==
  LET cats == visibleCategories(Shown, sel.showEmpty)
      choices == UNION {{Pick(cats[i].id, k.kind, k.id) : k \in Range(cats[i].kinds)} : i \in DOMAIN cats}
                   \cup {Pick(cats[i].id, Overview, NoKind) : i \in {j \in DOMAIN cats : cats[j].id \in OverviewGroups}}
  IN  \E p \in {q \in choices : q.group \in sel.open} :
        TreeCommit(src, [sel EXCEPT !.group = p.group, !.kind = p.kind, !.id = p.id, !.open = @ \cup {p.group}], counts, lazy)

CanLazyLoad == sel.kind # Overview /\ \E k \in selectedKindGroup(memo.tree, sel) : canLoadCatalogEntities(k)

(* the list of the selected kind arrives, and its length is remembered *)
ListArrives ==
  /\ CanLazyLoad /\ Cardinality(DOMAIN counts \cup {sel.id}) <= MaxListed
  /\ \E a \in {"allowed", "forbidden", "unavailable"} :
       LET l == [access |-> a, n |-> IF a = "allowed" THEN 1 ELSE 0]
       IN  TreeCommit(src, sel, [k \in DOMAIN counts \cup {sel.id} |-> IF k = sel.id THEN l ELSE counts[k]], l)

TreeNext ==
  \/ CatalogArrives \/ CountsArrive \/ ScopeChanges \/ TreeViewArrives \/ ToggleLens \/ ToggleShowEmpty
  \/ toggleGroup \/ selectKind \/ ListArrives

(* what the panel says of the selected kind *)
effectiveAccess ==
  LET group == selectedKindGroup(Shown, sel)
  IN  IF \E k \in group : k.access = "forbidden" \/ k.count.state = "forbidden" THEN "forbidden"
      ELSE IF lazy.access \in {"forbidden", "unavailable"} THEN lazy.access
      ELSE IF ~src.all /\ entitiesForKind(memo.tree, sel) # {} THEN "allowed"
      ELSE IF lazy.access = "allowed" THEN "allowed" ELSE "as listed"

-----------------------------------------------------------------------------
(* The selection is always a kind (or the overview) of the tree that is shown,
   whatever discovery, matches, lens or filter made of the tree. *)
SelectionListed ==
  IF sel.kind = Overview THEN \E i \in DOMAIN memo.tree : memo.tree[i].id = sel.group
  ELSE selectedKindGroup(memo.tree, sel) # {}

(* A kind whose list was denied is shown as denied, also when the investigation
   has matches of it, and the panel of that kind says so too. *)
DeniedShown ==
  /\ \A i \in DOMAIN Shown : \A k \in Range(Shown[i].kinds) :
       k.id \in DOMAIN counts /\ counts[k.id].access = "forbidden" => getKindCountDisplay(k) = "denied"
  /\ sel.kind # Overview /\ sel.id \in DOMAIN counts /\ counts[sel.id].access = "forbidden" => effectiveAccess = "forbidden"

(* resourceCatalog.js: "Zero in-scope matches must not mask cluster-wide catalog
   counts": where nothing is matched a count of the cluster is in the tree. *)
CountsNotMasked ==
  src.gen > 0 =>
    \A i \in DOMAIN memo.tree : \A k \in Range(memo.tree[i].kinds) :
      k.matches = 0 /\ ~k.virtual /\ k.count.state = "loaded" => k.id \in DOMAIN src.descs /\ k.count = src.descs[k.id].count

(* A selection that moves to another category, by hand or by itself, opens that
   category; and no category closes but by its own toggle. *)
GroupsOpen ==
  [][/\ sel'.group # sel.group /\ sel'.group # NoKind => sel'.group \in sel'.open
     /\ sel.open \subseteq sel'.open \/ (sel'.open \subseteq sel.open /\ sel'.group = sel.group)]_treeVars

(* The navigation tree tells what the cluster and the matches say, and keeps the
   user's place in it. *)
TreeTrue == [](SelectionListed /\ DeniedShown /\ CountsNotMasked) /\ GroupsOpen
=============================================================================
