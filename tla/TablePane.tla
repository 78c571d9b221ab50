------------------------------ MODULE TablePane -----------------------------
(***************************************************************************)
(* The table of resources and the pane it is in. Of the table, which       *)
(* columns the user chose, in which order, and how wide; of the pane       *)
(* beside the tree of kinds, the objects of the selected kind in a list    *)
(* or a table, the search and the order of rows, and the panels shown      *)
(* while nothing is listed yet, or nothing may be.                         *)
(*                                                                         *)
(* Two stores of the browser outlive the view: a list of columns and a     *)
(* layout of widths per kind. The hooks keep copies that follow the kind   *)
(* one effect late; a drag of a column's edge keeps the closures of the    *)
(* render it began in. Of widths only the columns that have one are kept:  *)
(* {} is the automatic layout.                                             *)
(***************************************************************************)
EXTENDS Integers, Sequences, FiniteSets, Functions, Kept

CONSTANTS
  Schemas,      \* [kind -> [columnOrder, defaultVisible, clusterScoped]]
  None,         \* no list stored, no drag
  PaneKinds,    \* kinds one browses
  RowNames,     \* objects of a kind the cluster holds
  FoundNames,   \* those the search box finds
  TableCols     \* sortable columns, "name" among them

VARIABLES
  browseKind,   \* [kind, scope]: what is browsed, scope "all" or "single"
  columnsHook,  \* selectedIds of useEntityTableColumns
  widthsHook,   \* [kind, widths] of useEntityTableColumnWidths
  drag,         \* None or [kind, base, moved]
  stores,       \* [columns, widths]: the browser's storage, per kind
  chosen,       \* per kind, what the user last chose: [shown, offered], or None
  paneKind,     \* the selected kind
  feed,         \* [catalog, catalogLoading, listing, rows, denied, matches]: inputs of the pane
  paneView      \* [query, all, columnId, direction]: what the user asked for

tableVars == <<browseKind, columnsHook, widthsHook, drag, stores, chosen>>
paneVars == <<paneKind, feed, paneView>>

TKinds == DOMAIN Schemas
NoWidths == {}
ColumnIds == UNION {Range(Schemas[k].columnOrder) : k \in TKinds}

(* every kind has a name column, and some kind is not of the cluster's scope *)
ASSUME ColumnAssumption ==
  /\ None \notin Seq(ColumnIds)
  /\ \A k \in TKinds : /\ Schemas[k].columnOrder \in Seq(ColumnIds) /\ Schemas[k].defaultVisible \in Seq(ColumnIds)
                       /\ "name" \in Range(Schemas[k].columnOrder)
  /\ \E k \in TKinds : ~Schemas[k].clusterScoped

ASSUME PaneAssumption == IsFiniteSet(RowNames)

-----------------------------------------------------------------------------
(* Columns *)

isClusterScopedKindGroup(kind) == Schemas[kind].clusterScoped
showsNamespaceColumn(kind, scope) == ~isClusterScopedKindGroup(kind) /\ scope = "all"

availableColumnIds(kind, scope) ==
  Keeping(Schemas[kind].columnOrder,
          {id \in ColumnIds : /\ id = "namespace" => showsNamespaceColumn(kind, scope)
                              /\ id = "node" => ~isClusterScopedKindGroup(kind)})

loadColumnPreferences(kind) == stores.columns[kind]
saveColumnPreferences(kind, ids) == IF ids = <<>> THEN stores.columns ELSE [stores.columns EXCEPT ![kind] = ids]

Only(ids, available) == Keeping(ids, Range(available))

resolveVisibleColumnIds(kind, scope, selectedIds) ==
  LET available == availableColumnIds(kind, scope)
      wanted == IF selectedIds \notin {None, <<>>} THEN selectedIds ELSE loadColumnPreferences(kind)
      stored == IF wanted = None THEN <<>> ELSE Only(wanted, available)
      visible == IF stored = <<>> THEN Only(Schemas[kind].defaultVisible, available) ELSE stored
  IN  IF "name" \in Range(visible) THEN visible ELSE <<"name">> \o visible

VisibleIds == resolveVisibleColumnIds(browseKind.kind, browseKind.scope, columnsHook)

(* the menu lists the visible columns first, in their order *)
columnPickerOrder ==
  VisibleIds \o Keeping(availableColumnIds(browseKind.kind, browseKind.scope), ColumnIds \ Range(VisibleIds))

setVisibleIds(ids) ==
  LET next == resolveVisibleColumnIds(browseKind.kind, browseKind.scope, ids)
  IN  /\ columnsHook' = next
      /\ stores' = [stores EXCEPT !.columns = saveColumnPreferences(browseKind.kind, next)]
      /\ chosen' = [chosen EXCEPT ![browseKind.kind] =
                      [shown |-> next, offered |-> Range(availableColumnIds(browseKind.kind, browseKind.scope))]]
      /\ UNCHANGED <<browseKind, widthsHook, drag>>

ToggleColumn ==
  \E id \in Range(columnPickerOrder) \ {"name"} :
    IF id \in Range(VisibleIds)
    THEN Len(VisibleIds) > 1 /\ setVisibleIds(Keeping(VisibleIds, ColumnIds \ {id}))
    ELSE setVisibleIds(Append(VisibleIds, id))

MoveColumn ==
  \E i, j \in 1..Len(VisibleIds) :
    /\ j \in {i - 1, i + 1} /\ VisibleIds[i] # "name"
    /\ setVisibleIds([VisibleIds EXCEPT ![i] = VisibleIds[j], ![j] = VisibleIds[i]])

-----------------------------------------------------------------------------
(* Widths *)

(* widths the table is drawn with: none while the hook still holds another kind's *)
Widths == IF widthsHook.kind = browseKind.kind THEN widthsHook.widths ELSE NoWidths

LayoutIds == Range(VisibleIds) \cup {"__actions"}
(* every column of the table gets a width, saved or as it is laid out; no other does *)
frozenWidths == LayoutIds

loadColumnWidths(kind) == stores.widths[kind]
saveColumnWidths(kind, widths) == [stores EXCEPT !.widths[kind] = widths]

DragBegins ==
  /\ drag = None
  /\ drag' = [kind |-> browseKind.kind, base |-> frozenWidths, moved |-> FALSE]
  /\ UNCHANGED <<browseKind, columnsHook, widthsHook, stores, chosen>>

(* a frame of the drag sets the hook's state for the kind it began on; after a change of
   kind the effect loads that kind's widths again *)
DragMoves ==
  /\ drag # None
  /\ widthsHook' = IF drag.kind = browseKind.kind
                    THEN [kind |-> drag.kind, widths |-> drag.base]
                    ELSE [kind |-> browseKind.kind, widths |-> loadColumnWidths(browseKind.kind)]
  /\ drag' = [drag EXCEPT !.moved = TRUE]
  /\ UNCHANGED <<browseKind, columnsHook, stores, chosen>>

(* commitWidths of the render the drag began in, with the widths of the last one *)
DragEnds ==
  /\ drag # None
  /\ stores' = IF drag.moved THEN saveColumnWidths(drag.kind, Widths) ELSE stores
  /\ drag' = None
  /\ UNCHANGED <<browseKind, columnsHook, widthsHook, chosen>>

setWidths(widths) ==
  /\ widthsHook' = [kind |-> browseKind.kind, widths |-> widths]
  /\ stores' = saveColumnWidths(browseKind.kind, widths)
  /\ UNCHANGED <<browseKind, columnsHook, drag, chosen>>

(* a double click or a key on the grip *)
FitColumn == drag = None /\ setWidths(frozenWidths)

AutoWidths == drag = None /\ Widths # NoWidths /\ setWidths(NoWidths)

-----------------------------------------------------------------------------
(* The kind and the scope *)

(* Mutant: the columns of the last kind stay selected. *)
SelectKindKeeps ==
  /\ \E k \in TKinds \ {browseKind.kind} :
       /\ browseKind' = [browseKind EXCEPT !.kind = k]
       /\ widthsHook' = [kind |-> k, widths |-> loadColumnWidths(k)]
  /\ UNCHANGED <<columnsHook, drag, stores, chosen>>

(* the user picks a kind, or a new catalog lacks the selected one; the effects of the hooks *)
SelectKind ==
  /\ \E k \in TKinds \ {browseKind.kind} :
       /\ browseKind' = [browseKind EXCEPT !.kind = k]
       /\ widthsHook' = [kind |-> k, widths |-> loadColumnWidths(k)]
  /\ columnsHook' = None
  /\ UNCHANGED <<drag, stores, chosen>>

(* by the picker, or by a click on a row's namespace *)
SwitchScope ==
  /\ browseKind' = [browseKind EXCEPT !.scope = IF @ = "all" THEN "single" ELSE "all"]
  /\ UNCHANGED <<columnsHook, widthsHook, drag, stores, chosen>>

(* the view is left and opened again: the hooks begin from the stores *)
ReopenTable ==
  /\ drag = None
  /\ columnsHook' = None /\ widthsHook' = [kind |-> browseKind.kind, widths |-> loadColumnWidths(browseKind.kind)]
  /\ UNCHANGED <<browseKind, drag, stores, chosen>>

-----------------------------------------------------------------------------
TableInit ==
  /\ browseKind = [kind |-> CHOOSE k \in TKinds : ~Schemas[k].clusterScoped, scope |-> "all"]
  /\ columnsHook = None /\ widthsHook = [kind |-> browseKind.kind, widths |-> NoWidths]
  /\ drag = None
  /\ stores = [columns |-> [k \in TKinds |-> None], widths |-> [k \in TKinds |-> NoWidths]]
  /\ chosen = [k \in TKinds |-> None]

TableNext ==
  \/ ToggleColumn \/ MoveColumn \/ DragBegins \/ DragMoves \/ DragEnds \/ FitColumn \/ AutoWidths
  \/ SelectKind \/ SwitchScope \/ ReopenTable

ColumnSpec == TableInit /\ [][TableNext]_tableVars

-----------------------------------------------------------------------------
(* A column on offer when the user last chose the columns of the kind is shown
   if and only if it was among those chosen, and in their order; whatever kinds
   and scopes were visited since. *)
ChoiceKept ==
  LET c == chosen[browseKind.kind]
      now == Range(availableColumnIds(browseKind.kind, browseKind.scope))
  IN  c # None => Keeping(VisibleIds, c.offered) = Keeping(c.shown, now)


-----------------------------------------------------------------------------
(* Rows of the pane *)

(* a row is [name, from]: the catalog's answer, or what the investigation found *)
CatalogRows == [name : feed.rows, from : {"catalog"}]

(* matches take what the catalog lists of them *)
resolveDisplayEntities ==
  IF paneView.all \/ feed.matches = {} THEN CatalogRows
  ELSE {r \in CatalogRows : r.name \in feed.matches} \cup [name : feed.matches \ feed.rows, from : {"match"}]

Displayed == resolveDisplayEntities
Filtered == {r \in Displayed : paneView.query => r.name \in FoundNames}

(* the order of rows; a new kind is in the order of names *)
NameOrder == [columnId |-> "name", direction |-> "asc"]
Ordered(v, o) == [v EXCEPT !.columnId = o.columnId, !.direction = o.direction]

HandleSort ==
  /\ \E col \in TableCols :
       paneView' = Ordered(paneView, IF paneView.columnId = col
                                     THEN [columnId |-> col, direction |-> IF paneView.direction = "asc" THEN "desc" ELSE "asc"]
                                     ELSE [columnId |-> col, direction |-> "asc"])
  /\ UNCHANGED <<paneKind, feed>>

-----------------------------------------------------------------------------
(* What the pane shows *)

canLazyLoad == feed.catalog /\ ~feed.denied
EntitiesLoading == feed.listing /\ canLazyLoad /\ Displayed = {}
DiscoveringCatalog == feed.catalogLoading /\ ~feed.catalog
ResourceCenterLoading == EntitiesLoading \/ DiscoveringCatalog
CenterLoading == ResourceCenterLoading \/ (EntitiesLoading /\ Filtered = {})
AccessBlocked == Displayed = {} /\ ~EntitiesLoading /\ ~ResourceCenterLoading /\ ~feed.catalogLoading /\ feed.denied

EntityList ==
  IF AccessBlocked THEN "access"
  ELSE IF CenterLoading THEN "loading"
  ELSE IF Filtered = {} /\ ~EntitiesLoading THEN IF paneView.query THEN "no matches" ELSE "no objects"
  ELSE "rows"

(* the table keeps its header when it has no rows, and tells only of a search without result *)
EntityTable ==
  IF AccessBlocked THEN "access"
  ELSE IF CenterLoading THEN "loading"
  ELSE IF ~EntitiesLoading /\ Filtered = {} /\ paneView.query THEN "no matches" ELSE "rows"

EntityCount == IF EntitiesLoading /\ Displayed = {} THEN -1 ELSE Cardinality(Displayed)

(* the rows of the focus chain have no search, no catalog and no access to lack *)
ScopePanel(chain) == IF chain # {} THEN chain ELSE Filtered

-----------------------------------------------------------------------------
PaneSelectKind ==
  /\ paneKind' \in PaneKinds \ {paneKind}
  /\ feed' = [feed EXCEPT !.listing = TRUE, !.rows = {}, !.denied = FALSE, !.matches = {}]
  /\ paneView' = Ordered([paneView EXCEPT !.query = FALSE], NameOrder)

Search == paneView' = [paneView EXCEPT !.query = ~@] /\ UNCHANGED <<paneKind, feed>>

SwitchLens == paneView' = [paneView EXCEPT !.all = ~@] /\ UNCHANGED <<paneKind, feed>>

(* the catalog is discovered, and read again *)
CatalogReads ==
  /\ feed' = IF feed.catalogLoading THEN [feed EXCEPT !.catalog = TRUE, !.catalogLoading = FALSE]
             ELSE [feed EXCEPT !.catalogLoading = TRUE]
  /\ UNCHANGED <<paneKind, paneView>>

(* useCatalogEntities: rows, or a refusal; rows stay while a refresh runs *)
ListAnswers ==
  /\ canLazyLoad /\ feed.listing
  /\ \/ \E s \in SUBSET RowNames : feed' = [feed EXCEPT !.rows = s, !.listing = FALSE]
     \/ feed' = [feed EXCEPT !.denied = TRUE, !.rows = {}, !.listing = FALSE]
  /\ UNCHANGED <<paneKind, paneView>>

ListRefreshes == ~feed.listing /\ feed' = [feed EXCEPT !.listing = TRUE, !.denied = FALSE] /\ UNCHANGED <<paneKind, paneView>>

FoundChanges ==
  /\ \E s \in SUBSET RowNames : s # feed.matches /\ feed' = [feed EXCEPT !.matches = s]
  /\ UNCHANGED <<paneKind, paneView>>

PaneInit ==
  /\ paneKind = CHOOSE k \in PaneKinds : TRUE
  /\ feed = [catalog |-> FALSE, catalogLoading |-> TRUE, listing |-> TRUE, rows |-> {}, denied |-> FALSE, matches |-> {}]
  /\ paneView = [query |-> FALSE, all |-> FALSE, columnId |-> "name", direction |-> "asc"]

PaneNext ==
  \/ PaneSelectKind \/ Search \/ SwitchLens \/ HandleSort
  \/ CatalogReads \/ ListAnswers \/ ListRefreshes \/ FoundChanges

PaneSpec == PaneInit /\ [][PaneNext]_paneVars

-----------------------------------------------------------------------------
(* An object that is displayed and found by the search is on a row, in the list and in
   the table, unless the APIs of the cluster are being discovered; what the cluster has
   answered of it is what the row tells. *)
RowsReachable ==
  /\ Filtered # {} /\ ~DiscoveringCatalog => EntityList = "rows" /\ EntityTable = "rows"
  /\ \A r \in ScopePanel({}) : r.name \in feed.rows => r.from = "catalog"

(* The pane tells that there are no objects, or that a search finds none, only when the
   list has been read or cannot be read; a pane of no rows says why, the table's header
   without rows excepted. *)
EmptyHonest ==
  /\ EntityList \in {"no objects", "no matches"} => Filtered = {} /\ (~feed.listing \/ ~canLazyLoad \/ Displayed # {})
  /\ EntityList = "rows" => Filtered # {}
  /\ EntityCount = -1 => EntityTable = "loading"
=============================================================================
