------------------------------- MODULE MCDesk -------------------------------
(***************************************************************************)
(* Instance for TLC of a window's navigation and connections: the cluster  *)
(* connection, the history of surfaces, the pickers, a terminal pane and   *)
(* the page of one kind.  One of them runs in each behaviour.              *)
(***************************************************************************)
EXTENDS ClusterConnection, Navigation, Pickers, TerminalPane, CatalogEntities

MCAnswers == {[access |-> "allowed", n |-> 1]}

VARIABLE area   \* the part that runs

Runs(x) == area = x /\ UNCHANGED area

DeskInit ==
  /\ area \in {"connection", "nav", "popover", "modal", "pane", "page"}
  /\ ConnInit /\ NavInit /\ PickInit /\ PaneInit /\ ListInit
  /\ area # "connection" => up /\ ~n.syncError /\ n.ctx = (CHOOSE c \in ConnContexts : TRUE)

DeskNext ==
  \/ /\ Runs("connection") /\ ConnNext
     /\ UNCHANGED <<navVars, pickVars, paneVars, listVars>>
  \/ /\ Runs("nav") /\ NavNext
     /\ UNCHANGED <<connVars, pickVars, paneVars, listVars>>
  \/ /\ Runs("popover") /\ PopoverNext
     /\ UNCHANGED <<connVars, navVars, paneVars, listVars>>
  \/ /\ Runs("modal") /\ ModalNext
     /\ UNCHANGED <<connVars, navVars, paneVars, listVars>>
  \/ /\ Runs("pane") /\ PaneNext
     /\ UNCHANGED <<connVars, navVars, pickVars, listVars>>
  \/ /\ Runs("page") /\ ListNext
     /\ UNCHANGED <<connVars, navVars, pickVars, paneVars>>

DeskSpec ==
  /\ DeskInit
  /\ [][DeskNext]_<<area, connVars, navVars, pickVars, paneVars, listVars>>
  /\ ConnFairness /\ PaneFairness /\ ListFairness

(* The pickers choose what the user has chosen, and a browse list shows the kind
   and scope it is asked for (ScopePickerModal.jsx, useCatalogEntities.js). *)
BrowseTrue == PickersTrue /\ ListOwn
=============================================================================
