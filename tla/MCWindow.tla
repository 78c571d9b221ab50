------------------------------ MODULE MCWindow ------------------------------
(***************************************************************************)
(* Instance for TLC of what a window holds for all of its pages: the       *)
(* investigation session, the console dock and the fetching hooks.  They   *)
(* share no variable, so one of them runs in each behaviour.               *)
(***************************************************************************)
EXTENDS Session, Console, FetchHooks, TLC

Symmetry == Permutations(Queries) \cup Permutations(Contexts)

MCHooks == {"status", "catalog", "overview", "priority", "manifest", "changes", "chain"}
MCGens == {1, 2}

VARIABLE area   \* the part that runs

Runs(x) == area = x /\ UNCHANGED area

WindowInit ==
  /\ area \in {"session", "console", "hooks"}
  /\ SessInit /\ ConInit /\ HookInit
  /\ area # "session" => u.cluster.ns = NoNs
  /\ area # "hooks" => hook = "status"

WindowNext ==
  \/ /\ Runs("session") /\ SessNext
     /\ UNCHANGED <<conVars, hookVars>>
  \/ /\ Runs("console") /\ ConNext
     /\ UNCHANGED <<sessVars, hookVars>>
  \/ /\ Runs("hooks") /\ HookNext
     /\ UNCHANGED <<sessVars, conVars>>
=============================================================================
