---------------------------- MODULE TerminalPane ----------------------------
(***************************************************************************)
(* One terminal tab's pane (components/TerminalTabPane.jsx) and its shells *)
(* in the backend (terminal.go).  Starting a session closes the one before *)
(* and asks for a new one; each is a bridge call answered later, while the *)
(* pane may be restarted, unmounted and mounted again.  A start that was   *)
(* overtaken (startGenRef) must not leave its shell behind.                *)
(***************************************************************************)
EXTENDS Naturals, FiniteSets

CONSTANTS NoShell, MaxShells, MaxStarts   \* bounds: shells started, starts under way

ASSUME PaneAssumption == NoShell \notin Nat   \* the ids of shells are numbers

VARIABLES pane,    \* [mounted, session, pending, sent, ready, connecting, known]
          frames,  \* animation frames that will start a session: [kind, sent]
          starts,  \* sessions being started or closed, one per async function under way
          shells,  \* shells running in the backend
          made,    \* number of shells started so far
          exits   \* shells whose terminal:exit event is on its way

paneVars == <<pane, frames, starts, shells, made, exits>>

(* An async function under way: what it waits for; whether it is of the mounted
   pane and no later start overtook it; its shell; tab.initialInputSent as it saw it. *)
Run(pc, id, current, sent) == [pc |-> pc, id |-> id, current |-> current, sent |-> sent]

Overtaken(rs) == {[r EXCEPT !.current = FALSE] : r \in rs}

(* closeSession: forget the shell; CloseTerminal is awaited if there was one *)
Forget(p) == [p EXCEPT !.session = NoShell]

(* what closeSession does after the await: endConnecting, report *)
AfterClose(p) == [p EXCEPT !.connecting = FALSE, !.ready = FALSE]

PaneInit == /\ pane = [mounted |-> FALSE, session |-> NoShell, pending |-> FALSE, sent |-> FALSE,
                       ready |-> FALSE, connecting |-> FALSE, known |-> FALSE]
            /\ frames = {} /\ starts = {} /\ shells = {} /\ made = 0 /\ exits = {}

(* the mount effect; a tab restored from the cache has a restart token as well *)
MountPane ==
  /\ ~pane.mounted
  /\ \E revived \in BOOLEAN :
       frames' = {[kind |-> k, sent |-> pane.sent] : k \in IF revived THEN {"boot", "restart"} ELSE {"boot"}}
  /\ pane' = [pane EXCEPT !.mounted = TRUE, !.pending = FALSE, !.ready = FALSE, !.connecting = FALSE]
  /\ UNCHANGED <<starts, shells, made, exits>>

(* Mutant: a pane that goes away forgets its shell. *)
UnmountPaneNoClose ==
  /\ pane.mounted
  /\ pane' = [Forget(pane) EXCEPT !.mounted = FALSE]
  /\ frames' = {}
  /\ starts' = Overtaken(starts)
  /\ UNCHANGED <<shells, made, exits>>

(* the mount effect's cleanup *)
UnmountPane ==
  /\ pane.mounted
  /\ pane' = [Forget(pane) EXCEPT !.mounted = FALSE]
  /\ frames' = {}
  /\ starts' = Overtaken(starts) \cup
                 (IF pane.session = NoShell THEN {} ELSE {Run("ending", pane.session, FALSE, TRUE)})
  /\ UNCHANGED <<shells, made, exits>>

(* restartTab or restartAllTabs: the effect on the token schedules a start, in
   place of one it scheduled before *)
RestartTab ==
  /\ pane.mounted
  /\ pane' = [pane EXCEPT !.ready = FALSE]
  /\ frames' = {f \in frames : f.kind = "boot"} \cup {[kind |-> "restart", sent |-> pane.sent]}
  /\ UNCHANGED <<starts, shells, made, exits>>

(* the cluster's context becomes known *)
ContextKnown ==
  /\ ~pane.known
  /\ pane' = [pane EXCEPT !.known = TRUE]
  /\ UNCHANGED <<frames, starts, shells, made, exits>>

(* startSession up to its first await *)
StartSession(f) ==
  /\ Cardinality(starts) < MaxStarts
  /\ frames' = frames \ {f}
  /\ LET next == IF pane.known THEN "closing" ELSE "ending"
         old == Overtaken(starts)
     IN IF pane.session # NoShell
        THEN /\ starts' = old \cup {Run(next, pane.session, TRUE, f.sent)}
             /\ pane' = [Forget(pane) EXCEPT !.ready = FALSE]
        ELSE /\ starts' = old \cup (IF pane.known THEN {Run("asking", NoShell, TRUE, f.sent)} ELSE {})
             /\ pane' = [AfterClose(pane) EXCEPT !.connecting = pane.known]
  /\ UNCHANGED <<shells, made, exits>>

(* CloseTerminal is handled and answered: closeSessionLocked emits terminal:exit *)
CloseAnswered(r) ==
  /\ r.pc \in {"closing", "ending", "dropping"}
  /\ shells' = shells \ {r.id}
  /\ exits' = exits \cup (IF r.id \in shells THEN {r.id} ELSE {})
  /\ IF r.pc = "closing" /\ r.current
     THEN /\ starts' = (starts \ {r}) \cup {[r EXCEPT !.pc = "asking", !.id = NoShell]}
          /\ pane' = [AfterClose(pane) EXCEPT !.connecting = TRUE]
     ELSE /\ starts' = starts \ {r}
          /\ pane' = IF r.pc # "dropping" /\ pane.mounted THEN AfterClose(pane) ELSE pane
  /\ UNCHANGED <<frames, made>>

(* terminalManager.start: a shell, or an error *)
ShellStarts(r) ==
  /\ r.pc = "asking"
  /\ \/ /\ made < MaxShells
        /\ made' = made + 1
        /\ shells' = shells \cup {made + 1}
        /\ starts' = (starts \ {r}) \cup {[r EXCEPT !.pc = "started", !.id = made + 1]}
     \/ /\ starts' = (starts \ {r}) \cup {[r EXCEPT !.pc = "failed"]}
        /\ UNCHANGED <<made, shells>>
  /\ UNCHANGED <<pane, frames, exits>>

(* startSession resumes with its shell: overtaken, it closes it; else it takes it,
   sends what was typed meanwhile, and the tab's command unless it was sent *)
StartAnswered(r) ==
  /\ r.pc = "started"
  /\ IF ~r.current
     THEN /\ starts' = (starts \ {r}) \cup {[r EXCEPT !.pc = "dropping"]}
          /\ UNCHANGED pane
     ELSE IF r.sent
     THEN /\ starts' = starts \ {r}
          /\ pane' = [pane EXCEPT !.session = r.id, !.pending = FALSE, !.ready = TRUE]
     ELSE /\ starts' = (starts \ {r}) \cup {[r EXCEPT !.pc = "writing"]}
          /\ pane' = [pane EXCEPT !.session = r.id, !.pending = FALSE]
  /\ UNCHANGED <<frames, shells, made, exits>>

StartFailed(r) ==
  /\ r.pc = "failed"
  /\ starts' = starts \ {r}
  /\ pane' = IF r.current THEN AfterClose(pane) ELSE pane
  /\ UNCHANGED <<frames, shells, made, exits>>

(* the tab's command is written: reported without asking who is current.  The
   reports of a pane that was unmounted go to a panel that no longer exists. *)
WriteAnswered(r) ==
  /\ r.pc = "writing"
  /\ starts' = starts \ {r}
  /\ pane' = IF pane.mounted THEN [pane EXCEPT !.sent = TRUE, !.ready = TRUE] ELSE pane
  /\ UNCHANGED <<frames, shells, made, exits>>

(* the shell ends by itself: waitExit *)
ShellExits(id) ==
  /\ shells' = shells \ {id}
  /\ exits' = exits \cup {id}
  /\ UNCHANGED <<pane, frames, starts, made>>

(* pumpOutput: output of the pane's own shell ends the overlay, other output is
   ignored *)
ShellWrites(id) ==
  /\ pane.mounted /\ pane.session = id /\ pane.connecting
  /\ pane' = [pane EXCEPT !.connecting = FALSE]
  /\ UNCHANGED <<frames, starts, shells, made, exits>>

(* Mutant: the pane takes the exit of another shell for its own. *)
DeliverEventAny(e) ==
  /\ exits' = exits \ {e}
  /\ pane' = IF ~pane.mounted THEN pane
             ELSE [Forget(pane) EXCEPT !.ready = FALSE, !.connecting = FALSE]
  /\ UNCHANGED <<frames, starts, shells, made>>

(* an event reaches the pane, which ignores those of other shells *)
DeliverEvent(e) ==
  /\ exits' = exits \ {e}
  /\ pane' = IF ~pane.mounted \/ e # pane.session THEN pane
             ELSE [Forget(pane) EXCEPT !.ready = FALSE, !.connecting = FALSE]
  /\ UNCHANGED <<frames, starts, shells, made>>

(* sendInput: kept until there is a shell *)
TypeInput ==
  /\ pane.mounted /\ pane.session = NoShell
  /\ pane' = [pane EXCEPT !.pending = TRUE]
  /\ UNCHANGED <<frames, starts, shells, made, exits>>

(* the overlay goes after eight seconds without output *)
ConnectingTimeout ==
  /\ pane.mounted /\ pane.connecting
  /\ pane' = [pane EXCEPT !.connecting = FALSE]
  /\ UNCHANGED <<frames, starts, shells, made, exits>>

PaneNext == \/ MountPane \/ UnmountPane \/ RestartTab \/ ContextKnown
            \/ \E f \in frames : StartSession(f)
            \/ \E r \in starts : \/ CloseAnswered(r) \/ ShellStarts(r) \/ StartAnswered(r)
                                 \/ StartFailed(r) \/ WriteAnswered(r)
            \/ \E id \in shells : ShellExits(id) \/ ShellWrites(id)
            \/ \E e \in exits : DeliverEvent(e)
            \/ TypeInput \/ ConnectingTimeout

PaneSpec == PaneInit /\ [][PaneNext]_paneVars

(* bridge calls are handled and answered *)
PaneFairness ==
  /\ WF_paneVars(\E r \in starts : CloseAnswered(r))
  /\ WF_paneVars(\E r \in starts : ShellStarts(r))
  /\ WF_paneVars(\E r \in starts : StartAnswered(r) \/ StartFailed(r) \/ WriteAnswered(r))
-----------------------------------------------------------------------------
(* No shell is left running: every one is the session of the mounted pane, or
   its start has not been answered yet, or a call that closes it is under way;
   in whatever order restarts, closes, answers and exits come. *)
NoShellLeft ==
  \A id \in shells : \/ pane.mounted /\ pane.session = id
                     \/ \E r \in starts : r.id = id /\ r.pc \in {"closing", "ending", "dropping", "started"}

(* What the user typed before the shell was there does not wait while there is
   one: it was sent to the first session the pane took. *)
TypedIsSent == pane.session # NoShell => ~pane.pending

(* A pane keeps its session until that shell itself ends or is asked to: the exit
   of an earlier shell, delivered late, does not take it away. *)
SessionKept ==
  [][pane.session # NoShell /\ pane'.session = NoShell
       => pane.session \notin shells \/ ~pane'.mounted \/ starts' # starts]_paneVars

(* A tab that was closed, or whose panel is not shown any more, comes to have no
   shell, unless it is shown again. *)
ShellsEnd == ~pane.mounted ~> (pane.mounted \/ shells = {})

(* A pane and its shell belong together: none is left behind, none is lost and
   nothing typed is (TerminalPane.jsx). *)
ShellsOwned == [](NoShellLeft /\ TypedIsSent) /\ SessionKept
=============================================================================
