---------------------------- MODULE ManagerProofs ----------------------------
(***************************************************************************)
(* Proofs about Manager, for any windows, contexts and bounds: one recorder *)
(* per cluster, no lock left behind, and a clear that runs alone.          *)
(***************************************************************************)
EXTENDS Manager, TLAPS

\* Whatever a window runs, is about to run or is halting, it has locked.
Owns == \A w \in Windows, c \in Contexts : Accounted(w, c) => lock[c] = w

\* A recorder that has not returned is in m.running or in some halt's hands.
AliveHeld ==
    \A w \in Windows : \A c \in alive[w] : c \in running[w] \/ \E a \in Actors : c \in stopping[w][a]

\* It is in one place only, so the one that releases the lock is the last.
OnePlace ==
    \A w \in Windows :
        /\ running[w] \cap acquired[w] = {}
        /\ \A a \in Actors : stopping[w][a] \cap (running[w] \cup acquired[w]) = {}
        /\ \A a, b \in Actors : a # b => stopping[w][a] \cap stopping[w][b] = {}
        /\ \A c, d \in acquired[w] : c = d

\* What reconcileMu and the phases of the three goroutines guarantee.
Phases ==
    \A w \in Windows :
        /\ mutex[w] = "op" <=> op[w] # "idle"
        /\ mutex[w] = "loop" <=> loop[w] \in {"load", "adopt", "plan", "act"}
        /\ loop[w] # "act" => stopping[w]["loop"] = {} /\ acquired[w] = {}
        /\ op[w] \in {"idle", "delete"} => stopping[w]["op"] = {}
        /\ op[w] # "idle" => running[w] = {}
        /\ closer[w] # "halt" => stopping[w]["close"] = {}
        /\ life[w] # "closing" => closer[w] = "no"

IndInv == TypeOK /\ Owns /\ AliveHeld /\ OnePlace /\ Phases /\ NoLeakedLock

-------------------------------------------------------------------------------
(* Types.                                                                  *)

\* Initially every variable has its type.
LEMMA InitType == Init => TypeOK
  BY ManagerAssumption DEF Init, TypeOK, Nothing, Unblocked, Actors

\* Every step keeps the types.
LEMMA NextType == TypeOK /\ [Next]_vars => TypeOK'
  <1>. SUFFICES ASSUME TypeOK, [Next]_vars PROVE TypeOK'
    OBVIOUS
  <1>. USE DEF TypeOK, confVars, recVars, loopVars, closeVars, bounds
  <1>1. ASSUME NEW w \in Windows, Open(w) PROVE TypeOK'
    BY <1>1 DEF Open
  <1>2. ASSUME NEW w \in Windows, Crash(w) PROVE TypeOK'
    BY <1>2 DEF Crash, Gone, Unblocked
  <1>3. ASSUME NEW w \in Windows, Exit(w) PROVE TypeOK'
    BY <1>3 DEF Exit, Gone, Unblocked
  <1>4. ASSUME NEW w \in Windows, NEW s \in SUBSET Contexts, SetWanted(w, s) PROVE TypeOK'
    BY <1>4 DEF SetWanted
  <1>5. ASSUME NEW w \in Windows, NEW s \in {"on", "off"}, SaveSettings(w, s) PROVE TypeOK'
    BY <1>5 DEF SaveSettings
  <1>6. ASSUME NEW w \in Windows, ApplySettings(w) PROVE TypeOK'
    BY <1>6 DEF ApplySettings
  <1>7. ASSUME NEW w \in Windows, NEW c \in Contexts, RecorderExit(w, c) PROVE TypeOK'
    BY <1>7 DEF RecorderExit
  <1>8. ASSUME NEW w \in Windows, NEW a \in Actors, NEW c \in Contexts, HaltCancel(w, a, c) PROVE TypeOK'
    BY <1>8 DEF HaltCancel
  <1>9. ASSUME NEW w \in Windows, NEW a \in Actors, NEW c \in Contexts, HaltRelease(w, a, c) PROVE TypeOK'
    BY <1>9 DEF HaltRelease
  <1>10. ASSUME NEW w \in Windows, LoopTick(w) PROVE TypeOK'
    BY <1>10 DEF LoopTick
  <1>11. ASSUME NEW w \in Windows, LoopBegin(w) PROVE TypeOK'
    BY <1>11 DEF LoopBegin
  <1>12. ASSUME NEW w \in Windows, LoopLoad(w) PROVE TypeOK'
    BY <1>12 DEF LoopLoad
  <1>13. ASSUME NEW w \in Windows, LoopAdopt(w) PROVE TypeOK'
    BY <1>13 DEF LoopAdopt
  <1>14. ASSUME NEW w \in Windows, LoopPlan(w) PROVE TypeOK'
    BY <1>14 DEF LoopPlan, Desired, Actors
  <1>15. ASSUME NEW w \in Windows, NEW c \in Contexts, LoopAcquire(w, c) PROVE TypeOK'
    <2>1. /\ starts' = [starts EXCEPT ![w] = @ \ {c}]
          /\ UNCHANGED <<confVars, running, alive, cancelled, mutex, loop, loaded, stopping, op, closeVars, ops, exits>>
      BY <1>15 DEF LoopAcquire
    <2>2. CASE UNCHANGED <<blocked, changes>> /\ lock' = [lock EXCEPT ![c] = w] /\ acquired' = [acquired EXCEPT ![w] = {c}]
      BY <2>1, <2>2
    <2>3. CASE UNCHANGED <<lock, acquired, changes>> /\ blocked' = [blocked EXCEPT ![w][c] = "other"]
      BY <2>1, <2>3
    <2>4. CASE changes' = changes + 1 /\ blocked' = [blocked EXCEPT ![w][c] = "unavailable"] /\ UNCHANGED <<lock, acquired>>
      BY <2>1, <2>4
    <2>. HIDE DEF TypeOK
    <2>. QED  BY <1>15, <2>2, <2>3, <2>4 DEF LoopAcquire
  <1>16. ASSUME NEW w \in Windows, NEW c \in Contexts, LoopRegister(w, c) PROVE TypeOK'
    <2>1. /\ acquired' = [acquired EXCEPT ![w] = {}]
          /\ UNCHANGED <<confVars, cancelled, mutex, loop, loaded, stopping, starts, op, closeVars, bounds>>
      BY <1>16 DEF LoopRegister
    <2>2. CASE lock' = [lock EXCEPT ![c] = None] /\ UNCHANGED <<running, alive, blocked>>
      BY <2>1, <2>2
    <2>3. CASE /\ running' = [running EXCEPT ![w] = @ \cup {c}] /\ alive' = [alive EXCEPT ![w] = @ \cup {c}]
               /\ blocked' = [blocked EXCEPT ![w][c] = "no"] /\ UNCHANGED lock
      BY <2>1, <2>3
    <2>. HIDE DEF TypeOK
    <2>. QED  BY <1>16, <2>2, <2>3 DEF LoopRegister
  <1>17. ASSUME NEW w \in Windows, LoopEnd(w) PROVE TypeOK'
    BY <1>17 DEF LoopEnd
  <1>18. ASSUME NEW w \in Windows, LoopExit(w) PROVE TypeOK'
    BY <1>18 DEF LoopExit
  <1>19. ASSUME NEW w \in Windows, NEW kind \in {"clear", "restart"}, OpBegin(w, kind) PROVE TypeOK'
    BY <1>19 DEF OpBegin, TakeAll, Actors
  <1>20. ASSUME NEW w \in Windows, OpHalted(w) PROVE TypeOK'
    BY <1>20 DEF OpHalted
  <1>21. ASSUME NEW w \in Windows, OpEnd(w) PROVE TypeOK'
    BY <1>21 DEF OpEnd, Unblocked
  <1>22. ASSUME NEW w \in Windows, CloseBegin(w) PROVE TypeOK'
    BY <1>22 DEF CloseBegin
  <1>23. ASSUME NEW w \in Windows, CloseStopAll(w) PROVE TypeOK'
    BY <1>23 DEF CloseStopAll, TakeAll, Actors
  <1>24. ASSUME NEW w \in Windows, CloseStore(w) PROVE TypeOK'
    BY <1>24 DEF CloseStore
  <1>25. CASE UNCHANGED vars
    BY <1>25 DEF vars
  <1>. QED
    BY <1>1, <1>2, <1>3, <1>4, <1>5, <1>6, <1>7, <1>8, <1>9, <1>10, <1>11, <1>12, <1>13, <1>14, <1>15, <1>16, <1>17, <1>18, <1>19, <1>20, <1>21, <1>22, <1>23, <1>24, <1>25
    DEF Next, UserNext, LoopNext, HaltNext, OpNext, CloseNext

-------------------------------------------------------------------------------
(* The phases of the goroutines.                                           *)

\* Initially nothing runs and nothing is locked.
LEMMA InitInd == Init => IndInv
  BY InitType, ManagerAssumption
  DEF Init, IndInv, Owns, AliveHeld, OnePlace, Phases, NoLeakedLock, Accounted, Nothing, Actors

\* Every step keeps the phases consistent with reconcileMu.
LEMMA NextPhases == IndInv /\ [Next]_vars => Phases'
  <1>. SUFFICES ASSUME IndInv, [Next]_vars PROVE Phases'
    OBVIOUS
  <1>. USE DEF IndInv, Phases, Actors, TypeOK, confVars, recVars, loopVars, closeVars, bounds
  <1>1. ASSUME NEW w \in Windows, Open(w) PROVE Phases'
    BY <1>1 DEF Open
  <1>2. ASSUME NEW w \in Windows, Crash(w) PROVE Phases'
    BY <1>2 DEF Crash, Gone
  <1>3. ASSUME NEW w \in Windows, Exit(w) PROVE Phases'
    BY <1>3 DEF Exit, Gone
  <1>4. ASSUME NEW w \in Windows, NEW s \in SUBSET Contexts, SetWanted(w, s) PROVE Phases'
    BY <1>4 DEF SetWanted
  <1>5. ASSUME NEW w \in Windows, NEW s \in {"on", "off"}, SaveSettings(w, s) PROVE Phases'
    BY <1>5 DEF SaveSettings
  <1>6. ASSUME NEW w \in Windows, ApplySettings(w) PROVE Phases'
    BY <1>6 DEF ApplySettings
  <1>7. ASSUME NEW w \in Windows, NEW c \in Contexts, RecorderExit(w, c) PROVE Phases'
    BY <1>7 DEF RecorderExit
  <1>8. ASSUME NEW w \in Windows, NEW a \in Actors, NEW c \in Contexts, HaltCancel(w, a, c) PROVE Phases'
    BY <1>8 DEF HaltCancel
  <1>9. ASSUME NEW w \in Windows, NEW a \in Actors, NEW c \in Contexts, HaltRelease(w, a, c) PROVE Phases'
    BY <1>9 DEF HaltRelease
  <1>10. ASSUME NEW w \in Windows, LoopTick(w) PROVE Phases'
    BY <1>10 DEF LoopTick
  <1>11. ASSUME NEW w \in Windows, LoopBegin(w) PROVE Phases'
    BY <1>11 DEF LoopBegin
  <1>12. ASSUME NEW w \in Windows, LoopLoad(w) PROVE Phases'
    BY <1>12 DEF LoopLoad
  <1>13. ASSUME NEW w \in Windows, LoopAdopt(w) PROVE Phases'
    BY <1>13 DEF LoopAdopt
  <1>14. ASSUME NEW w \in Windows, LoopPlan(w) PROVE Phases'
    BY <1>14 DEF LoopPlan
  <1>15. ASSUME NEW w \in Windows, NEW c \in Contexts, LoopAcquire(w, c) PROVE Phases'
    <2>1. /\ loop[w] = "act" /\ UNCHANGED <<running, mutex, loop, stopping, op, closer, life>>
      BY <1>15 DEF LoopAcquire
    <2>2. CASE acquired' = acquired
      BY <2>1, <2>2
    <2>3. CASE acquired' = [acquired EXCEPT ![w] = {c}]
      BY <2>1, <2>3
    <2>. HIDE DEF Phases
    <2>. QED  BY <1>15, <2>2, <2>3 DEF LoopAcquire
  <1>16. ASSUME NEW w \in Windows, NEW c \in Contexts, LoopRegister(w, c) PROVE Phases'
    BY <1>16 DEF LoopRegister
  <1>17. ASSUME NEW w \in Windows, LoopEnd(w) PROVE Phases'
    BY <1>17 DEF LoopEnd
  <1>18. ASSUME NEW w \in Windows, LoopExit(w) PROVE Phases'
    BY <1>18 DEF LoopExit
  <1>19. ASSUME NEW w \in Windows, NEW kind \in {"clear", "restart"}, OpBegin(w, kind) PROVE Phases'
    BY <1>19 DEF OpBegin, TakeAll
  <1>20. ASSUME NEW w \in Windows, OpHalted(w) PROVE Phases'
    BY <1>20 DEF OpHalted
  <1>21. ASSUME NEW w \in Windows, OpEnd(w) PROVE Phases'
    BY <1>21 DEF OpEnd
  <1>22. ASSUME NEW w \in Windows, CloseBegin(w) PROVE Phases'
    BY <1>22 DEF CloseBegin
  <1>23. ASSUME NEW w \in Windows, CloseStopAll(w) PROVE Phases'
    BY <1>23 DEF CloseStopAll, TakeAll
  <1>24. ASSUME NEW w \in Windows, CloseStore(w) PROVE Phases'
    BY <1>24 DEF CloseStore
  <1>25. CASE UNCHANGED vars
    BY <1>25 DEF vars
  <1>. HIDE DEF IndInv, Phases, Actors, TypeOK, confVars, recVars, loopVars, closeVars, bounds
  <1>. QED
    BY <1>1, <1>2, <1>3, <1>4, <1>5, <1>6, <1>7, <1>8, <1>9, <1>10, <1>11, <1>12, <1>13, <1>14, <1>15, <1>16, <1>17, <1>18, <1>19, <1>20, <1>21, <1>22, <1>23, <1>24, <1>25
    DEF Next, UserNext, LoopNext, HaltNext, OpNext, CloseNext

-------------------------------------------------------------------------------
(* Who holds which lock.                                                   *)

Held == Owns /\ AliveHeld /\ OnePlace /\ NoLeakedLock

\* A window's exit takes its locks and its recorders with it.
LEMMA GoneHeld == ASSUME IndInv, NEW w \in Windows, Gone(w) PROVE Held'
  <1>. USE DEF IndInv, TypeOK, Gone
  <1>1. Owns'
    BY DEF Owns, Accounted, Actors
  <1>2. AliveHeld'
    BY DEF AliveHeld, Actors
  <1>3. OnePlace'
    BY DEF OnePlace, Actors
  <1>4. NoLeakedLock'
    BY ManagerAssumption DEF NoLeakedLock, Accounted, Actors
  <1>. QED  BY <1>1, <1>2, <1>3, <1>4 DEF Held

\* stopAll hands every running recorder to one goroutine that has none left to halt.
LEMMA TakeAllHeld ==
  ASSUME IndInv, NEW w \in Windows, NEW a \in Actors, TakeAll(w, a), stopping[w][a] = {},
         UNCHANGED <<alive, lock, acquired>>
  PROVE  Held'
  <1>. USE DEF IndInv, TypeOK, TakeAll
  <1>1. Owns'
    BY DEF Owns, Accounted
  <1>2. AliveHeld'
    BY DEF AliveHeld
  <1>3. OnePlace'
    BY DEF OnePlace
  <1>4. NoLeakedLock'
    BY DEF NoLeakedLock, Accounted
  <1>. QED  BY <1>1, <1>2, <1>3, <1>4 DEF Held

\* A step that moves no recorder and no lock.
LEMMA QuietHeld ==
  ASSUME IndInv, UNCHANGED <<running, alive, lock, acquired, stopping>> PROVE Held'
  BY DEF IndInv, Held, Owns, AliveHeld, OnePlace, NoLeakedLock, Accounted

\* halt releases a lock when its recorder has returned and nobody else holds it.
LEMMA ReleaseHeld ==
  ASSUME IndInv, NEW w \in Windows, NEW a \in Actors, NEW c \in Contexts, HaltRelease(w, a, c)
  PROVE  Held'
  <1>. USE DEF IndInv, TypeOK
  <1>0. /\ c \in stopping[w][a] /\ c \notin alive[w] /\ lock' = [lock EXCEPT ![c] = None]
        /\ stopping' = [stopping EXCEPT ![w][a] = @ \ {c}] /\ UNCHANGED <<running, alive, acquired>>
    BY DEF HaltRelease, loopVars
  <1>1. lock[c] = w
    BY <1>0 DEF Owns, Accounted
  <1>2. \A v \in Windows, d \in Contexts : Accounted(v, d)' => Accounted(v, d)
    BY <1>0 DEF Accounted
  <1>3. \A v \in Windows : ~ Accounted(v, c)'
    <2>. SUFFICES ASSUME NEW v \in Windows, Accounted(v, c)' PROVE FALSE
      OBVIOUS
    <2>1. v = w
      BY <1>1, <1>2 DEF Owns
    <2>. QED  BY <1>0, <2>1 DEF Accounted, OnePlace
  <1>4. \A v \in Windows, d \in Contexts : d # c /\ Accounted(v, d) => Accounted(v, d)'
    BY <1>0 DEF Accounted
  <1>5. Owns'
    BY <1>0, <1>2, <1>3 DEF Owns
  <1>6. AliveHeld'
    BY <1>0 DEF AliveHeld
  <1>7. OnePlace'
    <2>1. \A v \in Windows, b \in Actors : stopping'[v][b] \subseteq stopping[v][b]
      BY <1>0
    <2>. QED  BY <1>0, <2>1 DEF OnePlace
  <1>8. NoLeakedLock'
    BY <1>0, <1>4 DEF NoLeakedLock
  <1>. QED  BY <1>5, <1>6, <1>7, <1>8 DEF Held

\* reconcile hands the recorders no longer wanted to its own halts.
LEMMA PlanHeld == ASSUME IndInv, NEW w \in Windows, LoopPlan(w) PROVE Held'
  <1>. USE DEF IndInv, TypeOK, LoopPlan, Actors
  <1>0. stopping[w]["loop"] = {}
    BY DEF Phases
  <1>1. Owns'
    BY <1>0 DEF Owns, Accounted
  <1>2. AliveHeld'
    BY <1>0 DEF AliveHeld
  <1>3. OnePlace'
    BY <1>0 DEF OnePlace
  <1>4. NoLeakedLock'
    BY <1>0 DEF NoLeakedLock, Accounted
  <1>. QED  BY <1>1, <1>2, <1>3, <1>4 DEF Held

\* AcquireLock takes a lock only when it is free, so no window holds the context.
LEMMA AcquireHeld ==
  ASSUME IndInv, NEW w \in Windows, NEW c \in Contexts, LoopAcquire(w, c) PROVE Held'
  <1>1. CASE UNCHANGED <<lock, acquired>>
    BY <1>1, QuietHeld DEF LoopAcquire
  <1>2. CASE /\ lock[c] = None /\ lock' = [lock EXCEPT ![c] = w]
             /\ acquired' = [acquired EXCEPT ![w] = {c}]
    <2>. USE <1>2 DEF IndInv, TypeOK
    <2>0. acquired[w] = {} /\ UNCHANGED <<running, alive, stopping>>
      BY DEF LoopAcquire
    <2>1. \A v \in Windows : ~ Accounted(v, c)
      BY ManagerAssumption DEF Owns
    <2>2. Owns'
      BY <2>0, <2>1 DEF Owns, Accounted
    <2>3. AliveHeld'
      BY <2>0 DEF AliveHeld
    <2>4. OnePlace'
      BY <2>0, <2>1 DEF OnePlace, Accounted
    <2>5. NoLeakedLock'
      BY <2>0 DEF NoLeakedLock, Accounted
    <2>. QED  BY <2>2, <2>3, <2>4, <2>5 DEF Held
  <1>. QED  BY <1>1, <1>2 DEF LoopAcquire

\* startContext registers the recorder it locked for, or gives the lock back.
LEMMA RegisterHeld ==
  ASSUME IndInv, NEW w \in Windows, NEW c \in Contexts, LoopRegister(w, c) PROVE Held'
  <1>. USE DEF IndInv, TypeOK
  <1>0. /\ c \in acquired[w] /\ acquired[w] = {c} /\ acquired' = [acquired EXCEPT ![w] = {}]
        /\ UNCHANGED stopping
    BY DEF LoopRegister, OnePlace
  <1>1. CASE lock' = [lock EXCEPT ![c] = None] /\ UNCHANGED <<running, alive>>
    <2>. USE <1>0, <1>1
    <2>1. Owns'
      <3>1. \A v \in Windows, d \in Contexts : Accounted(v, d)' => Accounted(v, d)
        BY DEF Accounted
      <3>2. \A v \in Windows : Accounted(v, c) => v = w
        <4>1. Accounted(w, c)
          BY DEF Accounted
        <4>2. Owns
          OBVIOUS
        <4>. HIDE DEF IndInv, TypeOK
        <4>. QED  BY <4>1, <4>2 DEF Owns
      <3>3. ~ Accounted(w, c)'
        BY DEF OnePlace, Accounted
      <3>. QED  BY <3>1, <3>2, <3>3 DEF Owns
    <2>2. AliveHeld'
      BY DEF AliveHeld
    <2>3. OnePlace'
      BY DEF OnePlace
    <2>4. NoLeakedLock'
      BY DEF NoLeakedLock, Accounted
    <2>. QED  BY <2>1, <2>2, <2>3, <2>4 DEF Held
  <1>2. CASE /\ running' = [running EXCEPT ![w] = @ \cup {c}]
             /\ alive' = [alive EXCEPT ![w] = @ \cup {c}] /\ UNCHANGED lock
    <2>. USE <1>0, <1>2
    <2>1. Owns'
      BY DEF Owns, Accounted
    <2>2. AliveHeld'
      BY DEF AliveHeld
    <2>3. OnePlace'
      BY DEF OnePlace
    <2>4. NoLeakedLock'
      BY DEF NoLeakedLock, Accounted
    <2>. QED  BY <2>1, <2>2, <2>3, <2>4 DEF Held
  <1>. QED  BY <1>1, <1>2 DEF LoopRegister

\* Every step keeps locks, recorders and their holders in step.
LEMMA NextHeld == IndInv /\ [Next]_vars => Held'
  <1>. SUFFICES ASSUME IndInv, [Next]_vars PROVE Held'
    OBVIOUS
  <1>. USE DEF confVars, recVars, loopVars, closeVars, bounds
  <1>1. ASSUME NEW w \in Windows, Open(w) PROVE Held'
    BY <1>1, QuietHeld DEF Open
  <1>2. ASSUME NEW w \in Windows, Crash(w) PROVE Held'
    BY <1>2, GoneHeld DEF Crash
  <1>3. ASSUME NEW w \in Windows, Exit(w) PROVE Held'
    BY <1>3, GoneHeld DEF Exit
  <1>4. ASSUME NEW w \in Windows, NEW s \in SUBSET Contexts, SetWanted(w, s) PROVE Held'
    BY <1>4, QuietHeld DEF SetWanted
  <1>5. ASSUME NEW w \in Windows, NEW s \in {"on", "off"}, SaveSettings(w, s) PROVE Held'
    BY <1>5, QuietHeld DEF SaveSettings
  <1>6. ASSUME NEW w \in Windows, ApplySettings(w) PROVE Held'
    BY <1>6, QuietHeld DEF ApplySettings
  <1>7. ASSUME NEW w \in Windows, NEW c \in Contexts, RecorderExit(w, c) PROVE Held'
    BY <1>7 DEF RecorderExit, IndInv, TypeOK, Held, Owns, AliveHeld, OnePlace, NoLeakedLock, Accounted
  <1>8. ASSUME NEW w \in Windows, NEW a \in Actors, NEW c \in Contexts, HaltCancel(w, a, c) PROVE Held'
    BY <1>8, QuietHeld DEF HaltCancel
  <1>9. ASSUME NEW w \in Windows, NEW a \in Actors, NEW c \in Contexts, HaltRelease(w, a, c) PROVE Held'
    BY <1>9, ReleaseHeld
  <1>10. ASSUME NEW w \in Windows, LoopTick(w) PROVE Held'
    BY <1>10, QuietHeld DEF LoopTick
  <1>11. ASSUME NEW w \in Windows, LoopBegin(w) PROVE Held'
    BY <1>11, QuietHeld DEF LoopBegin
  <1>12. ASSUME NEW w \in Windows, LoopLoad(w) PROVE Held'
    BY <1>12, QuietHeld DEF LoopLoad
  <1>13. ASSUME NEW w \in Windows, LoopAdopt(w) PROVE Held'
    BY <1>13, QuietHeld DEF LoopAdopt
  <1>14. ASSUME NEW w \in Windows, LoopPlan(w) PROVE Held'
    BY <1>14, PlanHeld
  <1>15. ASSUME NEW w \in Windows, NEW c \in Contexts, LoopAcquire(w, c) PROVE Held'
    BY <1>15, AcquireHeld
  <1>16. ASSUME NEW w \in Windows, NEW c \in Contexts, LoopRegister(w, c) PROVE Held'
    BY <1>16, RegisterHeld
  <1>17. ASSUME NEW w \in Windows, LoopEnd(w) PROVE Held'
    BY <1>17, QuietHeld DEF LoopEnd
  <1>18. ASSUME NEW w \in Windows, LoopExit(w) PROVE Held'
    BY <1>18, QuietHeld DEF LoopExit
  <1>19. ASSUME NEW w \in Windows, NEW kind \in {"clear", "restart"}, OpBegin(w, kind) PROVE Held'
    BY <1>19, TakeAllHeld DEF OpBegin, IndInv, Phases, Actors
  <1>20. ASSUME NEW w \in Windows, OpHalted(w) PROVE Held'
    BY <1>20, QuietHeld DEF OpHalted
  <1>21. ASSUME NEW w \in Windows, OpEnd(w) PROVE Held'
    BY <1>21, QuietHeld DEF OpEnd
  <1>22. ASSUME NEW w \in Windows, CloseBegin(w) PROVE Held'
    BY <1>22, QuietHeld DEF CloseBegin
  <1>23. ASSUME NEW w \in Windows, CloseStopAll(w) PROVE Held'
    BY <1>23, TakeAllHeld DEF CloseStopAll, IndInv, Phases, Actors
  <1>24. ASSUME NEW w \in Windows, CloseStore(w) PROVE Held'
    BY <1>24, QuietHeld DEF CloseStore
  <1>25. CASE UNCHANGED vars
    BY <1>25, QuietHeld DEF vars
  <1>. QED
    BY <1>1, <1>2, <1>3, <1>4, <1>5, <1>6, <1>7, <1>8, <1>9, <1>10, <1>11, <1>12, <1>13, <1>14, <1>15, <1>16, <1>17, <1>18, <1>19, <1>20, <1>21, <1>22, <1>23, <1>24, <1>25
    DEF Next, UserNext, LoopNext, HaltNext, OpNext, CloseNext

-------------------------------------------------------------------------------
(* The theorems.                                                           *)

\* IndInv holds in every reachable state: it holds initially and every step keeps it.
LEMMA Inductive == Spec => []IndInv
  <1>1. IndInv /\ [Next]_vars => IndInv'
    BY NextType, NextPhases, NextHeld DEF IndInv, Held
  <1>. QED  BY InitInd, <1>1, PTL DEF Spec

\* Every variable of every window keeps its type.
THEOREM TypeCorrect == Spec => []TypeOK
  BY Inductive, PTL DEF IndInv

\* However many windows share the history directory, a cluster is recorded by at
\* most one at a time (AcquireLock and halt): each recorder's context is locked by
\* its own window.
THEOREM SingleRecorder == Spec => []OneRecorder
  <1>1. IndInv => OneRecorder
    <2>. SUFFICES ASSUME IndInv, NEW c \in Contexts, NEW v \in Windows, NEW w \in Windows,
                         c \in alive[v], c \in alive[w]
                  PROVE  v = w
      BY DEF OneRecorder
    <2>1. Accounted(v, c) /\ Accounted(w, c)
      BY DEF IndInv, AliveHeld, Accounted
    <2>. QED  BY <2>1 DEF IndInv, Owns
  <1>. QED  BY Inductive, <1>1, PTL

\* No lock file stays locked by a window that no longer records its cluster nor
\* is about to release it (startContext on a closed manager, halt).
THEOREM LocksAccounted == Spec => []NoLeakedLock
  BY Inductive, PTL DEF IndInv

\* Clear deletes the history with no recorder of its window running or starting,
\* except those a concurrent Close is halting (reconcileMu).
THEOREM ClearIsAlone == Spec => []ClearAlone
  <1>1. IndInv => ClearAlone
    BY DEF IndInv, AliveHeld, Phases, ClearAlone, Actors, TypeOK
  <1>. QED  BY Inductive, <1>1, PTL

===============================================================================
