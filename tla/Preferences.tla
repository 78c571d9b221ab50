---------------------------- MODULE Preferences ----------------------------
(***************************************************************************)
(* What a window does with the preferences an older build has left in      *)
(* localStorage (preferences.js): it migrates them once, fills in the      *)
(* defaults, brings every value into its range, and saves the result.      *)
(*                                                                         *)
(* A field is absent, the user's own valid choice, or odd: of a wrong type *)
(* or out of its range.  What is loaded is the choice, the default, or     *)
(* the nearest value of the range.                                         *)
(***************************************************************************)
EXTENDS Integers, FiniteSets

CONSTANTS MaxOwn,       \* own choices in what an older build has left
          MaxChosen     \* fields chosen afterwards

VARIABLES
  stored,   \* what localStorage holds: [version, legacy (a layout of before version 3), f]
  loaded,   \* what the window works with
  chosen    \* what the user has set: [own (the fields), starred (a launch default of version 13), new]

prefsVars == <<stored, loaded, chosen>>

PREFS_VERSION == 15

(* the version in which a field came; a field of version 1 was always there *)
Since ==
  [rememberLastQuery |-> 1, streamFontSize |-> 1, windowMin |-> 1, kubeconfigPath |-> 1,
   idleAutoStop |-> 2, idleAutoStopMin |-> 2, workspaceLayout |-> 3, terminalShell |-> 4,
   terminalAppearance |-> 5, useBundledKubectl |-> 6, kubectlPath |-> 6, matchClusterKubectl |-> 7,
   uiFont |-> 9, topbarScale |-> 10, httpProxy |-> 11, autoMonitorCluster |-> 12,
   defaultContext |-> 13, favoriteContexts |-> 14, checkAdmissionPerimeter |-> 15]

Fields == DOMAIN Since

(* the fields clampInt rounds into a range; the others fall back to the default *)
Ranged == {"streamFontSize", "windowMin", "idleAutoStopMin", "topbarScale"}

Versions == 0..PREFS_VERSION + 1

-----------------------------------------------------------------------------
(* Loading. *)

VersionOf(raw) == IF raw.version = 0 THEN 1 ELSE raw.version

NormalizedLayout(legacy) == IF legacy THEN "legacy" ELSE "default"

(* the favourites take in the launch default *)
Starred(raw) ==
  IF raw.f["defaultContext"] = "own" /\ VersionOf(raw) >= Since["defaultContext"]
    THEN IF raw.f["favoriteContexts"] = "own" THEN "both" ELSE "launch"
    ELSE raw.f["favoriteContexts"]

(* Mutant: a step also takes the version it leads to. *)
migratePreferencesLate(raw) ==
  LET v == VersionOf(raw)
      Reset(f) ==
        CASE f = "idleAutoStopMin" -> raw.f[f]
          [] f = "workspaceLayout" -> NormalizedLayout(raw.legacy)
          [] f = "favoriteContexts" -> Starred(raw)
          [] OTHER -> "default"
  IN IF v >= PREFS_VERSION THEN raw
     ELSE [raw EXCEPT !.version = PREFS_VERSION,
                      !.f = [f \in Fields |-> IF v <= Since[f] /\ Since[f] > 1 THEN Reset(f) ELSE raw.f[f]]]

migratePreferences(raw) ==
  LET v == VersionOf(raw)
      Reset(f) ==
        CASE f = "idleAutoStopMin" -> raw.f[f]
          [] f = "workspaceLayout" -> NormalizedLayout(raw.legacy)
          [] f = "favoriteContexts" -> Starred(raw)
          [] OTHER -> "default"
  IN IF v >= PREFS_VERSION THEN raw
     ELSE [raw EXCEPT !.version = PREFS_VERSION,
                      !.f = [f \in Fields |-> IF v < Since[f] THEN Reset(f) ELSE raw.f[f]]]

Normal(f, value) ==
  CASE value = "absent" -> "default"
    [] value = "odd" -> IF f \in Ranged THEN "nearest" ELSE "default"
    [] OTHER -> value

normalizePreferences(raw) ==
  [raw EXCEPT !.version = IF raw.version = 0 \/ raw.version > PREFS_VERSION THEN PREFS_VERSION ELSE raw.version,
              !.f = [f \in Fields |-> Normal(f, raw.f[f])]]

loadPreferences(raw) == normalizePreferences(migratePreferences(raw))

(* loading saves what it has migrated; a later layout overwrites the legacy key *)
Kept(raw) == IF VersionOf(raw) < PREFS_VERSION THEN loadPreferences(raw) ELSE raw

-----------------------------------------------------------------------------
PrefsInit ==
  /\ stored = [version |-> PREFS_VERSION, legacy |-> FALSE, f |-> [f \in Fields |-> "absent"]]
  /\ loaded = loadPreferences(stored)
  /\ chosen = [own |-> {}, starred |-> FALSE, new |-> TRUE]

Left == {[version |-> v, legacy |-> l, f |-> [f \in Fields |-> IF f \in own THEN "own" ELSE IF f \in odd THEN "odd" ELSE "absent"]] :
           v \in Versions, l \in BOOLEAN, own \in {o \in SUBSET Fields : Cardinality(o) <= MaxOwn},
           odd \in {o \in SUBSET Fields : Cardinality(o) <= 1}}

(* an older build has only the fields of its version *)
OfItsVersion(raw) == \A f \in Fields : raw.f[f] # "absent" => Since[f] <= VersionOf(raw)

(* this build starts for the first time over what an older one has left *)
Install(raw) ==
  /\ chosen.new
  /\ OfItsVersion(raw)
  /\ loaded' = loadPreferences(raw)
  /\ stored' = Kept(raw)
  /\ chosen' = [own |-> {f \in Fields : raw.f[f] = "own"},
                starred |-> VersionOf(raw) < Since["favoriteContexts"] /\ raw.f["defaultContext"] = "own",
                new |-> FALSE]

(* setPreferences saves the whole record *)
Choose(f) ==
  /\ ~chosen.new
  /\ Cardinality(chosen.own \cup {f}) <= MaxChosen
  /\ loaded' = normalizePreferences([loaded EXCEPT !.f[f] = "own"])
  /\ stored' = loaded'
  /\ chosen' = [chosen EXCEPT !.own = @ \cup {f}, !.starred = @ /\ f # "favoriteContexts"]

Relaunch ==
  /\ ~chosen.new
  /\ loaded' = loadPreferences(stored)
  /\ stored' = Kept(stored)
  /\ UNCHANGED chosen

PrefsNext ==
  \/ \E raw \in Left : Install(raw)
  \/ \E f \in Fields : Choose(f)
  \/ Relaunch

-----------------------------------------------------------------------------
(* The user's choices survive an upgrade and every later launch: those the
   older build knew and those made since (preferences.js:86, :166). *)
ChoicesKept ==
  \A f \in chosen.own : loaded.f[f] \in {"own", "both"}

(* The context an older build launched with is a favourite after the upgrade
   and stays one until the user changes the favourites (preferences.js:148). *)
LaunchDefaultStarred ==
  chosen.starred => loaded.f["favoriteContexts"] \in {"launch", "both"}

(* What is loaded is in range and what is saved is of this version, so that the
   next launch changes nothing (preferences.js:173). *)
LoadSettles ==
  /\ \A f \in Fields : loaded.f[f] \notin {"absent", "odd"}
  /\ VersionOf(stored) >= PREFS_VERSION /\ loadPreferences(loaded) = loaded

(* Preferences survive upgrades and relaunches (preferences.js). *)
PreferencesKept == ChoicesKept /\ LaunchDefaultStarred /\ LoadSettles
=============================================================================
