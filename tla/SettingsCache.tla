--------------------------- MODULE SettingsCache ---------------------------
(***************************************************************************)
(* The settings shared by the windows of one user: localStorage, its       *)
(* mirror in IndexedDB and what each window shows of them                  *)
(* (settingsCache.js, themes.js, usePreferences.js, useTheme.js,           *)
(* useSidebar.js, main.jsx).                                               *)
(*                                                                         *)
(* Every change is written to localStorage and queues a copy of all        *)
(* settings for IndexedDB.  A change of localStorage is an event in the    *)
(* other windows, which then reads the copy, writes a new one, loads the   *)
(* preferences again and applies the theme of the copy it has written.     *)
(* The windows are processes: their steps and requests interleave, the     *)
(* requests of one window are served in order, events are not lost, and    *)
(* those not yet seen by a window are seen as one.                         *)
(***************************************************************************)
EXTENDS Integers, Sequences, FiniteSets

CONSTANTS Windows,      \* windows of the application
          Prefs,        \* preference switches
          Themes,       \* themes
          DefaultTheme, \* the theme of a window nobody has chosen one for
          NoSettings,   \* nothing stored
          MaxChanges,   \* changes by the user
          MaxCloses,    \* closed windows
          MaxLosses     \* losses of localStorage

ASSUME SettingsAssumption == DefaultTheme \in Themes /\ NoSettings \notin Themes \cup [Prefs -> BOOLEAN]

VARIABLES
  store,   \* localStorage: [prefs, theme, side]
  copy,    \* the snapshot in IndexedDB
  wins,    \* each window: [up, prefs, theme, dom, side, todo, seen]
  past     \* [changes, closes, losses, keep (the preferences to restore), torn (a boot or a lost copy since all was quiet)]

settingsVars == <<store, copy, wins, past>>

DefaultPrefs == [p \in Prefs |-> FALSE]

Closed == [up |-> "closed", prefs |-> DefaultPrefs, theme |-> DefaultTheme, dom |-> DefaultTheme,
           side |-> FALSE, todo |-> <<>>, seen |-> TRUE]

-----------------------------------------------------------------------------
(* A window at work: its state and localStorage. *)

collectSettingsSnapshot(s) == s

(* the other open windows are told of a key that another value was written to *)
Told(w, ws, changed) ==
  [x \in Windows |-> IF x # w /\ changed /\ ws[x].up # "closed" THEN [ws[x] EXCEPT !.seen = FALSE] ELSE ws[x]]

(* the collapsed sidebar is copied, but no window listens to it *)
Listened(s, t) == s.prefs # t.prefs \/ s.theme # t.theme

queueSettingsCacheSync(s, todo) == Append(todo, [op |-> "sync", snap |-> collectSettingsSnapshot(s)])

Write(w, win, s) ==
  /\ store' = s
  /\ wins' = Told(w, [wins EXCEPT ![w] = win], Listened(store, s))

readStoredTheme(s) == IF s.theme = NoSettings THEN DefaultTheme ELSE s.theme

loadPrefs(s) == IF s.prefs = NoSettings THEN DefaultPrefs ELSE s.prefs

(* applyTheme: the document, localStorage and a copy *)
ApplyTheme(win, s, t) ==
  [win |-> [win EXCEPT !.dom = t, !.todo = queueSettingsCacheSync([s EXCEPT !.theme = t], @)],
   store |-> [s EXCEPT !.theme = t]]

-----------------------------------------------------------------------------
(* Opening a window (main.jsx boot). *)

SettingsInit ==
  /\ store = [prefs |-> NoSettings, theme |-> NoSettings, side |-> FALSE]
  /\ copy = [prefs |-> NoSettings, theme |-> NoSettings, side |-> FALSE]
  /\ wins = [w \in Windows |-> Closed]
  /\ past = [changes |-> 0, closes |-> 0, losses |-> 0, keep |-> NoSettings, torn |-> FALSE]

(* initTheme, whose copy is asked for after the read of initSettingsCache *)
Open(w) ==
  /\ wins[w].up = "closed"
  /\ LET a == ApplyTheme([Closed EXCEPT !.up = "boot", !.todo = <<[op |-> "init"]>>], store, readStoredTheme(store))
     IN Write(w, a.win, a.store)
  /\ past' = [past EXCEPT !.torn = TRUE]
  /\ UNCHANGED copy

applySettingsSnapshot(s, c) ==
  [s EXCEPT !.prefs = IF c.prefs = NoSettings THEN @ ELSE c.prefs,
            !.theme = IF c.theme = NoSettings THEN @ ELSE c.theme,
            !.side = c.side]

(* App mounts: it loads what localStorage holds and leaves the document's theme *)
Mounted(win, s) ==
  [win EXCEPT !.up = "open", !.prefs = loadPrefs(s), !.theme = readStoredTheme(s), !.side = s.side]

(* the copy is restored when localStorage has no preferences, else it is written *)
initSettingsCache(w) ==
  /\ wins[w].todo # <<>> /\ Head(wins[w].todo).op = "init"
  /\ LET rest == [wins[w] EXCEPT !.todo = Tail(@)]
     IN IF store.prefs = NoSettings /\ copy.prefs # NoSettings
          THEN LET s == applySettingsSnapshot(store, copy)
               IN /\ Write(w, Mounted(rest, s), s)
                  /\ past' = [past EXCEPT !.keep = NoSettings]
          ELSE /\ Write(w, [rest EXCEPT !.todo = Append(@, [op |-> "start", snap |-> store])], store)
               /\ UNCHANGED past
  /\ UNCHANGED copy

-----------------------------------------------------------------------------
(* The user's changes, from the state the window shows. *)

Changes(w) ==
  /\ wins[w].up = "open"
  /\ past.changes < MaxChanges

Quiet == \A w \in Windows : wins[w].todo = <<>> /\ wins[w].seen

Changed == past' = [past EXCEPT !.changes = @ + 1, !.torn = @ /\ ~(Quiet /\ \A w \in Windows : wins[w].up # "boot")]

(* setPreferences saves all fields of the window, the others as it knows them *)
setPreferences(w, p) ==
  LET next == [wins[w].prefs EXCEPT ![p] = ~@]
      s == [store EXCEPT !.prefs = next]
  IN /\ Changes(w)
     /\ Write(w, [wins[w] EXCEPT !.prefs = next, !.todo = queueSettingsCacheSync(s, @)], s)
     /\ Changed
     /\ UNCHANGED copy

setTheme(w, t) ==
  LET a == ApplyTheme([wins[w] EXCEPT !.theme = t], store, t)
  IN /\ Changes(w)
     /\ wins[w].theme # t
     /\ Write(w, a.win, a.store)
     /\ Changed
     /\ UNCHANGED copy

ToggleSidebar(w) ==
  LET s == [store EXCEPT !.side = ~wins[w].side]
  IN /\ Changes(w)
     /\ Write(w, [wins[w] EXCEPT !.side = ~@, !.todo = queueSettingsCacheSync(s, @)], s)
     /\ Changed
     /\ UNCHANGED copy

-----------------------------------------------------------------------------
(* The requests of a window to IndexedDB, and refreshes. *)

Does(w, op) == wins[w].todo # <<>> /\ Head(wins[w].todo).op = op

Rest(w) == [wins[w] EXCEPT !.todo = Tail(@)]

(* a copy queued by a change lands *)
CopyLands(w) ==
  /\ Does(w, "sync")
  /\ copy' = Head(wins[w].todo).snap
  /\ wins' = [wins EXCEPT ![w] = Rest(w)]
  /\ UNCHANGED <<store, past>>

(* the copy of the boot lands, and App mounts *)
BootCopyLands(w) ==
  /\ Does(w, "start")
  /\ copy' = Head(wins[w].todo).snap
  /\ wins' = [wins EXCEPT ![w] = Mounted(Rest(w), store)]
  /\ UNCHANGED <<store, past>>

(* onStorage begins a refresh; before App mounts nobody listens *)
StorageEvent(w) ==
  /\ ~wins[w].seen
  /\ wins' = [wins EXCEPT ![w].seen = TRUE,
                          ![w].todo = IF wins[w].up = "open" THEN Append(@, [op |-> "read"]) ELSE @]
  /\ UNCHANGED <<store, copy, past>>

(* refreshSettingsFromCache, the copy read: local settings are stamped now and
   never older than the copy, so that the copy is not applied *)
refreshSettingsFromCache(w) ==
  /\ Does(w, "read")
  /\ wins' = [wins EXCEPT ![w] = [Rest(w) EXCEPT !.todo = Append(@, [op |-> "put", snap |-> collectSettingsSnapshot(store)])]]
  /\ UNCHANGED <<store, copy, past>>

(* Mutant: the handler takes the preferences of the copy. *)
RefreshHandledCopied(w) ==
  /\ Does(w, "put")
  /\ LET snap == Head(wins[w].todo).snap
         reloaded == [Rest(w) EXCEPT !.prefs = loadPrefs(snap)]
         a == ApplyTheme([reloaded EXCEPT !.theme = snap.theme], store, snap.theme)
     IN /\ copy' = snap
        /\ IF snap.theme = NoSettings THEN Write(w, reloaded, store) ELSE Write(w, a.win, a.store)
  /\ UNCHANGED past

(* its own copy written, the handlers load the preferences of now and apply the
   theme of then, once as the document's and once as the hook's *)
RefreshHandled(w) ==
  /\ Does(w, "put")
  /\ LET snap == Head(wins[w].todo).snap
         reloaded == [Rest(w) EXCEPT !.prefs = loadPrefs(store)]
         a == ApplyTheme([reloaded EXCEPT !.theme = snap.theme], store, snap.theme)
     IN /\ copy' = snap
        /\ IF snap.theme = NoSettings THEN Write(w, reloaded, store) ELSE Write(w, a.win, a.store)
  /\ UNCHANGED past

-----------------------------------------------------------------------------
(* A window closes with what it has not written; localStorage is lost when no
   window is open. *)

Close(w) ==
  /\ wins[w].up = "open" \/ wins[w].up = "boot"
  /\ past.closes < MaxCloses
  /\ wins' = [wins EXCEPT ![w] = Closed]
  /\ past' = [past EXCEPT !.closes = @ + 1, !.torn = @ \/ wins[w].todo # <<>> \/ ~wins[w].seen]
  /\ UNCHANGED <<store, copy>>

Lose ==
  /\ \A w \in Windows : wins[w].up = "closed"
  /\ store.prefs # NoSettings
  /\ past.losses < MaxLosses
  /\ store' = [prefs |-> NoSettings, theme |-> NoSettings, side |-> FALSE]
  /\ past' = [past EXCEPT !.losses = @ + 1, !.keep = copy.prefs, !.torn = TRUE]
  /\ UNCHANGED <<copy, wins>>

Serve(w) ==
  \/ initSettingsCache(w)
  \/ CopyLands(w)
  \/ BootCopyLands(w)
  \/ StorageEvent(w)
  \/ refreshSettingsFromCache(w)
  \/ RefreshHandled(w)

SettingsNext ==
  \/ \E w \in Windows :
       \/ Open(w)
       \/ Serve(w)
       \/ \E p \in Prefs : setPreferences(w, p)
       \/ \E t \in Themes : setTheme(w, t)
       \/ ToggleSidebar(w)
       \/ Close(w)
  \/ Lose

SettingsSpec ==
  SettingsInit /\ [][SettingsNext]_settingsVars /\ \A w \in Windows : WF_settingsVars(Serve(w))

-----------------------------------------------------------------------------
(* Properties. *)

Shows(w) == wins[w].up = "open"

(* Once events, copies and refreshes are done, every open window works with
   the preferences that are stored (settingsCache.js:228, App.jsx:291). *)
PrefsConverge == Quiet => \A w \in Windows : Shows(w) => wins[w].prefs = loadPrefs(store)

(* ... and shows the theme that is stored, whatever it came to be. *)
ThemeConverges == Quiet => \A w \in Windows : Shows(w) => wins[w].theme = readStoredTheme(store)

(* ... and the copy that a lost localStorage is restored from holds the
   preferences, whichever window's copy landed last (settingsCache.js:202). *)
CopyCurrent ==
  Quiet /\ ~past.torn => copy.prefs = store.prefs

(* Preferences that were in the copy when localStorage was lost are back before
   a window works with its own (settingsCache.js:208). *)
Restored == past.keep # NoSettings => \A w \in Windows : wins[w].up # "open"

(* The windows of the application and the copy on disk come to agree with what is
   stored (settingsCache.js:3). *)
CopyHolds == PrefsConverge /\ ThemeConverges /\ CopyCurrent /\ Restored
=============================================================================
