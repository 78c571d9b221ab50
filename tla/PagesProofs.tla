----------------------------- MODULE PagesProofs -----------------------------
(***************************************************************************)
(* Proofs about what a window works with: the settings the windows share   *)
(* (SettingsCache), for any windows, preferences, themes, changes and      *)
(* closed windows; the preferences an older build has left (Preferences),  *)
(* for any number of fields set; the panes (Shell) and the log panel       *)
(* (Stream), for any viewports, pods and unanswered handlers; what the     *)
(* settings page saves (Settings), for any calls under way; and the        *)
(* inspector (Inspect), for any objects, lists, matches and late answers.  *)
(***************************************************************************)
EXTENDS MCPages, SequenceTheorems, TLAPS

Stores == [prefs : [Prefs -> BOOLEAN] \cup {NoSettings}, theme : Themes \cup {NoSettings}, side : BOOLEAN]

Requests == [op : {"init", "read"}] \cup [op : {"sync", "start", "put"}, snap : Stores]

WindowSet == [up : {"closed", "boot", "open"}, prefs : [Prefs -> BOOLEAN], theme : Themes, dom : Themes,
              side : BOOLEAN, todo : Seq(Requests), seen : BOOLEAN]

(* The requests of a window that boots: the read, the copy of its theme, its own copy. *)
BootTodo(q) ==
  \/ Len(q) = 2 /\ q[1].op = "init" /\ q[2].op = "sync"
  \/ Len(q) = 2 /\ q[1].op = "sync" /\ q[2].op = "start"
  \/ Len(q) = 1 /\ q[1].op = "start"

(* What a window may have to do *)
TodoRight(win) ==
  /\ win.up = "closed" => win.todo = <<>> /\ win.seen
  /\ win.up = "boot" => BootTodo(win.todo)
  /\ win.up = "open" => \A i \in 1 .. Len(win.todo) : win.todo[i].op \in {"sync", "read", "put"}
  /\ \A i \in 1 .. Len(win.todo) : win.todo[i].op = "put" => win.todo[i].snap.theme # NoSettings

(* A window that shows something else than what is stored is about to refresh. *)
Refreshing(win) == ~ win.seen \/ \E i \in 1 .. Len(win.todo) : win.todo[i].op \in {"read", "put"}

Agrees(win, s) ==
  win.up = "open" => Refreshing(win) \/ (win.prefs = loadPrefs(s) /\ win.theme = readStoredTheme(s))

(* Whatever a window still writes to the copy, the last of it has the preferences
   that are stored: a refresh reads them anew. *)
Pending(win) == win.todo # <<>> \/ ~ win.seen

EndsFresh(win, s) ==
  \/ ~ win.seen
  \/ \E i \in 1 .. Len(win.todo) : win.todo[i].op = "read"
  \/ win.todo # <<>> /\ win.todo[Len(win.todo)].snap.prefs = s.prefs

CopyFollows ==
  /\ \A w \in Windows : wins[w].up # "boot"
  /\ \A w \in Windows : Pending(wins[w]) => EndsFresh(wins[w], store)
  /\ copy.prefs = store.prefs \/ \E w \in Windows : Pending(wins[w])

(* While lost preferences are not restored, every window is before its first read. *)
NotYet(win) == win.up = "closed" \/ (win.up = "boot" /\ win.todo[1].op = "init")

CacheInv ==
  /\ store \in Stores /\ copy \in Stores /\ wins \in [Windows -> WindowSet]
  /\ DOMAIN past = {"changes", "closes", "losses", "keep", "torn"}
  /\ \A w \in Windows : TodoRight(wins[w]) /\ Agrees(wins[w], store)
  /\ \A w \in Windows : wins[w].up # "closed" => store.theme # NoSettings
  /\ ~ past.torn => CopyFollows
  /\ past.keep # NoSettings =>
       store.prefs = NoSettings /\ copy.prefs # NoSettings /\ \A w \in Windows : NotYet(wins[w])
-----------------------------------------------------------------------------
LEMMA InvHolds == CacheInv => CopyHolds
  <1> SUFFICES ASSUME CacheInv PROVE CopyHolds
    OBVIOUS
  <1>1. Quiet => \A w \in Windows : ~ Refreshing(wins[w]) /\ ~ Pending(wins[w])
    <2> SUFFICES ASSUME Quiet, NEW w \in Windows PROVE ~ Refreshing(wins[w]) /\ ~ Pending(wins[w])
      OBVIOUS
    <2>1. PICK q : q = wins[w].todo
      OBVIOUS
    <2>2. q = <<>> /\ wins[w].seen
      BY <2>1 DEF Quiet
    <2>3. 1 .. Len(q) = {}
      BY <2>2
    <2> QED BY <2>1, <2>2, <2>3 DEF Refreshing, Pending
  <1>2. PrefsConverge /\ ThemeConverges
    BY <1>1 DEF CacheInv, Agrees, Shows, PrefsConverge, ThemeConverges
  <1>3. CopyCurrent
    BY <1>1 DEF CacheInv, CopyFollows, CopyCurrent
  <1>4. Restored
    BY DEF CacheInv, NotYet, Restored
  <1> QED BY <1>2, <1>3, <1>4 DEF CopyHolds

LEMMA Added ==
  ASSUME NEW q \in Seq(Requests), NEW e \in Requests, NEW r, r = Append(q, e)
  PROVE  /\ r \in Seq(Requests) /\ Len(r) = Len(q) + 1 /\ r # <<>> /\ r[Len(r)] = e /\ Len(q) \in Nat
         /\ \A i \in 1 .. Len(q) : r[i] = q[i]
         /\ \A i \in 1 .. Len(r) : r[i] = e \/ (i \in 1 .. Len(q) /\ r[i] = q[i])
  <1>1. r \in Seq(Requests) /\ Len(r) = Len(q) + 1 /\ r[Len(q) + 1] = e /\ Len(q) \in Nat
        /\ \A i \in 1 .. Len(q) : r[i] = q[i]
    BY AppendProperties, LenProperties
  <1>2. r # <<>>
    BY AppendProperties
  <1> QED BY <1>1, <1>2

LEMMA TodoTail ==
  ASSUME NEW q \in Seq(Requests), q # <<>>, NEW r, r = Tail(q)
  PROVE  /\ r \in Seq(Requests) /\ Len(r) = Len(q) - 1 /\ Len(q) \in Nat /\ Len(q) >= 1 /\ Head(q) = q[1] /\ q[1] \in Requests
         /\ \A i \in 1 .. Len(r) : i + 1 \in 1 .. Len(q) /\ r[i] = q[i + 1]
         /\ \A i \in 1 .. Len(q) : i # 1 => i - 1 \in 1 .. Len(r) /\ r[i - 1] = q[i]
         /\ (r = <<>> <=> Len(q) = 1)
  <1>1. Len(q) \in Nat /\ Len(q) # 0
    BY EmptySeq, LenProperties
  <1>2. /\ r \in Seq(Requests) /\ Len(r) = Len(q) - 1 /\ Head(q) \in Requests
        /\ \A i \in 1 .. Len(r) : r[i] = q[i + 1]
    BY HeadTailProperties
  <1>3. Head(q) = q[1]
    OBVIOUS
  <1>4. r = <<>> <=> Len(r) = 0
    BY <1>2, EmptySeq, LenProperties
  <1> QED BY <1>1, <1>2, <1>3, <1>4


(* What a write of a window does to the others: they are told of what they listen to. *)
LEMMA WriteFacts ==
  ASSUME wins \in [Windows -> WindowSet], NEW w \in Windows, NEW win \in WindowSet, NEW s \in Stores, Write(w, win, s)
  PROVE  /\ store' = s /\ wins' \in [Windows -> WindowSet] /\ wins'[w] = win
         /\ \A x \in Windows : x # w =>
              /\ wins'[x].up = wins[x].up /\ wins'[x].todo = wins[x].todo
              /\ wins'[x].prefs = wins[x].prefs /\ wins'[x].theme = wins[x].theme
              /\ wins'[x].seen = (wins[x].seen /\ ~ (Listened(store, s) /\ wins[x].up # "closed"))
  <1>1. ASSUME NEW x \in Windows
        PROVE  /\ wins'[x] \in WindowSet
               /\ x = w => wins'[x] = win
               /\ x # w => /\ wins'[x].up = wins[x].up /\ wins'[x].todo = wins[x].todo
                           /\ wins'[x].prefs = wins[x].prefs /\ wins'[x].theme = wins[x].theme
               /\ x # w /\ Listened(store, s) /\ wins[x].up # "closed" => ~ wins'[x].seen
               /\ x # w /\ ~ (Listened(store, s) /\ wins[x].up # "closed") => wins'[x] = wins[x]
    <2>1. wins'[x] = IF x # w /\ Listened(store, s) /\ [wins EXCEPT ![w] = win][x].up # "closed"
                     THEN [[wins EXCEPT ![w] = win][x] EXCEPT !.seen = FALSE] ELSE [wins EXCEPT ![w] = win][x]
      BY DEF Write, Told
    <2>2. [wins EXCEPT ![w] = win][x] = IF x = w THEN win ELSE wins[x]
      OBVIOUS
    <2>3. wins[x] \in WindowSet /\ [wins[x] EXCEPT !.seen = FALSE] \in WindowSet
      BY DEF WindowSet
    <2>4. /\ [wins[x] EXCEPT !.seen = FALSE].up = wins[x].up /\ [wins[x] EXCEPT !.seen = FALSE].todo = wins[x].todo
          /\ [wins[x] EXCEPT !.seen = FALSE].prefs = wins[x].prefs /\ [wins[x] EXCEPT !.seen = FALSE].theme = wins[x].theme
          /\ ~ [wins[x] EXCEPT !.seen = FALSE].seen
      BY <2>3 DEF WindowSet
    <2> QED BY <2>1, <2>2, <2>3, <2>4
  <1>2. wins' = [x \in Windows |-> wins'[x]]
    BY DEF Write, Told
  <1>3. wins' \in [Windows -> WindowSet]
    BY <1>1, <1>2
  <1>4. ASSUME NEW x \in Windows, x # w
        PROVE  wins'[x].seen = (wins[x].seen /\ ~ (Listened(store, s) /\ wins[x].up # "closed"))
    <2>1. wins'[x].seen \in BOOLEAN /\ wins[x].seen \in BOOLEAN
      BY <1>1 DEF WindowSet
    <2> QED BY <1>1, <1>4, <2>1
  <1>5. store' = s
    BY DEF Write
  <1> QED BY <1>1, <1>3, <1>4, <1>5

OthersFollow(w) ==
  \A x \in Windows : x # w => wins[x].up # "boot" /\ (Pending(wins[x]) => EndsFresh(wins[x], store))

(* A step of one window keeps the invariant if the window is right afterwards. *)
LEMMA WriteKeeps ==
  ASSUME CacheInv, NEW w \in Windows, NEW win \in WindowSet, NEW s \in Stores, Write(w, win, s),
         copy' \in Stores, DOMAIN past' = {"changes", "closes", "losses", "keep", "torn"},
         TodoRight(win), Agrees(win, s),
         win.up # "closed" => s.theme # NoSettings,
         store.theme # NoSettings => s.theme # NoSettings,
         past'.keep # NoSettings =>
           past'.keep = past.keep /\ s.prefs = NoSettings /\ copy'.prefs = copy.prefs /\ NotYet(win),
         ~ past'.torn =>
           /\ win.up # "boot" /\ OthersFollow(w) /\ (Pending(win) => EndsFresh(win, s))
           /\ copy'.prefs = s.prefs \/ Pending(win) \/ \E x \in Windows : x # w /\ Pending(wins[x])
  PROVE  CacheInv'
  <1>1. /\ store' = s /\ wins' \in [Windows -> WindowSet] /\ wins'[w] = win
        /\ \A x \in Windows : x # w =>
              /\ wins'[x].up = wins[x].up /\ wins'[x].todo = wins[x].todo
              /\ wins'[x].prefs = wins[x].prefs /\ wins'[x].theme = wins[x].theme
              /\ wins'[x].seen = (wins[x].seen /\ ~ (Listened(store, s) /\ wins[x].up # "closed"))
    BY WriteFacts DEF CacheInv
  <1>2. ASSUME NEW x \in Windows PROVE TodoRight(wins'[x]) /\ Agrees(wins'[x], s)
    <2>1. CASE x = w
      BY <1>1, <2>1
    <2>2. CASE x # w
      <3>0. TodoRight(wins[x]) /\ Agrees(wins[x], store)
        BY DEF CacheInv
      <3>1. TodoRight(wins'[x])
        <4>1. wins'[x].up = "closed" => wins'[x].todo = <<>> /\ wins'[x].seen
          BY <1>1, <2>2, <3>0 DEF TodoRight
        <4> QED BY <1>1, <2>2, <3>0, <4>1 DEF TodoRight
      <3>2. ASSUME wins'[x].up = "open", wins'[x].seen PROVE wins[x].seen /\ s.prefs = store.prefs /\ s.theme = store.theme
        BY <1>1, <2>2, <3>2 DEF Listened
      <3>3. Agrees(wins'[x], s)
        <4> SUFFICES ASSUME wins'[x].up = "open", ~ Refreshing(wins'[x])
                     PROVE  wins'[x].prefs = loadPrefs(s) /\ wins'[x].theme = readStoredTheme(s)
          BY DEF Agrees
        <4>1. wins'[x].seen
          BY DEF Refreshing
        <4>2. wins[x].up = "open" /\ ~ Refreshing(wins[x])
          BY <1>1, <2>2, <3>2, <4>1 DEF Refreshing
        <4>3. wins[x].prefs = loadPrefs(store) /\ wins[x].theme = readStoredTheme(store)
          BY <3>0, <4>2 DEF Agrees
        <4> QED BY <1>1, <2>2, <3>2, <4>1, <4>3 DEF loadPrefs, readStoredTheme
      <3> QED BY <3>1, <3>3
    <2> QED BY <2>1, <2>2
  <1>3. \A x \in Windows : wins'[x].up # "closed" => s.theme # NoSettings
    BY <1>1 DEF CacheInv
  <1>4. ASSUME ~ past'.torn PROVE CopyFollows'
    <2>1. \A x \in Windows : wins'[x].up # "boot"
      BY <1>1, <1>4 DEF OthersFollow
    <2>2. ASSUME NEW x \in Windows, x # w
          PROVE  /\ Pending(wins'[x]) => EndsFresh(wins'[x], s)
                 /\ Pending(wins[x]) => Pending(wins'[x])
      <3>1. wins[x].up # "boot" /\ (Pending(wins[x]) => EndsFresh(wins[x], store))
        BY <1>4, <2>2 DEF OthersFollow
      <3>2. Pending(wins[x]) => Pending(wins'[x])
        BY <1>1, <2>2 DEF Pending
      <3>3. CASE ~ wins'[x].seen
        BY <3>2, <3>3 DEF EndsFresh
      <3>4. CASE wins'[x].seen
        <4>1. wins[x].seen /\ (wins[x].up = "closed" \/ s.prefs = store.prefs)
          BY <1>1, <2>2, <3>4 DEF Listened
        <4>2. wins[x].up = "closed" => wins[x].todo = <<>>
          BY DEF CacheInv, TodoRight
        <4>3. Pending(wins'[x]) => Pending(wins[x]) /\ wins[x].todo # <<>>
          BY <1>1, <2>2, <3>4, <4>1 DEF Pending
        <4>4. Pending(wins'[x]) => EndsFresh(wins'[x], s)
          BY <1>1, <2>2, <3>1, <4>1, <4>2, <4>3 DEF EndsFresh
        <4> QED BY <3>2, <4>4
      <3> QED BY <3>3, <3>4
    <2>3. \A x \in Windows : Pending(wins'[x]) => EndsFresh(wins'[x], s)
      BY <1>1, <1>4, <2>2
    <2>4. copy'.prefs = s.prefs \/ \E x \in Windows : Pending(wins'[x])
      BY <1>1, <1>4, <2>2
    <2> QED BY <1>1, <2>1, <2>3, <2>4 DEF CopyFollows
  <1>5. ASSUME past'.keep # NoSettings
        PROVE  s.prefs = NoSettings /\ copy'.prefs # NoSettings /\ \A x \in Windows : NotYet(wins'[x])
    <2>1. copy.prefs # NoSettings /\ \A x \in Windows : NotYet(wins[x])
      BY <1>5 DEF CacheInv
    <2> QED BY <1>1, <1>5, <2>1 DEF NotYet
  <1> QED BY <1>1, <1>2, <1>3, <1>4, <1>5 DEF CacheInv


(* A request an open window adds to what it has to do. *)
LEMMA TodoAdds ==
  ASSUME NEW v \in WindowSet, NEW win \in WindowSet, NEW e \in Requests,
         v.up = "open", win.up = "open", TodoRight(v), win.todo = Append(v.todo, e),
         e.op \in {"sync", "read", "put"}, e.op = "put" => e.snap.theme # NoSettings
  PROVE  /\ TodoRight(win) /\ Pending(win)
         /\ win.todo[Len(win.todo)] = e
         /\ win.seen = v.seen /\ Refreshing(v) => Refreshing(win)
         /\ e.op \in {"read", "put"} => Refreshing(win)
         /\ \A s : e.op = "read" \/ e.snap.prefs = s.prefs => EndsFresh(win, s)
  <1>1. v.todo \in Seq(Requests)
    BY DEF WindowSet
  <1>2. PICK q \in Seq(Requests) : q = v.todo
    BY <1>1
  <1>3. PICK r : r = win.todo /\ r = Append(q, e)
    BY <1>2
  <1>4. /\ r \in Seq(Requests) /\ Len(r) = Len(q) + 1 /\ r # <<>> /\ r[Len(r)] = e /\ Len(q) \in Nat
        /\ \A i \in 1 .. Len(q) : r[i] = q[i]
        /\ \A i \in 1 .. Len(r) : r[i] = e \/ (i \in 1 .. Len(q) /\ r[i] = q[i])
    BY <1>3, Added
  <1>5. Len(r) \in 1 .. Len(r) /\ \A i \in 1 .. Len(q) : i \in 1 .. Len(r)
    BY <1>4
  <1>6. TodoRight(win)
    BY <1>2, <1>3, <1>4 DEF TodoRight
  <1>7. win.seen = v.seen /\ Refreshing(v) => Refreshing(win)
    <2> SUFFICES ASSUME win.seen = v.seen, Refreshing(v), win.seen PROVE Refreshing(win)
      BY DEF Refreshing
    <2>1. PICK i \in 1 .. Len(q) : q[i].op \in {"read", "put"}
      BY <1>2 DEF Refreshing
    <2> QED BY <1>3, <1>4, <1>5, <2>1 DEF Refreshing
  <1>8. e.op \in {"read", "put"} => Refreshing(win)
    BY <1>3, <1>4, <1>5 DEF Refreshing
  <1>9. \A s : e.op = "read" \/ e.snap.prefs = s.prefs => EndsFresh(win, s)
    BY <1>3, <1>4, <1>5 DEF EndsFresh
  <1> QED BY <1>3, <1>4, <1>6, <1>7, <1>8, <1>9 DEF Pending

(* The request an open window does next. *)
LEMMA TodoServes ==
  ASSUME NEW v \in WindowSet, NEW win \in WindowSet, v.todo # <<>>,
         v.up = "open", win.up = "open", TodoRight(v), win.todo = Tail(v.todo), win.seen = v.seen
  PROVE  /\ TodoRight(win)
         /\ Head(v.todo) \in Requests /\ Head(v.todo).op \in {"sync", "read", "put"}
         /\ Head(v.todo).op = "put" => Head(v.todo).snap.theme # NoSettings
         /\ Head(v.todo).op = "sync" /\ Refreshing(v) => Refreshing(win)
         /\ \A s : Head(v.todo).op # "read" /\ EndsFresh(v, s) =>
                     IF Pending(win) THEN EndsFresh(win, s) ELSE Head(v.todo).snap.prefs = s.prefs
  <1>1. v.todo \in Seq(Requests)
    BY DEF WindowSet
  <1>2. PICK q \in Seq(Requests) : q = v.todo /\ q # <<>>
    BY <1>1
  <1>3. PICK r : r = win.todo /\ r = Tail(q)
    BY <1>2
  <1>4. /\ r \in Seq(Requests) /\ Len(r) = Len(q) - 1 /\ Len(q) \in Nat /\ Len(q) >= 1 /\ Head(q) = q[1] /\ q[1] \in Requests
        /\ \A i \in 1 .. Len(r) : i + 1 \in 1 .. Len(q) /\ r[i] = q[i + 1]
        /\ \A i \in 1 .. Len(q) : i # 1 => i - 1 \in 1 .. Len(r) /\ r[i - 1] = q[i]
        /\ (r = <<>> <=> Len(q) = 1)
    BY <1>2, <1>3, TodoTail
  <1>5. 1 \in 1 .. Len(q)
    BY <1>4
  <1>6. /\ q[1].op \in {"sync", "read", "put"} /\ (q[1].op = "put" => q[1].snap.theme # NoSettings)
        /\ \A i \in 1 .. Len(q) : /\ q[i].op \in {"sync", "read", "put"}
                                  /\ q[i].op = "put" => q[i].snap.theme # NoSettings
    BY <1>2, <1>5 DEF TodoRight
  <1>7. TodoRight(win)
    BY <1>3, <1>4, <1>6 DEF TodoRight
  <1>8. ASSUME Head(v.todo).op = "sync", Refreshing(v) PROVE Refreshing(win)
    <2> SUFFICES ASSUME win.seen PROVE Refreshing(win)
      BY DEF Refreshing
    <2>1. PICK i \in 1 .. Len(q) : q[i].op \in {"read", "put"}
      BY <1>2, <1>8 DEF Refreshing
    <2>2. i # 1
      BY <1>2, <1>4, <1>8, <2>1
    <2> QED BY <1>3, <1>4, <2>1, <2>2 DEF Refreshing
  <1>9. ASSUME NEW s, Head(v.todo).op # "read", EndsFresh(v, s)
        PROVE  IF Pending(win) THEN EndsFresh(win, s) ELSE Head(v.todo).snap.prefs = s.prefs
    <2>1. CASE ~ win.seen
      BY <2>1 DEF Pending, EndsFresh
    <2>2. CASE win.seen /\ \E i \in 1 .. Len(v.todo) : v.todo[i].op = "read"
      <3>1. PICK i \in 1 .. Len(q) : q[i].op = "read"
        BY <1>2, <2>2
      <3>2. i # 1
        BY <1>2, <1>4, <1>9, <3>1
      <3>3. i - 1 \in 1 .. Len(r) /\ r[i - 1].op = "read"
        BY <1>4, <3>1, <3>2
      <3>4. r # <<>>
        BY <1>4, <3>1, <3>2
      <3> QED BY <1>3, <3>3, <3>4 DEF Pending, EndsFresh
    <2>3. CASE win.seen /\ q[Len(q)].snap.prefs = s.prefs
      <3>1. CASE Len(q) = 1
        BY <1>2, <1>3, <1>4, <2>3, <3>1 DEF Pending
      <3>2. CASE Len(q) # 1
        <4>1. Len(q) \in 1 .. Len(q) /\ Len(q) - 1 = Len(r) /\ r # <<>>
          BY <1>4, <3>2
        <4>2. r[Len(r)] = q[Len(q)]
          BY <1>4, <3>2, <4>1
        <4> QED BY <1>3, <2>3, <4>1, <4>2 DEF Pending, EndsFresh
      <3> QED BY <3>1, <3>2
    <2> QED BY <1>2, <1>9, <2>1, <2>2, <2>3 DEF EndsFresh
  <1> QED BY <1>2, <1>4, <1>6, <1>7, <1>8, <1>9


(* A step that changes no stored setting tells nobody. *)
LEMMA Unwritten ==
  ASSUME wins \in [Windows -> WindowSet], NEW w \in Windows, NEW win, wins' = [wins EXCEPT ![w] = win], UNCHANGED store
  PROVE  Write(w, win, store)
  <1>1. ~ Listened(store, store)
    BY DEF Listened
  <1>2. Told(w, [wins EXCEPT ![w] = win], Listened(store, store)) = [x \in Windows |-> [wins EXCEPT ![w] = win][x]]
    BY <1>1 DEF Told
  <1> QED BY <1>2 DEF Write

(* What the invariant says of one window and of the others. *)
LEMMA WindowFacts ==
  ASSUME CacheInv, NEW w \in Windows
  PROVE  /\ wins[w] \in WindowSet /\ TodoRight(wins[w]) /\ Agrees(wins[w], store)
         /\ wins[w].up # "closed" => store.theme # NoSettings
         /\ ~ past.torn => /\ wins[w].up # "boot" /\ OthersFollow(w)
                           /\ Pending(wins[w]) => EndsFresh(wins[w], store)
                           /\ copy.prefs = store.prefs \/ \E x \in Windows : Pending(wins[x])
         /\ past.keep # NoSettings => NotYet(wins[w]) /\ store.prefs = NoSettings /\ copy.prefs # NoSettings
  BY DEF CacheInv, CopyFollows, OthersFollow

(* The requests of a window that boots, one at a time. *)
LEMMA BootServes ==
  ASSUME NEW v \in WindowSet, v.up # "open", TodoRight(v), v.todo # <<>>, NEW r, r = Tail(v.todo)
  PROVE  /\ v.up = "boot" /\ r \in Seq(Requests) /\ Head(v.todo) \in Requests /\ Head(v.todo) = v.todo[1]
         /\ Head(v.todo).op \in {"init", "sync", "start"}
         /\ Head(v.todo).op = "init" => Len(r) = 1 /\ r[1].op = "sync"
         /\ Head(v.todo).op = "sync" => Len(r) = 1 /\ r[1].op = "start"
         /\ Head(v.todo).op = "start" => r = <<>>
  <1>1. v.todo \in Seq(Requests) /\ v.up = "boot" /\ BootTodo(v.todo)
    BY DEF WindowSet, TodoRight
  <1>2. PICK q \in Seq(Requests) : q = v.todo /\ q # <<>>
    BY <1>1
  <1>3. /\ r \in Seq(Requests) /\ Len(r) = Len(q) - 1 /\ Len(q) \in Nat /\ Len(q) >= 1 /\ Head(q) = q[1] /\ q[1] \in Requests
        /\ \A i \in 1 .. Len(r) : i + 1 \in 1 .. Len(q) /\ r[i] = q[i + 1]
        /\ (r = <<>> <=> Len(q) = 1)
    BY <1>2, TodoTail
  <1>4. CASE Len(q) = 2 /\ q[1].op = "init" /\ q[2].op = "sync"
    BY <1>1, <1>2, <1>3, <1>4
  <1>5. CASE Len(q) = 2 /\ q[1].op = "sync" /\ q[2].op = "start"
    BY <1>1, <1>2, <1>3, <1>5
  <1>6. CASE Len(q) = 1 /\ q[1].op = "start"
    BY <1>1, <1>2, <1>3, <1>6
  <1> QED BY <1>1, <1>2, <1>4, <1>5, <1>6 DEF BootTodo

LEMMA CopyLandsKeeps ==
  ASSUME CacheInv, NEW w \in Windows, CopyLands(w)
  PROVE  CacheInv'
  <1>1. PICK v : v = wins[w]
    OBVIOUS
  <1>2. PICK win : win = Rest(w)
    OBVIOUS
  <1>3. /\ v \in WindowSet /\ TodoRight(v) /\ Agrees(v, store) /\ (v.up # "closed" => store.theme # NoSettings)
        /\ ~ past.torn => /\ v.up # "boot" /\ OthersFollow(w) /\ (Pending(v) => EndsFresh(v, store))
        /\ past.keep # NoSettings => NotYet(v)
    BY <1>1, WindowFacts
  <1>4. v.todo # <<>> /\ Head(v.todo).op = "sync"
    BY <1>1 DEF CopyLands, Does
  <1>5. /\ win.up = v.up /\ win.todo = Tail(v.todo) /\ win.seen = v.seen /\ win.prefs = v.prefs /\ win.theme = v.theme
    BY <1>1, <1>2, <1>3 DEF Rest, WindowSet
  <1>6. win.todo \in Seq(Requests)
    BY <1>3, <1>4, <1>5, HeadTailProperties DEF WindowSet
  <1>7. win \in WindowSet
    BY <1>1, <1>2, <1>3, <1>5, <1>6 DEF Rest, WindowSet
  <1>8. Write(w, win, store)
    BY <1>2, Unwritten DEF CopyLands, CacheInv
  <1>9. UNCHANGED past /\ copy' = Head(v.todo).snap /\ store \in Stores /\ DOMAIN past = {"changes", "closes", "losses", "keep", "torn"}
    BY <1>1 DEF CopyLands, CacheInv
  <1>10. CASE v.up = "open"
    <2>1. /\ TodoRight(win) /\ Head(v.todo) \in Requests
          /\ Refreshing(v) => Refreshing(win)
          /\ EndsFresh(v, store) => IF Pending(win) THEN EndsFresh(win, store) ELSE Head(v.todo).snap.prefs = store.prefs
      BY <1>3, <1>4, <1>5, <1>7, <1>10, TodoServes
    <2>2. copy' \in Stores
      BY <1>4, <1>9, <2>1 DEF Requests
    <2>3. Agrees(win, store)
      BY <1>3, <1>5, <2>1 DEF Agrees
    <2>4. past.keep = NoSettings
      BY <1>3, <1>10 DEF NotYet
    <2>5. Pending(v)
      BY <1>4 DEF Pending
    <2> QED BY <1>3, <1>5, <1>7, <1>8, <1>9, <1>10, <2>1, <2>2, <2>3, <2>4, <2>5, WriteKeeps
  <1>11. CASE v.up # "open"
    <2>1. /\ v.up = "boot" /\ Head(v.todo) \in Requests /\ Head(v.todo) = v.todo[1]
          /\ Len(win.todo) = 1 /\ win.todo[1].op = "start"
      BY <1>3, <1>4, <1>5, <1>11, BootServes
    <2>2. copy' \in Stores
      BY <1>4, <1>9, <2>1 DEF Requests
    <2>3. TodoRight(win)
      <3>1. \A i \in 1 .. Len(win.todo) : i = 1
        BY <2>1
      <3>2. BootTodo(win.todo)
        BY <2>1 DEF BootTodo
      <3> QED BY <1>5, <2>1, <3>1, <3>2 DEF TodoRight
    <2>4. Agrees(win, store)
      BY <1>5, <2>1 DEF Agrees
    <2>5. past.keep = NoSettings
      BY <1>3, <1>4, <2>1 DEF NotYet
    <2> QED BY <1>3, <1>5, <1>7, <1>8, <1>9, <2>1, <2>2, <2>3, <2>4, <2>5, WriteKeeps
  <1> QED BY <1>10, <1>11


LEMMA BootCopyKeeps ==
  ASSUME CacheInv, NEW w \in Windows, BootCopyLands(w)
  PROVE  CacheInv'
  <1>1. PICK v : v = wins[w]
    OBVIOUS
  <1>2. PICK win : win = Mounted(Rest(w), store)
    OBVIOUS
  <1>3. /\ v \in WindowSet /\ TodoRight(v) /\ (v.up # "closed" => store.theme # NoSettings)
        /\ ~ past.torn => v.up # "boot"
        /\ past.keep # NoSettings => NotYet(v)
    BY <1>1, WindowFacts
  <1>4. v.todo # <<>> /\ Head(v.todo).op = "start"
    BY <1>1 DEF BootCopyLands, Does
  <1>5. v.up # "open"
    <2> SUFFICES ASSUME v.up = "open" PROVE FALSE
      OBVIOUS
    <2>1. Head(v.todo) = v.todo[1] /\ 1 \in 1 .. Len(v.todo)
      BY <1>3, <1>4, TodoTail DEF WindowSet
    <2> QED BY <1>3, <1>4, <2>1 DEF TodoRight
  <1>6. v.up = "boot" /\ Tail(v.todo) = <<>> /\ Head(v.todo) \in Requests /\ Head(v.todo) = v.todo[1]
    BY <1>3, <1>4, <1>5, BootServes
  <1>7. store \in Stores /\ DOMAIN past = {"changes", "closes", "losses", "keep", "torn"}
    BY DEF CacheInv
  <1>8. loadPrefs(store) \in [Prefs -> BOOLEAN] /\ readStoredTheme(store) \in Themes /\ store.side \in BOOLEAN
    BY <1>7, SettingsAssumption DEF loadPrefs, readStoredTheme, DefaultPrefs, Stores
  <1>9. PICK rest : rest = Rest(w)
    OBVIOUS
  <1>10. rest \in WindowSet /\ rest.todo = <<>>
    <2>1. rest = [v EXCEPT !.todo = <<>>]
      BY <1>1, <1>6, <1>9 DEF Rest
    <2>2. <<>> \in Seq(Requests)
      OBVIOUS
    <2> QED BY <1>3, <2>1, <2>2 DEF WindowSet
  <1>11. /\ win \in WindowSet /\ win.up = "open" /\ win.todo = <<>>
         /\ win.prefs = loadPrefs(store) /\ win.theme = readStoredTheme(store)
    BY <1>2, <1>8, <1>9, <1>10 DEF Mounted, WindowSet
  <1>12. Write(w, win, store)
    BY <1>2, Unwritten DEF BootCopyLands, CacheInv
  <1>13. UNCHANGED past /\ copy' = Head(v.todo).snap
    BY <1>1 DEF BootCopyLands
  <1>14. copy' \in Stores
    BY <1>4, <1>6, <1>13 DEF Requests
  <1>15. TodoRight(win)
    <2>1. 1 .. Len(win.todo) = {}
      BY <1>11
    <2> QED BY <1>11, <2>1 DEF TodoRight
  <1>16. Agrees(win, store)
    BY <1>11 DEF Agrees
  <1>17. past.keep = NoSettings
    BY <1>3, <1>4, <1>6 DEF NotYet
  <1> QED BY <1>3, <1>6, <1>7, <1>11, <1>12, <1>13, <1>14, <1>15, <1>16, <1>17, WriteKeeps

LEMMA EventKeeps ==
  ASSUME CacheInv, NEW w \in Windows, StorageEvent(w)
  PROVE  CacheInv'
  <1>1. PICK v : v = wins[w]
    OBVIOUS
  <1>2. PICK win : win = wins'[w]
    OBVIOUS
  <1>3. /\ v \in WindowSet /\ TodoRight(v) /\ (v.up # "closed" => store.theme # NoSettings)
        /\ ~ past.torn => v.up # "boot" /\ OthersFollow(w)
        /\ past.keep # NoSettings => NotYet(v) /\ store.prefs = NoSettings
    BY <1>1, WindowFacts
  <1>4. wins \in [Windows -> WindowSet] /\ ~ v.seen /\ UNCHANGED <<store, copy, past>>
    BY <1>1 DEF StorageEvent, CacheInv
  <1>5. /\ win.up = v.up /\ win.prefs = v.prefs /\ win.theme = v.theme /\ win.dom = v.dom /\ win.side = v.side /\ win.seen
        /\ v.up = "open" => win.todo = Append(v.todo, [op |-> "read"])
        /\ v.up # "open" => win.todo = v.todo
        /\ DOMAIN win = {"up", "prefs", "theme", "dom", "side", "todo", "seen"}
    BY <1>1, <1>2, <1>3, <1>4 DEF StorageEvent, WindowSet
  <1>6. wins' = [wins EXCEPT ![w] = win]
    BY <1>2, <1>4 DEF StorageEvent
  <1>7. Write(w, win, store)
    BY <1>4, <1>6, Unwritten
  <1>8. store \in Stores /\ copy \in Stores /\ DOMAIN past = {"changes", "closes", "losses", "keep", "torn"}
    BY DEF CacheInv
  <1>9. [op |-> "read"] \in Requests
    BY DEF Requests
  <1>10. win.todo \in Seq(Requests)
    <2>1. v.todo \in Seq(Requests)
      BY <1>3 DEF WindowSet
    <2>2. Append(v.todo, [op |-> "read"]) \in Seq(Requests)
      BY <1>9, <2>1, AppendProperties
    <2> QED BY <1>5, <2>1, <2>2
  <1>11. win \in WindowSet
    <2>1. wins'[w] = [[v EXCEPT !.seen = TRUE] EXCEPT !.todo = win.todo]
      BY <1>1, <1>2, <1>3, <1>4 DEF StorageEvent, WindowSet
    <2> QED BY <1>2, <1>3, <1>10, <2>1 DEF WindowSet
  <1>12. CASE v.up = "open"
    <2>1. TodoRight(win) /\ Pending(win) /\ Refreshing(win) /\ EndsFresh(win, store)
      BY <1>3, <1>5, <1>9, <1>11, <1>12, TodoAdds
    <2>2. Agrees(win, store)
      BY <2>1 DEF Agrees
    <2>3. past.keep = NoSettings
      BY <1>3, <1>12 DEF NotYet
    <2> QED BY <1>3, <1>4, <1>5, <1>7, <1>8, <1>11, <1>12, <2>1, <2>2, <2>3, WriteKeeps
  <1>13. CASE v.up = "boot"
    <2>1. TodoRight(win) /\ Agrees(win, store)
      BY <1>3, <1>5, <1>13 DEF TodoRight, Agrees
    <2>2. past.keep # NoSettings => NotYet(win) /\ store.prefs = NoSettings
      BY <1>3, <1>5 DEF NotYet
    <2> QED BY <1>3, <1>4, <1>5, <1>7, <1>8, <1>11, <1>13, <2>1, <2>2, WriteKeeps
  <1>14. v.up # "closed" /\ v.up \in {"closed", "boot", "open"}
    BY <1>3, <1>4 DEF TodoRight, WindowSet
  <1> QED BY <1>12, <1>13, <1>14


LEMMA RefreshReadKeeps ==
  ASSUME CacheInv, NEW w \in Windows, refreshSettingsFromCache(w)
  PROVE  CacheInv'
  <1>1. PICK v : v = wins[w]
    OBVIOUS
  <1>2. PICK e : e = [op |-> "put", snap |-> store]
    OBVIOUS
  <1>3. PICK rest : rest = Rest(w)
    OBVIOUS
  <1>4. PICK win : win = [rest EXCEPT !.todo = Append(@, e)]
    OBVIOUS
  <1>5. /\ v \in WindowSet /\ TodoRight(v) /\ (v.up # "closed" => store.theme # NoSettings)
        /\ ~ past.torn => /\ v.up # "boot" /\ OthersFollow(w)
        /\ past.keep # NoSettings => NotYet(v)
    BY <1>1, WindowFacts
  <1>6. v.todo # <<>> /\ Head(v.todo).op = "read"
    BY <1>1 DEF refreshSettingsFromCache, Does
  <1>7. v.up = "open"
    BY <1>5, <1>6, BootServes
  <1>8. store \in Stores /\ copy \in Stores /\ DOMAIN past = {"changes", "closes", "losses", "keep", "torn"}
    BY DEF CacheInv
  <1>9. e \in Requests /\ e.op = "put" /\ e.snap = store
    BY <1>2, <1>8 DEF Requests
  <1>10. Tail(v.todo) \in Seq(Requests)
    BY <1>5, <1>6, HeadTailProperties DEF WindowSet
  <1>11. rest \in WindowSet /\ rest.up = v.up /\ rest.todo = Tail(v.todo) /\ rest.seen = v.seen
    BY <1>1, <1>3, <1>5, <1>10 DEF Rest, WindowSet
  <1>12. TodoRight(rest)
    BY <1>5, <1>6, <1>7, <1>11, TodoServes
  <1>13. Append(rest.todo, e) \in Seq(Requests)
    BY <1>9, <1>11, AppendProperties DEF WindowSet
  <1>14. win \in WindowSet /\ win.up = "open" /\ win.todo = Append(rest.todo, e) /\ win.seen = rest.seen
    BY <1>4, <1>7, <1>11, <1>13 DEF WindowSet
  <1>15. TodoRight(win) /\ Pending(win) /\ Refreshing(win) /\ EndsFresh(win, store)
    <2>1. e.op \in {"sync", "read", "put"} /\ (e.op = "put" => e.snap.theme # NoSettings) /\ e.snap.prefs = store.prefs
      BY <1>5, <1>7, <1>9
    <2> QED BY <1>7, <1>9, <1>11, <1>12, <1>14, <2>1, TodoAdds
  <1>16. Write(w, win, store)
    <2>1. wins' = [wins EXCEPT ![w] = win] /\ UNCHANGED store
      BY <1>2, <1>3, <1>4 DEF refreshSettingsFromCache, collectSettingsSnapshot
    <2> QED BY <2>1, Unwritten DEF CacheInv
  <1>17. UNCHANGED past /\ UNCHANGED copy
    BY DEF refreshSettingsFromCache
  <1>18. Agrees(win, store)
    BY <1>15 DEF Agrees
  <1>19. past.keep = NoSettings
    BY <1>5, <1>7 DEF NotYet
  <1> QED BY <1>5, <1>7, <1>8, <1>14, <1>15, <1>16, <1>17, <1>18, <1>19, WriteKeeps

LEMMA RefreshHandledKeeps ==
  ASSUME CacheInv, NEW w \in Windows, RefreshHandled(w)
  PROVE  CacheInv'
  <1>1. PICK v : v = wins[w]
    OBVIOUS
  <1>2. PICK snap : snap = Head(v.todo).snap
    OBVIOUS
  <1>3. PICK s : s = [store EXCEPT !.theme = snap.theme]
    OBVIOUS
  <1>4. PICK e : e = [op |-> "sync", snap |-> s]
    OBVIOUS
  <1>5. PICK rest : rest = [Rest(w) EXCEPT !.prefs = loadPrefs(store)]
    OBVIOUS
  <1>6. PICK win : win = [[rest EXCEPT !.theme = snap.theme] EXCEPT !.dom = snap.theme, !.todo = Append(@, e)]
    OBVIOUS
  <1>7. /\ v \in WindowSet /\ TodoRight(v) /\ (v.up # "closed" => store.theme # NoSettings)
        /\ ~ past.torn => /\ v.up # "boot" /\ OthersFollow(w)
        /\ past.keep # NoSettings => NotYet(v)
    BY <1>1, WindowFacts
  <1>8. v.todo # <<>> /\ Head(v.todo).op = "put"
    BY <1>1 DEF RefreshHandled, Does
  <1>9. v.up = "open"
    BY <1>7, <1>8, BootServes
  <1>10. store \in Stores /\ copy \in Stores /\ DOMAIN past = {"changes", "closes", "losses", "keep", "torn"}
    BY DEF CacheInv
  <1>11. loadPrefs(store) \in [Prefs -> BOOLEAN]
    BY <1>10, SettingsAssumption DEF loadPrefs, DefaultPrefs, Stores
  <1>12. Tail(v.todo) \in Seq(Requests) /\ Head(v.todo) \in Requests
    BY <1>7, <1>8, HeadTailProperties DEF WindowSet
  <1>13. rest \in WindowSet /\ rest.up = v.up /\ rest.todo = Tail(v.todo) /\ rest.seen = v.seen /\ rest.prefs = loadPrefs(store)
    <2>1. rest = [[v EXCEPT !.todo = Tail(v.todo)] EXCEPT !.prefs = loadPrefs(store)]
      BY <1>1, <1>5 DEF Rest
    <2> QED BY <1>7, <1>11, <1>12, <2>1 DEF WindowSet
  <1>14. TodoRight(rest) /\ snap \in Stores /\ snap.theme # NoSettings
    <2>1. TodoRight(rest) /\ snap.theme # NoSettings
      BY <1>2, <1>7, <1>8, <1>9, <1>13, TodoServes
    <2>2. snap \in Stores
      BY <1>2, <1>8, <1>12 DEF Requests
    <2> QED BY <2>1, <2>2
  <1>15. snap.theme \in Themes
    BY <1>14 DEF Stores
  <1>16. s \in Stores /\ s.theme = snap.theme /\ s.prefs = store.prefs
    BY <1>3, <1>10, <1>15 DEF Stores
  <1>17. e \in Requests /\ e.op = "sync" /\ e.snap = s
    BY <1>4, <1>16 DEF Requests
  <1>18. Append(rest.todo, e) \in Seq(Requests)
    BY <1>13, <1>17, AppendProperties DEF WindowSet
  <1>19. /\ win \in WindowSet /\ win.up = "open" /\ win.todo = Append(rest.todo, e) /\ win.seen = rest.seen
         /\ win.prefs = loadPrefs(store) /\ win.theme = snap.theme
    BY <1>6, <1>9, <1>13, <1>15, <1>18 DEF WindowSet
  <1>20. TodoRight(win) /\ Pending(win) /\ EndsFresh(win, s)
    <2>1. e.op \in {"sync", "read", "put"} /\ e.op # "put" /\ e.snap.prefs = s.prefs
      BY <1>17
    <2>2. rest \in WindowSet /\ rest.up = "open" /\ TodoRight(rest)
      BY <1>9, <1>13, <1>14
    <2>3. win \in WindowSet /\ win.up = "open" /\ win.todo = Append(rest.todo, e) /\ e \in Requests
      BY <1>17, <1>19
    <2> QED BY ONLY <2>1, <2>2, <2>3, TodoAdds
  <1>21. Write(w, win, s) /\ copy' = snap /\ UNCHANGED past
    <2>1. ApplyTheme([rest EXCEPT !.theme = snap.theme], store, snap.theme).win = win
          /\ ApplyTheme([rest EXCEPT !.theme = snap.theme], store, snap.theme).store = s
      BY <1>3, <1>4, <1>6 DEF ApplyTheme, queueSettingsCacheSync, collectSettingsSnapshot
    <2>2. /\ copy' = snap /\ UNCHANGED past
          /\ snap.theme # NoSettings => Write(w, ApplyTheme([rest EXCEPT !.theme = snap.theme], store, snap.theme).win,
                                              ApplyTheme([rest EXCEPT !.theme = snap.theme], store, snap.theme).store)
      BY <1>1, <1>2, <1>5 DEF RefreshHandled
    <2> QED BY <1>14, <2>1, <2>2
  <1>22. Agrees(win, s)
    BY <1>14, <1>16, <1>19 DEF Agrees, loadPrefs, readStoredTheme
  <1>23. past.keep = NoSettings
    BY <1>7, <1>9 DEF NotYet
  <1> QED BY <1>7, <1>9, <1>10, <1>14, <1>16, <1>19, <1>20, <1>21, <1>22, <1>23, WriteKeeps


LEMMA OpenKeeps ==
  ASSUME CacheInv, NEW w \in Windows, Open(w)
  PROVE  CacheInv'
  <1>1. PICK t : t = readStoredTheme(store)
    OBVIOUS
  <1>2. PICK s : s = [store EXCEPT !.theme = t]
    OBVIOUS
  <1>3. PICK e : e = [op |-> "sync", snap |-> s]
    OBVIOUS
  <1>4. PICK opened : opened = [Closed EXCEPT !.up = "boot", !.todo = <<[op |-> "init"]>>]
    OBVIOUS
  <1>5. PICK win : win = [opened EXCEPT !.dom = t, !.todo = Append(@, e)]
    OBVIOUS
  <1>6. store \in Stores /\ copy \in Stores /\ DOMAIN past = {"changes", "closes", "losses", "keep", "torn"}
    BY DEF CacheInv
  <1>7. t \in Themes
    BY <1>1, <1>6, SettingsAssumption DEF readStoredTheme, Stores
  <1>8. s \in Stores /\ s.theme = t /\ s.prefs = store.prefs
    BY <1>2, <1>6, <1>7 DEF Stores
  <1>9. e \in Requests /\ e.op = "sync"
    BY <1>3, <1>8 DEF Requests
  <1>10. PICK i \in Requests : i = [op |-> "init"]
    BY DEF Requests
  <1>11. i.op = "init"
    BY <1>10
  <1>12. <<i>> \in Seq(Requests) /\ Len(<<i>>) = 1 /\ <<i>>[1] = i
    OBVIOUS
  <1>13. PICK r : r = Append(<<i>>, e)
    OBVIOUS
  <1>14. r \in Seq(Requests) /\ Len(r) = 2 /\ r[1] = i /\ r[2] = e
    BY <1>9, <1>12, <1>13, Added
  <1>15. opened \in WindowSet /\ opened.up = "boot" /\ opened.todo = <<i>> /\ opened.seen
    <2>1. Closed \in WindowSet /\ Closed.seen
      <3>1. DefaultPrefs \in [Prefs -> BOOLEAN] /\ <<>> \in Seq(Requests)
        BY DEF DefaultPrefs
      <3> QED BY <3>1, SettingsAssumption DEF Closed, WindowSet
    <2> QED BY <1>4, <1>10, <1>12, <2>1 DEF WindowSet
  <1>16. win \in WindowSet /\ win.up = "boot" /\ win.todo = r
    BY <1>5, <1>7, <1>13, <1>14, <1>15 DEF WindowSet
  <1>17. TodoRight(win) /\ NotYet(win)
    <2>1. BootTodo(win.todo) /\ \A j \in 1 .. Len(win.todo) : win.todo[j].op # "put"
      <3>1. \A j \in 1 .. Len(r) : j = 1 \/ j = 2
        BY <1>14
      <3> QED BY <1>9, <1>11, <1>14, <1>16, <3>1 DEF BootTodo
    <2> QED BY <1>11, <1>14, <1>16, <2>1 DEF TodoRight, NotYet
  <1>18. Agrees(win, s)
    BY <1>16 DEF Agrees
  <1>19. Write(w, win, s)
    <2>1. ApplyTheme(opened, store, t).win = win /\ ApplyTheme(opened, store, t).store = s
      BY <1>2, <1>3, <1>5 DEF ApplyTheme, queueSettingsCacheSync, collectSettingsSnapshot
    <2> QED BY <1>1, <1>4, <2>1 DEF Open
  <1>20. UNCHANGED copy /\ past' = [past EXCEPT !.torn = TRUE]
    BY DEF Open
  <1>21. DOMAIN past' = {"changes", "closes", "losses", "keep", "torn"} /\ past'.keep = past.keep /\ past'.torn
    BY <1>6, <1>20
  <1>22. past.keep # NoSettings => store.prefs = NoSettings
    BY WindowFacts
  <1>23. s.theme # NoSettings
    BY <1>7, <1>8, SettingsAssumption
  <1> QED BY <1>6, <1>8, <1>16, <1>17, <1>18, <1>19, <1>20, <1>21, <1>22, <1>23, WriteKeeps

LEMMA InitKeeps ==
  ASSUME CacheInv, NEW w \in Windows, initSettingsCache(w)
  PROVE  CacheInv'
  <1>1. PICK v : v = wins[w]
    OBVIOUS
  <1>2. PICK r : r = Tail(v.todo)
    OBVIOUS
  <1>3. PICK rest : rest = [v EXCEPT !.todo = Tail(@)]
    OBVIOUS
  <1>4. /\ v \in WindowSet /\ TodoRight(v) /\ (v.up # "closed" => store.theme # NoSettings)
        /\ ~ past.torn => v.up # "boot"
        /\ past.keep # NoSettings => store.prefs = NoSettings /\ copy.prefs # NoSettings
    BY <1>1, WindowFacts
  <1>5. v.todo # <<>> /\ Head(v.todo).op = "init"
    BY <1>1 DEF initSettingsCache
  <1>6. v.up # "open"
    <2> SUFFICES ASSUME v.up = "open" PROVE FALSE
      OBVIOUS
    <2>1. Head(v.todo) = v.todo[1] /\ 1 \in 1 .. Len(v.todo)
      BY <1>4, <1>5, TodoTail DEF WindowSet
    <2> QED BY <1>4, <1>5, <2>1 DEF TodoRight
  <1>7. v.up = "boot" /\ r \in Seq(Requests) /\ Len(r) = 1 /\ r[1].op = "sync"
    BY <1>2, <1>4, <1>5, <1>6, BootServes
  <1>8. rest \in WindowSet /\ rest.up = "boot" /\ rest.todo = r
    BY <1>2, <1>3, <1>4, <1>7 DEF WindowSet
  <1>9. store \in Stores /\ copy \in Stores /\ DOMAIN past = {"changes", "closes", "losses", "keep", "torn"} /\ UNCHANGED copy
    BY DEF CacheInv, initSettingsCache
  <1>10. past.torn
    BY <1>4, <1>7
  <1>11. CASE store.prefs = NoSettings /\ copy.prefs # NoSettings
    <2>1. PICK s : s = applySettingsSnapshot(store, copy)
      OBVIOUS
    <2>2. PICK win : win = Mounted(rest, s)
      OBVIOUS
    <2>3. Write(w, win, s) /\ past' = [past EXCEPT !.keep = NoSettings]
      BY <1>1, <1>3, <1>11, <2>1, <2>2 DEF initSettingsCache
    <2>4. /\ DOMAIN s = {"prefs", "theme", "side"} /\ s.prefs = copy.prefs /\ s.side = copy.side
          /\ s.theme = IF copy.theme = NoSettings THEN store.theme ELSE copy.theme
      BY <1>9, <1>11, <2>1 DEF applySettingsSnapshot, Stores
    <2>5. s \in Stores /\ s.theme # NoSettings /\ s.prefs \in [Prefs -> BOOLEAN]
      <3>1. s = [store EXCEPT !.prefs = s.prefs, !.theme = s.theme, !.side = s.side]
        BY <1>9, <2>1, <2>4 DEF applySettingsSnapshot, Stores
      <3> QED BY <1>4, <1>7, <1>9, <1>11, <2>4, <3>1 DEF Stores
    <2>6. loadPrefs(s) \in [Prefs -> BOOLEAN] /\ readStoredTheme(s) \in Themes /\ s.side \in BOOLEAN
      BY <2>5 DEF loadPrefs, readStoredTheme, DefaultPrefs, Stores
    <2>7. /\ win \in WindowSet /\ win.up = "open" /\ win.todo = r
          /\ win.prefs = loadPrefs(s) /\ win.theme = readStoredTheme(s)
      BY <1>8, <2>2, <2>6 DEF Mounted, WindowSet
    <2>8. TodoRight(win)
      <3>1. \A j \in 1 .. Len(r) : j = 1
        BY <1>7
      <3> QED BY <1>7, <2>7, <3>1 DEF TodoRight
    <2>9. Agrees(win, s)
      BY <2>7 DEF Agrees
    <2>10. DOMAIN past' = {"changes", "closes", "losses", "keep", "torn"} /\ past'.keep = NoSettings /\ past'.torn
      BY <1>9, <1>10, <2>3
    <2> QED BY <1>9, <2>3, <2>5, <2>7, <2>8, <2>9, <2>10, WriteKeeps
  <1>12. CASE ~ (store.prefs = NoSettings /\ copy.prefs # NoSettings)
    <2>1. PICK e : e = [op |-> "start", snap |-> store]
      OBVIOUS
    <2>2. PICK win : win = [rest EXCEPT !.todo = Append(@, e)]
      OBVIOUS
    <2>3. Write(w, win, store) /\ UNCHANGED past
      BY <1>1, <1>3, <1>12, <2>1, <2>2 DEF initSettingsCache
    <2>4. e \in Requests /\ e.op = "start"
      BY <1>9, <2>1 DEF Requests
    <2>5. PICK q : q = Append(r, e)
      OBVIOUS
    <2>6. q \in Seq(Requests) /\ Len(q) = 2 /\ q[1].op = "sync" /\ q[2].op = "start"
      BY <1>7, <2>4, <2>5, Added
    <2>7. win \in WindowSet /\ win.up = "boot" /\ win.todo = q
      BY <1>8, <2>2, <2>5, <2>6 DEF WindowSet
    <2>8. TodoRight(win) /\ Agrees(win, store)
      <3>1. BootTodo(q) /\ \A j \in 1 .. Len(q) : q[j].op # "put"
        <4>1. \A j \in 1 .. Len(q) : j = 1 \/ j = 2
          BY <2>6
        <4> QED BY <2>6, <4>1 DEF BootTodo
      <3> QED BY <2>7, <3>1 DEF TodoRight, Agrees
    <2>9. past.keep = NoSettings
      BY <1>4, <1>12
    <2> QED BY <1>4, <1>7, <1>9, <1>10, <2>3, <2>7, <2>8, <2>9, WriteKeeps
  <1> QED BY <1>11, <1>12


(* A change by the user: the window works with what it stores and copies it. *)
LEMMA ChangeKeeps ==
  ASSUME CacheInv, NEW w \in Windows, NEW u \in WindowSet, NEW win \in WindowSet, NEW s \in Stores, NEW e \in Requests,
         Changes(w), Changed, UNCHANGED copy,
         u.up = "open", u.todo = wins[w].todo, u.seen = wins[w].seen,
         e.op = "sync", e.snap = s, win.up = "open", win.todo = Append(u.todo, e), win.seen = u.seen,
         Agrees(wins[w], store) => Refreshing(wins[w]) \/ (win.prefs = loadPrefs(s) /\ win.theme = readStoredTheme(s)),
         s.theme # NoSettings, Write(w, win, s)
  PROVE  CacheInv'
  <1>1. PICK v : v = wins[w]
    OBVIOUS
  <1>2. /\ v \in WindowSet /\ TodoRight(v) /\ Agrees(v, store)
        /\ ~ past.torn => OthersFollow(w)
        /\ past.keep # NoSettings => NotYet(v)
    BY <1>1, WindowFacts
  <1>3. v.up = "open"
    BY <1>1 DEF Changes
  <1>4. e.op \in {"sync", "read", "put"} /\ e.op # "put" /\ e.snap.prefs = s.prefs
    OBVIOUS
  <1>5. win.todo = Append(v.todo, e) /\ win.seen = v.seen
    BY <1>1
  <1>6. /\ TodoRight(win) /\ Pending(win) /\ EndsFresh(win, s)
        /\ win.seen = v.seen /\ Refreshing(v) => Refreshing(win)
    BY <1>2, <1>3, <1>4, <1>5, TodoAdds
  <1>7. Agrees(win, s)
    BY <1>1, <1>2, <1>5, <1>6 DEF Agrees
  <1>8. past.keep = NoSettings
    BY <1>2, <1>3 DEF NotYet
  <1>9. DOMAIN past = {"changes", "closes", "losses", "keep", "torn"} /\ copy \in Stores
    BY DEF CacheInv
  <1>10. /\ DOMAIN past' = {"changes", "closes", "losses", "keep", "torn"} /\ past'.keep = past.keep
         /\ past'.torn = (past.torn /\ ~(Quiet /\ \A x \in Windows : wins[x].up # "boot"))
    BY <1>9 DEF Changed
  <1>11. ASSUME Quiet, \A x \in Windows : wins[x].up # "boot" PROVE OthersFollow(w)
    <2>1. \A x \in Windows : ~ Pending(wins[x])
      BY <1>11 DEF Quiet, Pending
    <2> QED BY <1>11, <2>1 DEF OthersFollow
  <1>12. ~ past'.torn => OthersFollow(w)
    BY <1>2, <1>10, <1>11
  <1> QED BY <1>6, <1>7, <1>8, <1>9, <1>10, <1>12, WriteKeeps

LEMMA SetPreferencesKeeps ==
  ASSUME CacheInv, NEW w \in Windows, NEW p \in Prefs, setPreferences(w, p)
  PROVE  CacheInv'
  <1>1. PICK v : v = wins[w]
    OBVIOUS
  <1>2. PICK next : next = [v.prefs EXCEPT ![p] = ~@]
    OBVIOUS
  <1>3. PICK s : s = [store EXCEPT !.prefs = next]
    OBVIOUS
  <1>4. PICK e : e = [op |-> "sync", snap |-> s]
    OBVIOUS
  <1>5. PICK win : win = [v EXCEPT !.prefs = next, !.todo = Append(@, e)]
    OBVIOUS
  <1>6. v \in WindowSet /\ store \in Stores /\ (v.up # "closed" => store.theme # NoSettings)
    BY <1>1, WindowFacts DEF CacheInv
  <1>7. next \in [Prefs -> BOOLEAN]
    BY <1>2, <1>6 DEF WindowSet
  <1>8. s \in Stores /\ s.prefs = next /\ s.theme = store.theme
    BY <1>3, <1>6, <1>7 DEF Stores
  <1>9. e \in Requests /\ e.op = "sync" /\ e.snap = s
    BY <1>4, <1>8 DEF Requests
  <1>10. Append(v.todo, e) \in Seq(Requests)
    BY <1>6, <1>9, AppendProperties DEF WindowSet
  <1>11. Changes(w) /\ Changed /\ UNCHANGED copy /\ v.up = "open"
    BY <1>1 DEF setPreferences, Changes
  <1>12. /\ win \in WindowSet /\ win.up = "open" /\ win.todo = Append(v.todo, e) /\ win.seen = v.seen
         /\ win.prefs = next /\ win.theme = v.theme
    BY <1>5, <1>6, <1>7, <1>10, <1>11 DEF WindowSet
  <1>13. Write(w, win, s)
    BY <1>1, <1>2, <1>3, <1>4, <1>5 DEF setPreferences, queueSettingsCacheSync, collectSettingsSnapshot
  <1>14. Agrees(v, store) => Refreshing(v) \/ (win.prefs = loadPrefs(s) /\ win.theme = readStoredTheme(s))
    BY <1>7, <1>8, <1>11, <1>12, SettingsAssumption DEF Agrees, loadPrefs, readStoredTheme
  <1>15. s.theme # NoSettings
    BY <1>6, <1>8, <1>11
  <1> QED BY <1>1, <1>6, <1>8, <1>9, <1>11, <1>12, <1>13, <1>14, <1>15, ChangeKeeps

LEMMA SetThemeKeeps ==
  ASSUME CacheInv, NEW w \in Windows, NEW t \in Themes, setTheme(w, t)
  PROVE  CacheInv'
  <1>1. PICK v : v = wins[w]
    OBVIOUS
  <1>2. PICK u : u = [v EXCEPT !.theme = t]
    OBVIOUS
  <1>3. PICK s : s = [store EXCEPT !.theme = t]
    OBVIOUS
  <1>4. PICK e : e = [op |-> "sync", snap |-> s]
    OBVIOUS
  <1>5. PICK win : win = [u EXCEPT !.dom = t, !.todo = Append(@, e)]
    OBVIOUS
  <1>6. v \in WindowSet /\ store \in Stores
    BY <1>1, WindowFacts DEF CacheInv
  <1>7. s \in Stores /\ s.prefs = store.prefs /\ s.theme = t /\ t # NoSettings
    BY <1>3, <1>6, SettingsAssumption DEF Stores
  <1>8. e \in Requests /\ e.op = "sync" /\ e.snap = s
    BY <1>4, <1>7 DEF Requests
  <1>9. Changes(w) /\ Changed /\ UNCHANGED copy /\ v.up = "open"
    BY <1>1 DEF setTheme, Changes
  <1>10. u \in WindowSet /\ u.up = "open" /\ u.todo = v.todo /\ u.seen = v.seen /\ u.prefs = v.prefs /\ u.theme = t
    BY <1>2, <1>6, <1>9 DEF WindowSet
  <1>11. Append(u.todo, e) \in Seq(Requests)
    BY <1>8, <1>10, AppendProperties DEF WindowSet
  <1>12. /\ win \in WindowSet /\ win.up = "open" /\ win.todo = Append(u.todo, e) /\ win.seen = u.seen
         /\ win.prefs = v.prefs /\ win.theme = t
    BY <1>5, <1>10, <1>11 DEF WindowSet
  <1>13. Write(w, win, s)
    <2>1. ApplyTheme(u, store, t).win = win /\ ApplyTheme(u, store, t).store = s
      BY <1>3, <1>4, <1>5 DEF ApplyTheme, queueSettingsCacheSync, collectSettingsSnapshot
    <2> QED BY <1>1, <1>2, <2>1 DEF setTheme
  <1>14. Agrees(v, store) => Refreshing(v) \/ (win.prefs = loadPrefs(s) /\ win.theme = readStoredTheme(s))
    BY <1>7, <1>9, <1>12 DEF Agrees, loadPrefs, readStoredTheme
  <1> QED BY <1>1, <1>7, <1>8, <1>9, <1>10, <1>12, <1>13, <1>14, ChangeKeeps

LEMMA ToggleKeeps ==
  ASSUME CacheInv, NEW w \in Windows, ToggleSidebar(w)
  PROVE  CacheInv'
  <1>1. PICK v : v = wins[w]
    OBVIOUS
  <1>2. PICK s : s = [store EXCEPT !.side = ~ v.side]
    OBVIOUS
  <1>3. PICK e : e = [op |-> "sync", snap |-> s]
    OBVIOUS
  <1>4. PICK win : win = [v EXCEPT !.side = ~@, !.todo = Append(@, e)]
    OBVIOUS
  <1>5. v \in WindowSet /\ store \in Stores /\ (v.up # "closed" => store.theme # NoSettings)
    BY <1>1, WindowFacts DEF CacheInv
  <1>6. s \in Stores /\ s.prefs = store.prefs /\ s.theme = store.theme
    BY <1>2, <1>5 DEF Stores
  <1>7. e \in Requests /\ e.op = "sync" /\ e.snap = s
    BY <1>3, <1>6 DEF Requests
  <1>8. Append(v.todo, e) \in Seq(Requests)
    BY <1>5, <1>7, AppendProperties DEF WindowSet
  <1>9. Changes(w) /\ Changed /\ UNCHANGED copy /\ v.up = "open"
    BY <1>1 DEF ToggleSidebar, Changes
  <1>10. /\ win \in WindowSet /\ win.up = "open" /\ win.todo = Append(v.todo, e) /\ win.seen = v.seen
         /\ win.prefs = v.prefs /\ win.theme = v.theme
    BY <1>4, <1>5, <1>8, <1>9 DEF WindowSet
  <1>11. Write(w, win, s)
    BY <1>1, <1>2, <1>3, <1>4 DEF ToggleSidebar, queueSettingsCacheSync, collectSettingsSnapshot
  <1>12. Agrees(v, store) => Refreshing(v) \/ (win.prefs = loadPrefs(s) /\ win.theme = readStoredTheme(s))
    BY <1>6, <1>9, <1>10 DEF Agrees, loadPrefs, readStoredTheme
  <1>13. s.theme # NoSettings
    BY <1>5, <1>6, <1>9
  <1> QED BY <1>1, <1>5, <1>6, <1>7, <1>9, <1>10, <1>11, <1>12, <1>13, ChangeKeeps

LEMMA CloseKeeps ==
  ASSUME CacheInv, NEW w \in Windows, Close(w)
  PROVE  CacheInv'
  <1>1. PICK v : v = wins[w]
    OBVIOUS
  <1>2. /\ ~ past.torn => OthersFollow(w) /\ (copy.prefs = store.prefs \/ \E x \in Windows : Pending(wins[x]))
        /\ past.keep # NoSettings => store.prefs = NoSettings
    BY WindowFacts
  <1>3. store \in Stores /\ copy \in Stores /\ DOMAIN past = {"changes", "closes", "losses", "keep", "torn"}
    BY DEF CacheInv
  <1>4. Closed \in WindowSet /\ Closed.up = "closed" /\ Closed.todo = <<>> /\ Closed.seen
    <2>1. DefaultPrefs \in [Prefs -> BOOLEAN] /\ <<>> \in Seq(Requests)
      BY DEF DefaultPrefs
    <2> QED BY <2>1, SettingsAssumption DEF Closed, WindowSet
  <1>5. TodoRight(Closed) /\ Agrees(Closed, store) /\ NotYet(Closed) /\ ~ Pending(Closed)
    <2>1. 1 .. Len(Closed.todo) = {}
      BY <1>4
    <2> QED BY <1>4, <2>1 DEF TodoRight, Agrees, NotYet, Pending
  <1>6. Write(w, Closed, store)
    BY Unwritten DEF Close, CacheInv
  <1>7. /\ DOMAIN past' = {"changes", "closes", "losses", "keep", "torn"} /\ past'.keep = past.keep
        /\ past'.torn = (past.torn \/ v.todo # <<>> \/ ~ v.seen) /\ UNCHANGED copy
    BY <1>1, <1>3 DEF Close
  <1>8. ASSUME ~ past'.torn
        PROVE  OthersFollow(w) /\ (copy.prefs = store.prefs \/ \E x \in Windows : x # w /\ Pending(wins[x]))
    <2>1. ~ past.torn /\ ~ Pending(wins[w])
      BY <1>1, <1>7, <1>8 DEF Pending
    <2> QED BY <1>2, <2>1
  <1> QED BY <1>2, <1>3, <1>4, <1>5, <1>6, <1>7, <1>8, WriteKeeps

LEMMA LoseKeeps ==
  ASSUME CacheInv, Lose
  PROVE  CacheInv'
  <1>1. /\ store' = [prefs |-> NoSettings, theme |-> NoSettings, side |-> FALSE]
        /\ \A w \in Windows : wins[w].up = "closed"
        /\ UNCHANGED <<copy, wins>>
    BY DEF Lose
  <1>2. /\ DOMAIN past' = {"changes", "closes", "losses", "keep", "torn"} /\ past'.keep = copy.prefs /\ past'.torn
    BY DEF Lose, CacheInv
  <1>3. store' \in Stores /\ store'.prefs = NoSettings
    BY <1>1 DEF Stores
  <1>4. \A w \in Windows : TodoRight(wins'[w]) /\ Agrees(wins'[w], store') /\ NotYet(wins'[w])
    BY <1>1 DEF CacheInv, Agrees, NotYet
  <1> QED BY <1>1, <1>2, <1>3, <1>4 DEF CacheInv

LEMMA InitSettings == SettingsInit => CacheInv
  <1> SUFFICES ASSUME SettingsInit PROVE CacheInv
    OBVIOUS
  <1>1. Closed \in WindowSet /\ Closed.up = "closed" /\ Closed.todo = <<>> /\ Closed.seen
    <2>1. DefaultPrefs \in [Prefs -> BOOLEAN] /\ <<>> \in Seq(Requests)
      BY DEF DefaultPrefs
    <2> QED BY <2>1, SettingsAssumption DEF Closed, WindowSet
  <1>2. TodoRight(Closed) /\ Agrees(Closed, store)
    <2>1. 1 .. Len(Closed.todo) = {}
      BY <1>1
    <2> QED BY <1>1, <2>1 DEF TodoRight, Agrees
  <1>3. /\ wins \in [Windows -> WindowSet] /\ \A w \in Windows : wins[w] = Closed
    BY <1>1 DEF SettingsInit
  <1>4. store \in Stores /\ copy \in Stores /\ copy.prefs = store.prefs
    BY DEF SettingsInit, Stores
  <1>5. DOMAIN past = {"changes", "closes", "losses", "keep", "torn"} /\ past.keep = NoSettings
    BY DEF SettingsInit
  <1>6. CopyFollows
    BY <1>1, <1>3, <1>4 DEF CopyFollows, Pending
  <1> QED BY <1>1, <1>2, <1>3, <1>4, <1>5, <1>6 DEF CacheInv

LEMMA SettingsStep == CacheInv /\ [SettingsNext]_settingsVars => CacheInv'
  <1> SUFFICES ASSUME CacheInv, [SettingsNext]_settingsVars PROVE CacheInv'
    OBVIOUS
  <1>1. ASSUME NEW w \in Windows, Serve(w) PROVE CacheInv'
    BY <1>1, InitKeeps, CopyLandsKeeps, BootCopyKeeps, EventKeeps, RefreshReadKeeps, RefreshHandledKeeps DEF Serve
  <1>2. CASE UNCHANGED settingsVars
    <2>1. UNCHANGED <<store, copy, wins, past>>
      BY <1>2 DEF settingsVars
    <2> QED BY <2>1 DEF CacheInv, CopyFollows
  <1>3. CASE SettingsNext
    BY <1>1, <1>3, OpenKeeps, SetPreferencesKeeps, SetThemeKeeps, ToggleKeeps, CloseKeeps, LoseKeeps DEF SettingsNext
  <1> QED BY <1>2, <1>3

(* Once the events, copies and refreshes of all windows are done, every window
   works with the preferences and shows the theme that are stored, and the copy
   holds those preferences: no order of the windows' requests leaves one behind,
   and preferences lost from localStorage are back before a window works
   (settingsCache.js, main.jsx). *)
THEOREM CopySafe == SettingsSpec => []CopyHolds
  <1>1. SettingsInit => CacheInv
    BY InitSettings
  <1>2. CacheInv /\ [SettingsNext]_settingsVars => CacheInv'
    BY SettingsStep
  <1>3. CacheInv => CopyHolds
    BY InvHolds
  <1> QED BY <1>1, <1>2, <1>3, PTL DEF SettingsSpec

-----------------------------------------------------------------------------
(* What a window works with is in range, and is what loading makes of what is
   stored: a raw layout of this version, or what an earlier load has saved. *)
Loadable == {"own", "both", "launch", "legacy", "default", "nearest"}

Storable == Loadable \cup {"absent", "odd"}

PrefsInv ==
  /\ loaded \in [version : {PREFS_VERSION}, legacy : BOOLEAN, f : [Fields -> Loadable]]
  /\ stored \in [version : {PREFS_VERSION, PREFS_VERSION + 1}, legacy : BOOLEAN, f : [Fields -> Storable]]
  /\ loaded.legacy = stored.legacy /\ \A f \in Fields : loaded.f[f] = Normal(f, stored.f[f])
  /\ DOMAIN chosen = {"own", "starred", "new"} /\ chosen.own \subseteq Fields
  /\ ChoicesKept /\ LaunchDefaultStarred

LEMMA SinceFacts ==
  /\ \A f \in Fields : Since[f] \in 1 .. PREFS_VERSION
  /\ "defaultContext" \in Fields /\ Since["defaultContext"] = 13
  /\ "favoriteContexts" \in Fields /\ Since["favoriteContexts"] = 14
  BY DEF Fields, Since, PREFS_VERSION

(* Loading a layout of this version brings its values into range. *)
LEMMA NormalFacts ==
  ASSUME NEW f
  PROVE  /\ \A x \in Loadable : Normal(f, x) = x
         /\ Normal(f, "absent") = "default"
         /\ Normal(f, "odd") \in {"nearest", "default"}
  BY DEF Normal, Loadable

(* Loading a layout of this version brings its values into range. *)
LEMMA LoadsNow ==
  ASSUME NEW raw \in [version : {PREFS_VERSION, PREFS_VERSION + 1}, legacy : BOOLEAN, f : [Fields -> Storable]],
         NEW r, r = loadPreferences(raw)
  PROVE  /\ r \in [version : {PREFS_VERSION}, legacy : BOOLEAN, f : [Fields -> Loadable]]
         /\ r.legacy = raw.legacy /\ \A f \in Fields : r.f[f] = Normal(f, raw.f[f])
         /\ Kept(raw) = raw
  <1>1. VersionOf(raw) = raw.version /\ raw.version >= PREFS_VERSION /\ raw.version # 0
    BY DEF VersionOf, PREFS_VERSION
  <1>2. migratePreferences(raw) = raw /\ Kept(raw) = raw
    BY <1>1 DEF migratePreferences, Kept, PREFS_VERSION
  <1>3. PICK g : g = [f \in Fields |-> Normal(f, raw.f[f])]
    OBVIOUS
  <1>4. r = [raw EXCEPT !.version = IF raw.version = 0 \/ raw.version > PREFS_VERSION THEN PREFS_VERSION ELSE raw.version, !.f = g]
    BY <1>2, <1>3 DEF loadPreferences, normalizePreferences
  <1>5. (IF raw.version = 0 \/ raw.version > PREFS_VERSION THEN PREFS_VERSION ELSE raw.version) = PREFS_VERSION
    BY DEF PREFS_VERSION
  <1>6. g \in [Fields -> Loadable]
    <2>1. ASSUME NEW f \in Fields PROVE Normal(f, raw.f[f]) \in Loadable
      <3>1. raw.f[f] \in Storable
        OBVIOUS
      <3> QED BY <3>1, NormalFacts DEF Storable, Loadable
    <2> QED BY <1>3, <2>1
  <1>7. r = [raw EXCEPT !.version = PREFS_VERSION, !.f = g]
    BY <1>4, <1>5
  <1> QED BY <1>2, <1>3, <1>6, <1>7

LEMMA PrefsHold == PrefsInv => PreferencesKept
  <1> SUFFICES ASSUME PrefsInv PROVE LoadSettles
    BY DEF PrefsInv, PreferencesKept
  <1>1. \A f \in Fields : loaded.f[f] \notin {"absent", "odd"}
    BY DEF PrefsInv, Loadable
  <1>2. VersionOf(stored) >= PREFS_VERSION
    BY DEF PrefsInv, VersionOf, PREFS_VERSION
  <1>3. PICK r : r = loadPreferences(loaded)
    OBVIOUS
  <1>4. loaded \in [version : {PREFS_VERSION, PREFS_VERSION + 1}, legacy : BOOLEAN, f : [Fields -> Storable]]
    BY DEF PrefsInv, Storable
  <1>5. /\ r \in [version : {PREFS_VERSION}, legacy : BOOLEAN, f : [Fields -> Loadable]]
        /\ r.legacy = loaded.legacy /\ \A f \in Fields : r.f[f] = Normal(f, loaded.f[f])
    BY <1>3, <1>4, LoadsNow
  <1>6. loaded \in [version : {PREFS_VERSION}, legacy : BOOLEAN, f : [Fields -> Loadable]]
    BY DEF PrefsInv
  <1>7. \A f \in Fields : loaded.f[f] \in Loadable
    BY <1>6
  <1>8. \A f \in Fields : r.f[f] = loaded.f[f]
    BY <1>5, <1>7, NormalFacts
  <1>9. r.f = loaded.f
    BY <1>5, <1>6, <1>8
  <1>10. r = loaded
    BY <1>5, <1>6, <1>9
  <1> QED BY <1>1, <1>2, <1>3, <1>10 DEF LoadSettles

(* The layout an older build has left is migrated: its own choices are kept. *)
LEMMA LoadsOld ==
  ASSUME NEW raw \in [version : Versions, legacy : BOOLEAN, f : [Fields -> Storable]], VersionOf(raw) < PREFS_VERSION,
         NEW r, r = loadPreferences(raw)
  PROVE  /\ r \in [version : {PREFS_VERSION}, legacy : BOOLEAN, f : [Fields -> Loadable]]
         /\ Kept(raw) = r
         /\ \A f \in Fields : VersionOf(raw) >= Since[f] => r.f[f] = Normal(f, raw.f[f])
         /\ VersionOf(raw) < Since["favoriteContexts"] => r.f["favoriteContexts"] = Normal("favoriteContexts", Starred(raw))
  <1>1. DEFINE Reset(f) ==
          CASE f = "idleAutoStopMin" -> raw.f[f]
            [] f = "workspaceLayout" -> NormalizedLayout(raw.legacy)
            [] f = "favoriteContexts" -> Starred(raw)
            [] OTHER -> "default"
  <1>2. PICK g : g = [f \in Fields |-> IF VersionOf(raw) < Since[f] THEN Reset(f) ELSE raw.f[f]]
    OBVIOUS
  <1>3. migratePreferences(raw) = [raw EXCEPT !.version = PREFS_VERSION, !.f = g]
    BY <1>2 DEF migratePreferences, Versions, VersionOf, PREFS_VERSION
  <1>4. PICK m : m = migratePreferences(raw)
    OBVIOUS
  <1>5. g \in [Fields -> Storable]
    <2>1. ASSUME NEW f \in Fields PROVE Reset(f) \in Storable /\ raw.f[f] \in Storable
      <3>1. \A x \in Fields : raw.f[x] \in Storable
        OBVIOUS
      <3>2. Starred(raw) \in Storable
        <4>1. raw.f["favoriteContexts"] \in Storable
          BY <3>1, SinceFacts
        <4> QED BY <4>1 DEF Starred, Storable, Loadable
      <3>3. NormalizedLayout(raw.legacy) \in Storable /\ "default" \in Storable
        BY DEF NormalizedLayout, Storable, Loadable
      <3> QED BY <3>1, <3>2, <3>3
    <2> QED BY <1>2, <2>1
  <1>6. m \in [version : {PREFS_VERSION, PREFS_VERSION + 1}, legacy : BOOLEAN, f : [Fields -> Storable]] /\ m.f = g
    BY <1>3, <1>4, <1>5
  <1>7. r = loadPreferences(m)
    <2>1. migratePreferences(m) = m
      BY <1>6 DEF migratePreferences, VersionOf, PREFS_VERSION
    <2> QED BY <1>4, <2>1 DEF loadPreferences
  <1>8. /\ r \in [version : {PREFS_VERSION}, legacy : BOOLEAN, f : [Fields -> Loadable]]
        /\ \A f \in Fields : r.f[f] = Normal(f, g[f])
    BY <1>6, <1>7, LoadsNow
  <1>9. Kept(raw) = r
    BY DEF Kept
  <1>10. \A f \in Fields : VersionOf(raw) >= Since[f] => g[f] = raw.f[f]
    BY <1>2, SinceFacts DEF VersionOf, Versions, PREFS_VERSION
  <1>11. VersionOf(raw) < Since["favoriteContexts"] => g["favoriteContexts"] = Starred(raw)
    BY <1>2, SinceFacts
  <1> QED BY <1>8, <1>9, <1>10, <1>11, SinceFacts


LEMMA InitPrefs == PrefsInit => PrefsInv
  <1> SUFFICES ASSUME PrefsInit PROVE PrefsInv
    OBVIOUS
  <1>1. stored \in [version : {PREFS_VERSION, PREFS_VERSION + 1}, legacy : BOOLEAN, f : [Fields -> Storable]]
    BY DEF PrefsInit, Storable
  <1>2. /\ loaded \in [version : {PREFS_VERSION}, legacy : BOOLEAN, f : [Fields -> Loadable]]
        /\ loaded.legacy = stored.legacy /\ \A f \in Fields : loaded.f[f] = Normal(f, stored.f[f])
    <2>1. loaded = loadPreferences(stored)
      BY DEF PrefsInit
    <2> QED BY ONLY <1>1, <2>1, LoadsNow
  <1>3. DOMAIN chosen = {"own", "starred", "new"} /\ chosen.own = {} /\ chosen.starred = FALSE
    BY DEF PrefsInit
  <1> QED BY <1>1, <1>2, <1>3 DEF PrefsInv, ChoicesKept, LaunchDefaultStarred

LEMMA LeftFacts ==
  ASSUME NEW raw \in Left
  PROVE  raw \in [version : Versions, legacy : BOOLEAN, f : [Fields -> Storable]]
  <1>1. PICK v \in Versions, l \in BOOLEAN, own \in SUBSET Fields, odd \in SUBSET Fields :
          raw = [version |-> v, legacy |-> l, f |-> [f \in Fields |-> IF f \in own THEN "own" ELSE IF f \in odd THEN "odd" ELSE "absent"]]
    BY DEF Left
  <1>2. [f \in Fields |-> IF f \in own THEN "own" ELSE IF f \in odd THEN "odd" ELSE "absent"] \in [Fields -> Storable]
    BY DEF Storable, Loadable
  <1> QED BY <1>1, <1>2

(* The first start over what an older build has left. *)
LEMMA InstallKeeps ==
  ASSUME NEW raw \in Left, Install(raw)
  PROVE  PrefsInv'
  <1>1. raw \in [version : Versions, legacy : BOOLEAN, f : [Fields -> Storable]]
    BY LeftFacts
  <1>2. PICK r : r = loadPreferences(raw)
    OBVIOUS
  <1>3. /\ loaded' = r /\ stored' = Kept(raw) /\ OfItsVersion(raw)
        /\ DOMAIN chosen' = {"own", "starred", "new"} /\ chosen'.own = {f \in Fields : raw.f[f] = "own"}
        /\ chosen'.starred = (VersionOf(raw) < Since["favoriteContexts"] /\ raw.f["defaultContext"] = "own")
    BY <1>2 DEF Install
  <1>4. Normal("favoriteContexts", "both") = "both" /\ Normal("favoriteContexts", "launch") = "launch"
    BY DEF Normal
  <1>5. \A f : Normal(f, "own") = "own"
    BY DEF Normal
  <1>6. VersionOf(raw) \in Nat /\ VersionOf(raw) <= PREFS_VERSION + 1
    BY <1>1 DEF VersionOf, Versions, PREFS_VERSION
  <1>7. /\ loaded' \in [version : {PREFS_VERSION}, legacy : BOOLEAN, f : [Fields -> Loadable]]
        /\ stored' \in [version : {PREFS_VERSION, PREFS_VERSION + 1}, legacy : BOOLEAN, f : [Fields -> Storable]]
        /\ loaded'.legacy = stored'.legacy /\ \A f \in Fields : loaded'.f[f] = Normal(f, stored'.f[f])
        /\ \A f \in Fields : VersionOf(raw) >= Since[f] => loaded'.f[f] = Normal(f, raw.f[f])
        /\ VersionOf(raw) < Since["favoriteContexts"] => loaded'.f["favoriteContexts"] = Normal("favoriteContexts", Starred(raw))
    <2>1. CASE VersionOf(raw) < PREFS_VERSION
      <3>1. /\ r \in [version : {PREFS_VERSION}, legacy : BOOLEAN, f : [Fields -> Loadable]] /\ Kept(raw) = r
            /\ \A f \in Fields : VersionOf(raw) >= Since[f] => r.f[f] = Normal(f, raw.f[f])
            /\ VersionOf(raw) < Since["favoriteContexts"] => r.f["favoriteContexts"] = Normal("favoriteContexts", Starred(raw))
        BY <1>1, <1>2, <2>1, LoadsOld
      <3>2. \A f \in Fields : r.f[f] \in Loadable
        BY <3>1
      <3>3. \A f \in Fields : r.f[f] = Normal(f, r.f[f])
        BY <3>2, NormalFacts
      <3>4. r \in [version : {PREFS_VERSION, PREFS_VERSION + 1}, legacy : BOOLEAN, f : [Fields -> Storable]]
        BY <3>1 DEF Storable
      <3> QED BY <1>3, <3>1, <3>3, <3>4
    <2>2. CASE VersionOf(raw) >= PREFS_VERSION
      <3>1. raw.version \in {PREFS_VERSION, PREFS_VERSION + 1}
        BY <1>1, <2>2 DEF VersionOf, Versions, PREFS_VERSION
      <3>2. raw \in [version : {PREFS_VERSION, PREFS_VERSION + 1}, legacy : BOOLEAN, f : [Fields -> Storable]]
        BY <1>1, <3>1
      <3>3. /\ r \in [version : {PREFS_VERSION}, legacy : BOOLEAN, f : [Fields -> Loadable]]
            /\ r.legacy = raw.legacy /\ \A f \in Fields : r.f[f] = Normal(f, raw.f[f])
            /\ Kept(raw) = raw
        BY <1>2, <3>2, LoadsNow
      <3>4. ~ (VersionOf(raw) < Since["favoriteContexts"])
        BY <1>6, <2>2, SinceFacts DEF PREFS_VERSION
      <3> QED BY <1>3, <3>2, <3>3, <3>4
    <2> QED BY <1>6, <2>1, <2>2 DEF PREFS_VERSION
  <1>8. ASSUME NEW f \in chosen'.own PROVE loaded'.f[f] \in {"own", "both"}
    <2>1. f \in Fields /\ raw.f[f] = "own"
      BY <1>3, <1>8
    <2>2. VersionOf(raw) >= Since[f]
      BY <1>3, <1>6, <2>1, SinceFacts DEF OfItsVersion
    <2> QED BY <1>5, <1>7, <2>1, <2>2
  <1>9. ASSUME chosen'.starred PROVE loaded'.f["favoriteContexts"] \in {"launch", "both"}
    <2>1. VersionOf(raw) < Since["favoriteContexts"] /\ raw.f["defaultContext"] = "own"
      BY <1>3, <1>9
    <2>2. VersionOf(raw) >= Since["defaultContext"]
      BY <1>3, <1>6, <2>1, SinceFacts DEF OfItsVersion
    <2>3. Starred(raw) \in {"both", "launch"}
      BY <2>1, <2>2 DEF Starred
    <2> QED BY <1>4, <1>7, <2>1, <2>3
  <1> QED BY <1>3, <1>7, <1>8, <1>9 DEF PrefsInv, ChoicesKept, LaunchDefaultStarred

LEMMA ChooseKeeps ==
  ASSUME PrefsInv, NEW c \in Fields, Choose(c)
  PROVE  PrefsInv'
  <1>1. PICK g : g = [loaded.f EXCEPT ![c] = "own"]
    OBVIOUS
  <1>2. PICK m : m = [loaded EXCEPT !.f = g]
    OBVIOUS
  <1>3. loaded \in [version : {PREFS_VERSION}, legacy : BOOLEAN, f : [Fields -> Loadable]]
    BY DEF PrefsInv
  <1>4. g \in [Fields -> Loadable] /\ g[c] = "own" /\ \A f \in Fields : f # c => g[f] = loaded.f[f]
    BY <1>1, <1>3 DEF Loadable
  <1>5. m \in [version : {PREFS_VERSION, PREFS_VERSION + 1}, legacy : BOOLEAN, f : [Fields -> Storable]] /\ m.f = g
    BY <1>2, <1>3, <1>4 DEF Storable
  <1>6. loaded' = loadPreferences(m)
    <2>1. migratePreferences(m) = m
      <3>1. m.version = PREFS_VERSION
        BY <1>2, <1>3
      <3> QED BY <3>1 DEF migratePreferences, VersionOf, PREFS_VERSION
    <2>2. m = [loaded EXCEPT !.f[c] = "own"]
      BY <1>1, <1>2, <1>3
    <2> QED BY <2>1, <2>2 DEF Choose, loadPreferences
  <1>7. /\ loaded' \in [version : {PREFS_VERSION}, legacy : BOOLEAN, f : [Fields -> Loadable]]
        /\ \A f \in Fields : loaded'.f[f] = Normal(f, g[f])
    BY <1>5, <1>6, LoadsNow
  <1>8. \A f \in Fields : g[f] \in Loadable /\ loaded'.f[f] \in Loadable
    BY <1>4, <1>7
  <1>9. \A f \in Fields : loaded'.f[f] = g[f] /\ loaded'.f[f] = Normal(f, loaded'.f[f])
    BY <1>7, <1>8, NormalFacts
  <1>10. stored' = loaded' /\ stored' \in [version : {PREFS_VERSION, PREFS_VERSION + 1}, legacy : BOOLEAN, f : [Fields -> Storable]]
    BY <1>7 DEF Choose, Storable
  <1>11. /\ DOMAIN chosen' = {"own", "starred", "new"} /\ chosen'.own = chosen.own \cup {c}
         /\ chosen'.starred = (chosen.starred /\ c # "favoriteContexts")
    BY DEF Choose, PrefsInv
  <1>12. ASSUME NEW f \in chosen'.own PROVE loaded'.f[f] \in {"own", "both"}
    BY <1>4, <1>9, <1>11, <1>12 DEF PrefsInv, ChoicesKept
  <1>13. ASSUME chosen'.starred PROVE loaded'.f["favoriteContexts"] \in {"launch", "both"}
    BY <1>4, <1>9, <1>11, <1>13, SinceFacts DEF PrefsInv, LaunchDefaultStarred
  <1>14. chosen'.own \subseteq Fields
    BY <1>11 DEF PrefsInv
  <1> QED BY <1>7, <1>9, <1>10, <1>11, <1>12, <1>13, <1>14 DEF PrefsInv, ChoicesKept, LaunchDefaultStarred

LEMMA RelaunchKeeps ==
  ASSUME PrefsInv, Relaunch
  PROVE  PrefsInv'
  <1>1. stored \in [version : {PREFS_VERSION, PREFS_VERSION + 1}, legacy : BOOLEAN, f : [Fields -> Storable]]
    BY DEF PrefsInv
  <1>2. /\ loaded' \in [version : {PREFS_VERSION}, legacy : BOOLEAN, f : [Fields -> Loadable]]
        /\ loaded'.legacy = stored.legacy /\ \A f \in Fields : loaded'.f[f] = Normal(f, stored.f[f])
        /\ stored' = stored /\ UNCHANGED chosen
    BY <1>1, LoadsNow DEF Relaunch
  <1>3. \A f \in Fields : loaded'.f[f] = loaded.f[f]
    BY <1>2 DEF PrefsInv
  <1>4. ChoicesKept' /\ LaunchDefaultStarred'
    BY <1>2, <1>3, SinceFacts DEF PrefsInv, ChoicesKept, LaunchDefaultStarred
  <1> QED BY <1>1, <1>2, <1>4 DEF PrefsInv

LEMMA PrefsStep == PrefsInv /\ [PrefsNext]_prefsVars => PrefsInv'
  <1> SUFFICES ASSUME PrefsInv, [PrefsNext]_prefsVars PROVE PrefsInv'
    OBVIOUS
  <1>1. CASE UNCHANGED prefsVars
    BY <1>1 DEF prefsVars, PrefsInv, ChoicesKept, LaunchDefaultStarred
  <1>2. CASE PrefsNext
    BY <1>2, InstallKeeps, ChooseKeeps, RelaunchKeeps DEF PrefsNext
  <1> QED BY <1>1, <1>2

(* However many fields the user has set, before the upgrade and after it, and
   whatever else the older build has left: the choices and the starred launch
   context survive every launch, and what is loaded is in range and loads as
   itself (preferences.js). *)
THEOREM PreferencesSafe == PrefsInit /\ [][PrefsNext]_prefsVars => []PreferencesKept
  <1>1. PrefsInit => PrefsInv
    BY InitPrefs
  <1>2. PrefsInv /\ [PrefsNext]_prefsVars => PrefsInv'
    BY PrefsStep
  <1>3. PrefsInv => PreferencesKept
    BY PrefsHold
  <1> QED BY <1>1, <1>2, <1>3, PTL

-----------------------------------------------------------------------------
(* The log panel: what its effects keep of a render, and what they make of the
   rest. *)
LogFields == {"mounted", "running", "view", "busy", "mode", "search", "selected", "req", "last",
              "prevRunning", "prevTail", "frozen", "wasPaused"}

SameRender(r, w) ==
  /\ DOMAIN r = LogFields
  /\ r.mounted = w.mounted /\ r.running = w.running /\ r.view = w.view /\ r.busy = w.busy
  /\ r.mode = w.mode /\ r.search = w.search /\ r.selected = w.selected

PanelRight(w) ==
  /\ w.prevTail = Engaged(w)
  /\ ~ w.running => w.req = {} /\ w.frozen = {}
  /\ w.running => w.prevRunning
  /\ w.running /\ w.view.paused => w.wasPaused /\ w.frozen # {} /\ \A z \in w.frozen : z.key = FilterKey(w)

(* Before an investigation and after it the window knows of no pods; the effects
   of the panel have run for what it shows. *)
StreamInv ==
  /\ DOMAIN logs = LogFields /\ DOMAIN tail = {"session", "scope", "pods", "paused", "lines"}
  /\ logs.running = tail.session
  /\ ~ logs.running => logs.view = EmptyShown
  /\ logs.mounted => PanelRight(logs)
  /\ \A g \in gathers : DOMAIN g = {"op", "pods", "search"}
  /\ BusyBacked

LEMMA SameRows ==
  ASSUME NEW r, NEW w, SameRender(r, w)
  PROVE  /\ Engaged(r) = Engaged(w) /\ FilterKey(r) = FilterKey(w) /\ LiveRows(r) = LiveRows(w)
         /\ Snapshot(r) = Snapshot(w)
  <1>1. Engaged(r) = Engaged(w) /\ ActivePods(r) = ActivePods(w)
    BY DEF SameRender, Engaged, ActivePods
  <1>2. FilterKey(r) = FilterKey(w)
    BY <1>1 DEF SameRender, FilterKey
  <1>3. FilteredRows(r) = FilteredRows(w)
    BY <1>1 DEF SameRender, FilteredRows
  <1>4. LiveRows(r) = LiveRows(w)
    BY <1>1, <1>3 DEF SameRender, LiveRows
  <1> QED BY <1>1, <1>2, <1>4 DEF Snapshot

LEMMA DefaultFacts ==
  ASSUME NEW w, DOMAIN w = LogFields, NEW r, r = DefaultEffect(w)
  PROVE  /\ SameRender(r, w) /\ r.frozen = w.frozen /\ r.wasPaused = w.wasPaused
         /\ w.running => r.prevRunning /\ r.prevTail = w.prevTail
         /\ w.running /\ w.prevRunning => r.last = w.last
         /\ ~ w.running => r.req = {} /\ r.last = {}
  BY DEF DefaultEffect, SameRender, LogFields

LEMMA ScopeFacts ==
  ASSUME NEW w, DOMAIN w = LogFields, NEW r, r = ScopeEffect(w)
  PROVE  /\ SameRender(r, w) /\ r.frozen = w.frozen /\ r.wasPaused = w.wasPaused
         /\ r.prevRunning = w.prevRunning /\ r.prevTail = w.prevTail /\ r.last = w.last
         /\ ~ w.running => r.req = w.req
  BY DEF ScopeEffect, SameRender, LogFields

LEMMA RestoreFacts ==
  ASSUME NEW w, DOMAIN w = LogFields, NEW r, r = RestoreEffect(w)
  PROVE  /\ SameRender(r, w) /\ r.frozen = w.frozen /\ r.wasPaused = w.wasPaused
         /\ r.prevRunning = w.prevRunning /\ r.prevTail = Engaged(w) /\ r.last = w.last
         /\ ~ w.running => r.req = w.req
         /\ w.prevTail /\ ~ Engaged(w) /\ w.running /\ w.last # {} => r.req = w.last
  BY DEF RestoreEffect, SameRender, LogFields

LEMMA FreezeFacts ==
  ASSUME NEW w, DOMAIN w = LogFields, NEW r, r = FreezeEffect(w)
  PROVE  /\ SameRender(r, w) /\ r.req = w.req /\ r.last = w.last
         /\ r.prevRunning = w.prevRunning /\ r.prevTail = w.prevTail
         /\ ~ w.running => r.frozen = {}
         /\ w.running /\ w.view.paused =>
              /\ r.wasPaused
              /\ r.frozen = Snapshot(w) \/ (r.frozen = w.frozen /\ w.frozen # {} /\ \A z \in w.frozen : z.key = FilterKey(w))
              /\ w.wasPaused /\ w.frozen # {} /\ (\A z \in w.frozen : z.key = FilterKey(w)) => r.frozen = w.frozen
  <1>1. CASE w.running /\ w.view.paused
    <2>1. PICK c : c = IF ~w.wasPaused \/ w.frozen = {} \/ \E z \in w.frozen : z.key # FilterKey(w) THEN Snapshot(w) ELSE w.frozen
      OBVIOUS
    <2>2. r = [w EXCEPT !.wasPaused = TRUE, !.frozen = c]
      BY <1>1, <2>1 DEF FreezeEffect
    <2>3. /\ SameRender(r, w) /\ r.req = w.req /\ r.last = w.last /\ r.wasPaused /\ r.frozen = c
          /\ r.prevRunning = w.prevRunning /\ r.prevTail = w.prevTail
      BY <2>2 DEF SameRender, LogFields
    <2> QED BY <1>1, <2>1, <2>3
  <1>2. CASE ~ (w.running /\ w.view.paused)
    <2>1. r = [w EXCEPT !.wasPaused = FALSE, !.frozen = {}]
      BY <1>2 DEF FreezeEffect
    <2>2. /\ SameRender(r, w) /\ r.req = w.req /\ r.last = w.last /\ r.frozen = {}
          /\ r.prevRunning = w.prevRunning /\ r.prevTail = w.prevTail
      BY <2>1 DEF SameRender, LogFields
    <2> QED BY <1>2, <2>2
  <1> QED BY <1>1, <1>2

LEMMA SameRenderTwice ==
  ASSUME NEW r, NEW s, NEW w, SameRender(r, s), SameRender(s, w)
  PROVE  SameRender(r, w)
  BY DEF SameRender

(* A commit with the panel on screen leaves it right, whatever it was before. *)
LEMMA ShownFacts ==
  ASSUME NEW w, DOMAIN w = LogFields, NEW fresh, NEW r, r = Shown(w, fresh), w.mounted
  PROVE  /\ SameRender(r, w) /\ PanelRight(r)
         /\ w.running /\ w.prevRunning => r.last = w.last
         /\ w.running /\ w.prevRunning /\ w.prevTail /\ ~ Engaged(w) /\ w.last # {} => r.req = w.last
         /\ w.running /\ w.view.paused /\ w.wasPaused /\ w.frozen # {} /\ (\A z \in w.frozen : z.key = FilterKey(w))
              => r.frozen = w.frozen
  <1>1. PICK d : d = DefaultEffect(w)
    OBVIOUS
  <1>2. PICK s : s = IF fresh THEN ScopeEffect(d) ELSE d
    OBVIOUS
  <1>3. PICK t : t = RestoreEffect(s)
    OBVIOUS
  <1>4. r = FreezeEffect(t)
    BY <1>1, <1>2, <1>3 DEF Shown
  <1>5. /\ SameRender(d, w) /\ d.frozen = w.frozen /\ d.wasPaused = w.wasPaused
        /\ w.running => d.prevRunning /\ d.prevTail = w.prevTail
        /\ w.running /\ w.prevRunning => d.last = w.last
        /\ ~ w.running => d.req = {} /\ d.last = {}
    BY <1>1, DefaultFacts
  <1>6. DOMAIN d = LogFields /\ d.running = w.running
    BY <1>5 DEF SameRender
  <1>7. /\ SameRender(s, d) /\ s.frozen = d.frozen /\ s.wasPaused = d.wasPaused
        /\ s.prevRunning = d.prevRunning /\ s.prevTail = d.prevTail /\ s.last = d.last
        /\ ~ d.running => s.req = d.req
    <2>1. CASE fresh
      <3>1. s = ScopeEffect(d)
        BY <1>2, <2>1
      <3> QED BY <1>6, <3>1, ScopeFacts
    <2>2. CASE ~ fresh
      <3>1. s = d
        BY <1>2, <2>2
      <3> QED BY <1>6, <3>1 DEF SameRender
    <2> QED BY <2>1, <2>2
  <1>8. SameRender(s, w)
    BY <1>5, <1>7, SameRenderTwice
  <1>9. DOMAIN s = LogFields /\ s.running = w.running
    BY <1>8 DEF SameRender
  <1>10. /\ SameRender(t, s) /\ t.frozen = s.frozen /\ t.wasPaused = s.wasPaused
         /\ t.prevRunning = s.prevRunning /\ t.prevTail = Engaged(s) /\ t.last = s.last
         /\ ~ s.running => t.req = s.req
         /\ s.prevTail /\ ~ Engaged(s) /\ s.running /\ s.last # {} => t.req = s.last
    BY <1>3, <1>9, RestoreFacts
  <1>11. SameRender(t, w)
    BY <1>8, <1>10, SameRenderTwice
  <1>12. DOMAIN t = LogFields /\ t.running = w.running /\ t.view = w.view
    BY <1>11 DEF SameRender
  <1>13. /\ SameRender(r, t) /\ r.req = t.req /\ r.last = t.last
         /\ r.prevRunning = t.prevRunning /\ r.prevTail = t.prevTail
         /\ ~ t.running => r.frozen = {}
         /\ t.running /\ t.view.paused =>
              /\ r.wasPaused
              /\ r.frozen = Snapshot(t) \/ (r.frozen = t.frozen /\ t.frozen # {} /\ \A z \in t.frozen : z.key = FilterKey(t))
              /\ t.wasPaused /\ t.frozen # {} /\ (\A z \in t.frozen : z.key = FilterKey(t)) => r.frozen = t.frozen
    BY <1>4, <1>12, FreezeFacts
  <1>14. SameRender(r, w)
    BY <1>11, <1>13, SameRenderTwice
  <1>15. /\ Engaged(s) = Engaged(w) /\ Engaged(r) = Engaged(w)
         /\ FilterKey(t) = FilterKey(w) /\ FilterKey(r) = FilterKey(w) /\ FilterKey(t) = FilterKey(r)
    BY <1>8, <1>11, <1>14, SameRows
  <1>16. r.running = w.running /\ r.view = w.view
    BY <1>14 DEF SameRender
  <1>17. r.running /\ r.view.paused => r.wasPaused /\ r.frozen # {} /\ \A z \in r.frozen : z.key = FilterKey(r)
    <2>1. \A z \in Snapshot(t) : z.key = FilterKey(t)
      BY DEF Snapshot
    <2>2. Snapshot(t) # {}
      BY DEF Snapshot
    <2> QED BY <1>12, <1>13, <1>15, <1>16, <2>1, <2>2
  <1>18. PanelRight(r)
    <2>1. r.prevTail = Engaged(r)
      BY <1>10, <1>13, <1>15
    <2>2. ~ r.running => r.req = {} /\ r.frozen = {}
      BY <1>5, <1>6, <1>7, <1>9, <1>10, <1>12, <1>13, <1>16
    <2>3. r.running => r.prevRunning
      BY <1>5, <1>7, <1>10, <1>13, <1>16
    <2> QED BY <1>17, <2>1, <2>2, <2>3 DEF PanelRight
  <1>19. w.running /\ w.prevRunning => r.last = w.last
    BY <1>5, <1>7, <1>10, <1>13
  <1>20. w.running /\ w.prevRunning /\ w.prevTail /\ ~ Engaged(w) /\ w.last # {} => r.req = w.last
    BY <1>5, <1>7, <1>9, <1>10, <1>13, <1>15
  <1>21. w.running /\ w.view.paused /\ w.wasPaused /\ w.frozen # {} /\ (\A z \in w.frozen : z.key = FilterKey(w))
           => r.frozen = w.frozen
    BY <1>5, <1>7, <1>10, <1>12, <1>13, <1>15
  <1> QED BY <1>14, <1>18, <1>19, <1>20, <1>21

(* What a step of the log panel must not do. *)
FrozenStep ==
  logs.mounted /\ logs'.mounted /\ logs.view.paused /\ logs'.view.paused /\ FilterKey(logs) = FilterKey(logs)'
    => ShownRows(logs)' = ShownRows(logs)

RestoredStep ==
  logs.mounted /\ logs'.mounted /\ logs'.running /\ logs.running /\ Engaged(logs) /\ ~Engaged(logs')
    /\ logs.last # {} => logs'.req = logs.last

(* What the panel may be given to render: its own effects' state is its own. *)
Rendered(w) ==
  /\ DOMAIN w = LogFields /\ w.mounted = logs.mounted
  /\ w.prevTail = logs.prevTail /\ w.prevRunning = logs.prevRunning
  /\ w.frozen = logs.frozen /\ w.wasPaused = logs.wasPaused
  /\ Engaged(logs) => w.last = logs.last

LEMMA CommitKeeps ==
  ASSUME StreamInv, NEW w, NEW fresh, Rendered(w), LogsCommit(w, fresh),
         ~ w.running => w.view = EmptyShown
  PROVE  /\ SameRender(logs', w) /\ (logs'.mounted => PanelRight(logs'))
         /\ FrozenStep /\ RestoredStep
  <1>1. CASE ~ w.mounted
    <2>1. logs' = w
      BY <1>1 DEF LogsCommit, Shown
    <2> QED BY <1>1, <2>1 DEF Rendered, SameRender, FrozenStep, RestoredStep
  <1>2. CASE w.mounted
    <2>1. PICK r : r = Shown(w, fresh)
      OBVIOUS
    <2>2. logs' = r
      BY <2>1 DEF LogsCommit
    <2>3. /\ SameRender(r, w) /\ PanelRight(r)
          /\ w.running /\ w.prevRunning => r.last = w.last
          /\ w.running /\ w.prevRunning /\ w.prevTail /\ ~ Engaged(w) /\ w.last # {} => r.req = w.last
          /\ w.running /\ w.view.paused /\ w.wasPaused /\ w.frozen # {} /\ (\A z \in w.frozen : z.key = FilterKey(w))
               => r.frozen = w.frozen
      BY <1>2, <2>1, ShownFacts DEF Rendered
    <2>4. Engaged(r) = Engaged(w) /\ FilterKey(r) = FilterKey(w) /\ r.running = w.running /\ r.view = w.view
      BY <2>3, SameRows DEF SameRender
    <2>5. logs.mounted /\ PanelRight(logs)
      BY <1>2 DEF Rendered, StreamInv
    <2>6. FrozenStep
      <3> SUFFICES ASSUME logs.view.paused, r.view.paused, FilterKey(logs) = FilterKey(r)
                   PROVE  ShownRows(r) = ShownRows(logs)
        BY <2>2 DEF FrozenStep
      <3>1. logs.running /\ w.running
        BY <2>4 DEF StreamInv, EmptyShown
      <3>2. logs.wasPaused /\ logs.frozen # {} /\ \A z \in logs.frozen : z.key = FilterKey(logs)
        BY <2>5, <3>1 DEF PanelRight
      <3>3. r.frozen = logs.frozen
        BY <2>3, <2>4, <3>1, <3>2 DEF Rendered
      <3> QED BY <3>2, <3>3 DEF ShownRows
    <2>7. RestoredStep
      <3> SUFFICES ASSUME r.running, logs.running, Engaged(logs), ~ Engaged(r), logs.last # {}
                   PROVE  r.req = logs.last
        BY <2>2 DEF RestoredStep
      <3>1. logs.prevTail /\ logs.prevRunning
        BY <2>5 DEF PanelRight
      <3> QED BY <2>3, <2>4, <3>1 DEF Rendered
    <2> QED BY <2>2, <2>3, <2>6, <2>7
  <1> QED BY <1>1, <1>2

(* A step that leaves the panel as it was. *)
LEMMA StillKeeps ==
  ASSUME StreamInv, logs' = logs
  PROVE  (logs'.mounted => PanelRight(logs')) /\ DOMAIN logs' = LogFields /\ FrozenStep /\ RestoredStep
  BY DEF StreamInv, FrozenStep, RestoredStep

BusyOps == {"start", "started", "failed", "select"}

LEMMA CommitInv ==
  ASSUME StreamInv, NEW w, NEW fresh, Rendered(w), LogsCommit(w, fresh),
         w.running = tail'.session, ~ w.running => w.view = EmptyShown,
         DOMAIN tail' = {"session", "scope", "pods", "paused", "lines"},
         \A g \in gathers' : DOMAIN g = {"op", "pods", "search"},
         w.busy => \E g \in gathers' : g.op \in BusyOps
  PROVE  StreamInv' /\ FrozenStep /\ RestoredStep
  <1>1. /\ SameRender(logs', w) /\ (logs'.mounted => PanelRight(logs')) /\ FrozenStep /\ RestoredStep
    BY CommitKeeps
  <1>2. DOMAIN logs' = LogFields /\ logs'.running = w.running /\ logs'.view = w.view /\ logs'.busy = w.busy
    BY <1>1 DEF SameRender
  <1>3. BusyBacked'
    BY <1>2 DEF BusyBacked, BusyOps
  <1> QED BY <1>1, <1>2, <1>3 DEF StreamInv

LEMMA StillInv ==
  ASSUME StreamInv, logs' = logs, tail'.session = tail.session,
         DOMAIN tail' = {"session", "scope", "pods", "paused", "lines"},
         \A g \in gathers' : DOMAIN g = {"op", "pods", "search"},
         logs.busy => \E g \in gathers' : g.op \in BusyOps
  PROVE  StreamInv' /\ FrozenStep /\ RestoredStep
  <1>1. /\ (logs'.mounted => PanelRight(logs')) /\ FrozenStep /\ RestoredStep
    BY StillKeeps
  <1>2. BusyBacked'
    BY DEF BusyBacked, BusyOps
  <1> QED BY <1>1, <1>2 DEF StreamInv

(* Handlers that are asked for, go on, or end. *)
LEMMA AsksFacts ==
  ASSUME StreamInv, NEW op, NEW pods, NEW search, Asks(op, pods, search)
  PROVE  /\ \A g \in gathers' : DOMAIN g = {"op", "pods", "search"}
         /\ logs.busy \/ op \in BusyOps => \E g \in gathers' : g.op \in BusyOps
  <1>1. PICK n : n = [op |-> op, pods |-> pods, search |-> search]
    OBVIOUS
  <1>2. gathers' = gathers \cup {n} /\ n.op = op /\ DOMAIN n = {"op", "pods", "search"}
    BY <1>1 DEF Asks
  <1>3. logs.busy => \E g \in gathers : g.op \in BusyOps
    BY DEF StreamInv, BusyBacked, BusyOps
  <1> QED BY <1>2, <1>3 DEF StreamInv

LEMMA BecomesFacts ==
  ASSUME StreamInv, NEW g \in gathers, NEW op, Becomes(g, op), g.op \in BusyOps => op \in BusyOps
  PROVE  /\ \A h \in gathers' : DOMAIN h = {"op", "pods", "search"}
         /\ logs.busy => \E h \in gathers' : h.op \in BusyOps
  <1>1. PICK n : n = [g EXCEPT !.op = op]
    OBVIOUS
  <1>2. DOMAIN n = {"op", "pods", "search"} /\ n.op = op
    BY <1>1 DEF StreamInv
  <1>3. gathers' = (gathers \ {g}) \cup {n}
    BY <1>1 DEF Becomes
  <1>4. ASSUME logs.busy PROVE \E h \in gathers' : h.op \in BusyOps
    <2>1. PICK h \in gathers : h.op \in BusyOps
      BY <1>4 DEF StreamInv, BusyBacked, BusyOps
    <2>2. CASE h = g
      BY <1>2, <1>3, <2>1, <2>2
    <2>3. CASE h # g
      BY <1>3, <2>1, <2>3
    <2> QED BY <2>2, <2>3
  <1> QED BY <1>2, <1>3, <1>4 DEF StreamInv

LEMMA EndsFacts ==
  ASSUME StreamInv, NEW g \in gathers, gathers' = gathers \ {g}
  PROVE  /\ \A h \in gathers' : DOMAIN h = {"op", "pods", "search"}
         /\ g.op \notin BusyOps /\ logs.busy => \E h \in gathers' : h.op \in BusyOps
  BY DEF StreamInv, BusyBacked, BusyOps

LEMMA TailViewFacts == StreamInv /\ ~ logs.running => TailView = EmptyShown
  BY DEF StreamInv, TailView

LEMMA PanelMounts ==
  ASSUME StreamInv, MountStream
  PROVE  StreamInv' /\ FrozenStep /\ RestoredStep
  <1>1. CASE logs.mounted
    <2>1. logs' = [logs EXCEPT !.mounted = FALSE, !.req = {}, !.last = {}, !.prevRunning = FALSE,
                               !.prevTail = FALSE, !.frozen = {}, !.wasPaused = FALSE]
      BY <1>1 DEF MountStream
    <2>2. /\ DOMAIN logs' = LogFields /\ ~ logs'.mounted /\ logs'.running = logs.running
          /\ logs'.view = logs.view /\ logs'.busy = logs.busy
      BY <2>1 DEF StreamInv, LogFields
    <2>3. UNCHANGED <<tail, gathers>>
      BY DEF MountStream
    <2> QED BY <2>2, <2>3 DEF StreamInv, BusyBacked, FrozenStep, RestoredStep
  <1>2. CASE ~ logs.mounted
    <2>1. PICK w : w = [logs EXCEPT !.mounted = TRUE]
      OBVIOUS
    <2>2. DOMAIN w = LogFields /\ w.mounted /\ w.running = logs.running /\ w.view = logs.view /\ w.busy = logs.busy
      BY <2>1 DEF StreamInv, LogFields
    <2>3. PICK r : r = Shown(w, TRUE)
      OBVIOUS
    <2>4. logs' = r /\ UNCHANGED <<tail, gathers>>
      BY <1>2, <2>1, <2>3 DEF MountStream
    <2>5. SameRender(r, w) /\ PanelRight(r)
      BY <2>2, <2>3, ShownFacts
    <2> QED BY <1>2, <2>2, <2>4, <2>5 DEF StreamInv, SameRender, BusyBacked, FrozenStep, RestoredStep
  <1> QED BY <1>1, <1>2

LEMMA SessionChanges ==
  ASSUME StreamInv, Investigate \/ EndInvestigation
  PROVE  StreamInv' /\ FrozenStep /\ RestoredStep
  <1>1. PICK b : b = ~ logs.running
    OBVIOUS
  <1>2. PICK v : v = [logs EXCEPT !.running = b, !.view = EmptyShown]
    OBVIOUS
  <1>3. /\ DOMAIN v = LogFields /\ v.running = b /\ v.view = EmptyShown /\ v.busy = logs.busy
        /\ v.mounted = logs.mounted /\ v.prevTail = logs.prevTail /\ v.prevRunning = logs.prevRunning
        /\ v.frozen = logs.frozen /\ v.wasPaused = logs.wasPaused /\ v.last = logs.last
    BY <1>2 DEF StreamInv, LogFields
  <1>4. PICK w : w = ResetFilters(v)
    OBVIOUS
  <1>5. /\ Rendered(w) /\ w.running = b /\ w.view = EmptyShown /\ w.busy = logs.busy
    BY <1>3, <1>4 DEF ResetFilters, Rendered, LogFields
  <1>6. /\ LogsCommit(w, TRUE) /\ gathers' = gathers
        /\ tail' = [session |-> b, scope |-> {}, pods |-> {}, paused |-> FALSE, lines |-> {}]
    <2>1. CASE Investigate
      <3>1. b = TRUE
        BY <1>1, <2>1 DEF Investigate
      <3> QED BY <1>2, <1>4, <2>1, <3>1 DEF Investigate
    <2>2. CASE EndInvestigation
      <3>1. b = FALSE
        BY <1>1, <2>2 DEF EndInvestigation
      <3> QED BY <1>2, <1>4, <2>2, <3>1 DEF EndInvestigation
    <2> QED BY <2>1, <2>2
  <1>7. \A g \in gathers' : DOMAIN g = {"op", "pods", "search"}
    BY <1>6 DEF StreamInv
  <1>8. w.busy => \E g \in gathers' : g.op \in BusyOps
    BY <1>5, <1>6 DEF StreamInv, BusyBacked, BusyOps
  <1>9. tail'.session = b /\ DOMAIN tail' = {"session", "scope", "pods", "paused", "lines"}
    BY <1>6
  <1> QED BY <1>5, <1>6, <1>7, <1>8, <1>9, CommitInv

LEMMA TailMoves ==
  ASSUME StreamInv, PodsChange \/ LogLine
  PROVE  StreamInv' /\ FrozenStep /\ RestoredStep
  <1>1. /\ DOMAIN tail' = {"session", "scope", "pods", "paused", "lines"} /\ tail'.session = tail.session
        /\ logs' = logs /\ gathers' = gathers
    BY DEF StreamInv, PodsChange, LogLine
  <1>2. logs.busy => \E g \in gathers : g.op \in BusyOps
    BY DEF StreamInv, BusyBacked, BusyOps
  <1>3. \A g \in gathers : DOMAIN g = {"op", "pods", "search"}
    BY DEF StreamInv
  <1> QED BY <1>1, <1>2, <1>3, StillInv

(* What the user does to the form and to the filters. *)
LEMMA FormEdits ==
  ASSUME StreamInv, NEW w, NEW fresh, LogsCommit(w, fresh), UNCHANGED <<tail, gathers>>,
         DOMAIN w = LogFields, w.mounted = logs.mounted, w.running = logs.running, w.view = logs.view,
         w.busy = logs.busy, w.last = logs.last, w.prevTail = logs.prevTail, w.prevRunning = logs.prevRunning,
         w.frozen = logs.frozen, w.wasPaused = logs.wasPaused
  PROVE  StreamInv' /\ FrozenStep /\ RestoredStep
  <1>1. Rendered(w) /\ w.running = tail'.session /\ (~ w.running => w.view = EmptyShown)
    BY DEF Rendered, StreamInv
  <1>2. DOMAIN tail' = {"session", "scope", "pods", "paused", "lines"}
    BY DEF StreamInv
  <1>3. \A g \in gathers' : DOMAIN g = {"op", "pods", "search"}
    BY DEF StreamInv
  <1>4. w.busy => \E g \in gathers' : g.op \in BusyOps
    BY DEF StreamInv, BusyBacked, BusyOps
  <1> QED BY <1>1, <1>2, <1>3, <1>4, CommitInv

LEMMA RequestEdits ==
  ASSUME StreamInv, EditRequest
  PROVE  StreamInv' /\ FrozenStep /\ RestoredStep
  <1>1. PICK s : LogsCommit([logs EXCEPT !.req = s], FALSE)
    <2>1. CASE \E p \in logs.view.scope : LogsCommit([logs EXCEPT !.req = IF p \in @ THEN @ \ {p} ELSE @ \cup {p}], FALSE)
      <3>1. PICK p \in logs.view.scope : LogsCommit([logs EXCEPT !.req = IF p \in @ THEN @ \ {p} ELSE @ \cup {p}], FALSE)
        BY <2>1
      <3>2. LogsCommit([logs EXCEPT !.req = IF p \in logs.req THEN logs.req \ {p} ELSE logs.req \cup {p}], FALSE)
        BY <3>1
      <3> QED BY <3>2
    <2>2. CASE \E s \in {logs.view.scope, {}} : LogsCommit([logs EXCEPT !.req = s], FALSE)
      BY <2>2
    <2> QED BY <2>1, <2>2 DEF EditRequest
  <1>2. PICK w : w = [logs EXCEPT !.req = s]
    OBVIOUS
  <1>3. LogsCommit(w, FALSE) /\ UNCHANGED <<tail, gathers>>
    BY <1>1, <1>2 DEF EditRequest
  <1>4. /\ DOMAIN w = LogFields /\ w.mounted = logs.mounted /\ w.running = logs.running /\ w.view = logs.view
        /\ w.busy = logs.busy /\ w.last = logs.last /\ w.prevTail = logs.prevTail /\ w.prevRunning = logs.prevRunning
        /\ w.frozen = logs.frozen /\ w.wasPaused = logs.wasPaused
    BY <1>2 DEF StreamInv, LogFields
  <1> QED BY <1>3, <1>4, FormEdits

LEMMA FilterEdits ==
  ASSUME StreamInv, EditFilter
  PROVE  StreamInv' /\ FrozenStep /\ RestoredStep
  <1>1. PICK w : /\ LogsCommit(w, FALSE)
                 /\ \E a, b, c : w = [logs EXCEPT !.search = a, !.mode = b, !.selected = c]
    <2>1. CASE LogsCommit([logs EXCEPT !.search = ~ logs.search], FALSE)
      <3>1. [logs EXCEPT !.search = ~ logs.search] = [logs EXCEPT !.search = ~ logs.search, !.mode = logs.mode, !.selected = logs.selected]
        BY DEF StreamInv, LogFields
      <3> QED BY <2>1, <3>1
    <2>2. CASE \E m \in {"logs", "errors"} : LogsCommit([logs EXCEPT !.mode = m], FALSE)
      <3>1. PICK m : LogsCommit([logs EXCEPT !.mode = m], FALSE)
        BY <2>2
      <3>2. [logs EXCEPT !.mode = m] = [logs EXCEPT !.search = logs.search, !.mode = m, !.selected = logs.selected]
        BY DEF StreamInv, LogFields
      <3> QED BY <3>1, <3>2
    <2>3. CASE \E s : LogsCommit([logs EXCEPT !.selected = s], FALSE)
      <3>1. PICK s : LogsCommit([logs EXCEPT !.selected = s], FALSE)
        BY <2>3
      <3>2. [logs EXCEPT !.selected = s] = [logs EXCEPT !.search = logs.search, !.mode = logs.mode, !.selected = s]
        BY DEF StreamInv, LogFields
      <3> QED BY <3>1, <3>2
    <2>4. CASE LogsCommit([logs EXCEPT !.selected = {}, !.search = FALSE], FALSE)
      <3>1. [logs EXCEPT !.selected = {}, !.search = FALSE] = [logs EXCEPT !.search = FALSE, !.mode = logs.mode, !.selected = {}]
        BY DEF StreamInv, LogFields
      <3> QED BY <2>4, <3>1
    <2> QED BY <2>1, <2>2, <2>3, <2>4 DEF EditFilter
  <1>2. PICK a, b, c : w = [logs EXCEPT !.search = a, !.mode = b, !.selected = c]
    BY <1>1
  <1>3. /\ DOMAIN w = LogFields /\ w.mounted = logs.mounted /\ w.running = logs.running /\ w.view = logs.view
        /\ w.busy = logs.busy /\ w.last = logs.last /\ w.prevTail = logs.prevTail /\ w.prevRunning = logs.prevRunning
        /\ w.frozen = logs.frozen /\ w.wasPaused = logs.wasPaused
    BY <1>2 DEF StreamInv, LogFields
  <1>4. UNCHANGED <<tail, gathers>>
    BY DEF EditFilter
  <1> QED BY <1>1, <1>3, <1>4, FormEdits

LEMMA GatherAsked ==
  ASSUME StreamInv, HandleGather
  PROVE  StreamInv' /\ FrozenStep /\ RestoredStep
  <1>1. PICK w : w = [logs EXCEPT !.last = logs.req, !.busy = TRUE]
    OBVIOUS
  <1>2. LogsCommit(w, FALSE) /\ tail' = tail
    BY <1>1 DEF HandleGather
  <1>3. PICK search : Asks("start", logs.req, search)
    BY DEF HandleGather
  <1>4. ~ Engaged(logs)
    BY DEF HandleGather, Body
  <1>5. /\ DOMAIN w = LogFields /\ w.mounted = logs.mounted /\ w.running = logs.running /\ w.view = logs.view
        /\ w.prevTail = logs.prevTail /\ w.prevRunning = logs.prevRunning
        /\ w.frozen = logs.frozen /\ w.wasPaused = logs.wasPaused
    BY <1>1 DEF StreamInv, LogFields
  <1>6. Rendered(w) /\ w.running = tail'.session /\ (~ w.running => w.view = EmptyShown)
    BY <1>2, <1>4, <1>5 DEF Rendered, StreamInv
  <1>7. DOMAIN tail' = {"session", "scope", "pods", "paused", "lines"}
    BY <1>2 DEF StreamInv
  <1>8. /\ \A g \in gathers' : DOMAIN g = {"op", "pods", "search"}
        /\ \E g \in gathers' : g.op \in BusyOps
    BY <1>3, AsksFacts DEF BusyOps
  <1> QED BY <1>2, <1>6, <1>7, <1>8, CommitInv

LEMMA TailAsked ==
  ASSUME StreamInv, TailButton
  PROVE  StreamInv' /\ FrozenStep /\ RestoredStep
  <1>1. PICK op : Asks(op, {}, FALSE)
    BY DEF TailButton
  <1>2. logs' = logs /\ tail' = tail /\ DOMAIN tail' = {"session", "scope", "pods", "paused", "lines"}
    BY DEF TailButton, StreamInv
  <1>3. /\ \A g \in gathers' : DOMAIN g = {"op", "pods", "search"}
        /\ logs.busy => \E g \in gathers' : g.op \in BusyOps
    BY <1>1, AsksFacts
  <1> QED BY <1>2, <1>3, StillInv

LEMMA PatternsFilter ==
  ASSUME StreamInv, FilterFromPatterns
  PROVE  StreamInv' /\ FrozenStep /\ RestoredStep
  <1>1. PICK w : w = [logs EXCEPT !.search = TRUE, !.mode = "logs"]
    OBVIOUS
  <1>2. LogsCommit(w, FALSE) /\ tail' = tail /\ (Asks("filter", logs.view.scope, TRUE) \/ gathers' = gathers)
    BY <1>1 DEF FilterFromPatterns
  <1>3. /\ DOMAIN w = LogFields /\ w.mounted = logs.mounted /\ w.running = logs.running /\ w.view = logs.view
        /\ w.busy = logs.busy /\ w.last = logs.last /\ w.prevTail = logs.prevTail /\ w.prevRunning = logs.prevRunning
        /\ w.frozen = logs.frozen /\ w.wasPaused = logs.wasPaused
    BY <1>1 DEF StreamInv, LogFields
  <1>4. Rendered(w) /\ w.running = tail'.session /\ (~ w.running => w.view = EmptyShown)
    BY <1>2, <1>3 DEF Rendered, StreamInv
  <1>5. DOMAIN tail' = {"session", "scope", "pods", "paused", "lines"}
    BY <1>2 DEF StreamInv
  <1>6. /\ \A g \in gathers' : DOMAIN g = {"op", "pods", "search"}
        /\ logs.busy => \E g \in gathers' : g.op \in BusyOps
    <2>1. CASE Asks("filter", logs.view.scope, TRUE)
      BY <2>1, AsksFacts
    <2>2. CASE gathers' = gathers
      BY <2>2 DEF StreamInv, BusyBacked, BusyOps
    <2> QED BY <1>2, <2>1, <2>2
  <1> QED BY <1>2, <1>3, <1>4, <1>5, <1>6, CommitInv

LEMMA CallHandled ==
  ASSUME StreamInv, BackendHandles
  PROVE  StreamInv' /\ FrozenStep /\ RestoredStep
  <1>1. PICK g \in gathers : StartLogTail(g) \/ StopLogTail(g) \/ PauseLogTail(g) \/ ResumeLogTail(g) \/ ClearLogs(g)
    BY DEF BackendHandles
  <1>2. logs' = logs
    BY DEF BackendHandles
  <1>3. tail'.session = tail.session /\ DOMAIN tail' = {"session", "scope", "pods", "paused", "lines"}
    <2>1. CASE StartLogTail(g)
      BY <2>1 DEF StreamInv, StartLogTail
    <2>2. CASE StopLogTail(g)
      BY <2>2 DEF StreamInv, StopLogTail
    <2>3. CASE PauseLogTail(g)
      BY <2>3 DEF StreamInv, PauseLogTail
    <2>4. CASE ResumeLogTail(g)
      BY <2>4 DEF StreamInv, ResumeLogTail
    <2>5. CASE ClearLogs(g)
      BY <2>5 DEF StreamInv, ClearLogs
    <2> QED BY <1>1, <2>1, <2>2, <2>3, <2>4, <2>5
  <1>4. PICK op : Becomes(g, op) /\ (g.op \in BusyOps => op \in BusyOps)
    <2>1. CASE StartLogTail(g)
      <3>1. CASE g.op = "start"
        <4>1. Becomes(g, "started") \/ Becomes(g, "failed")
          BY <2>1, <3>1 DEF StartLogTail
        <4> QED BY <4>1 DEF BusyOps
      <3>2. CASE g.op = "filter"
        <4>1. Becomes(g, "view") \/ Becomes(g, "done")
          BY <2>1, <3>2 DEF StartLogTail
        <4> QED BY <3>2, <4>1 DEF BusyOps
      <3> QED BY <2>1, <3>1, <3>2 DEF StartLogTail
    <2>2. CASE StopLogTail(g) \/ PauseLogTail(g) \/ ResumeLogTail(g) \/ ClearLogs(g)
      <3>1. g.op \notin BusyOps
        BY <2>2 DEF StopLogTail, PauseLogTail, ResumeLogTail, ClearLogs, BusyOps
      <3>2. \E op : Becomes(g, op)
        BY <2>2 DEF StopLogTail, PauseLogTail, ResumeLogTail, ClearLogs
      <3> QED BY <3>1, <3>2
    <2> QED BY <1>1, <2>1, <2>2
  <1>5. /\ \A h \in gathers' : DOMAIN h = {"op", "pods", "search"}
        /\ logs.busy => \E h \in gathers' : h.op \in BusyOps
    BY <1>4, BecomesFacts
  <1> QED BY <1>2, <1>3, <1>5, StillInv

(* The view that is shown, with what its handler sets. *)
LEMMA ViewComes ==
  ASSUME StreamInv, NEW w, LogsCommit(w, TRUE), UNCHANGED tail,
         DOMAIN w = LogFields, w.mounted = logs.mounted, w.running = logs.running, w.view = TailView,
         w.last = logs.last, w.prevTail = logs.prevTail, w.prevRunning = logs.prevRunning,
         w.frozen = logs.frozen, w.wasPaused = logs.wasPaused,
         \A g \in gathers' : DOMAIN g = {"op", "pods", "search"},
         w.busy => \E g \in gathers' : g.op \in BusyOps
  PROVE  StreamInv' /\ FrozenStep /\ RestoredStep
  <1>1. Rendered(w) /\ w.running = tail'.session
    BY DEF Rendered, StreamInv
  <1>2. ~ w.running => w.view = EmptyShown
    BY TailViewFacts
  <1>3. DOMAIN tail' = {"session", "scope", "pods", "paused", "lines"}
    BY DEF StreamInv
  <1> QED BY <1>1, <1>2, <1>3, CommitInv

LEMMA ViewsShown ==
  ASSUME StreamInv, ViewShown \/ HandlerEnds
  PROVE  StreamInv' /\ FrozenStep /\ RestoredStep
  <1>1. /\ \A g \in gathers' : DOMAIN g = {"op", "pods", "search"}
        /\ logs.busy => \E g \in gathers' : g.op \in BusyOps
    <2>1. CASE ViewShown
      BY <2>1 DEF ViewShown, StreamInv, BusyBacked, BusyOps
    <2>2. CASE HandlerEnds
      <3>1. PICK g \in gathers : g.op \in {"view", "cleared", "done"} /\ gathers' = gathers \ {g}
        BY <2>2 DEF HandlerEnds
      <3>2. g.op \notin BusyOps
        BY <3>1 DEF BusyOps
      <3> QED BY <3>1, <3>2, EndsFacts
    <2> QED BY <2>1, <2>2
  <1>2. tail' = tail
    BY DEF ViewShown, HandlerEnds
  <1>3. CASE logs' = logs
    <2>1. DOMAIN tail' = {"session", "scope", "pods", "paused", "lines"}
      BY <1>2 DEF StreamInv
    <2> QED BY <1>1, <1>2, <1>3, <2>1, StillInv
  <1>4. ASSUME NEW w, LogsCommit(w, TRUE),
               w = [logs EXCEPT !.view = TailView] \/ w = [logs EXCEPT !.view = TailView, !.search = FALSE]
        PROVE  StreamInv' /\ FrozenStep /\ RestoredStep
    <2>1. /\ DOMAIN w = LogFields /\ w.mounted = logs.mounted /\ w.running = logs.running /\ w.view = TailView
          /\ w.busy = logs.busy /\ w.last = logs.last /\ w.prevTail = logs.prevTail /\ w.prevRunning = logs.prevRunning
          /\ w.frozen = logs.frozen /\ w.wasPaused = logs.wasPaused
      BY <1>4 DEF StreamInv, LogFields
    <2> QED BY <1>1, <1>2, <1>4, <2>1, ViewComes
  <1>5. \/ logs' = logs
        \/ LogsCommit([logs EXCEPT !.view = TailView], TRUE)
        \/ LogsCommit([logs EXCEPT !.view = TailView, !.search = FALSE], TRUE)
    BY DEF ViewShown, HandlerEnds
  <1> QED BY <1>3, <1>4, <1>5

LEMMA GatherGoesOn ==
  ASSUME StreamInv, GatherStarted \/ GatherFailed
  PROVE  StreamInv' /\ FrozenStep /\ RestoredStep
  <1>1. PICK w : /\ LogsCommit(w, FALSE) /\ tail' = tail
                 /\ DOMAIN w = LogFields /\ w.mounted = logs.mounted /\ w.running = logs.running /\ w.view = logs.view
                 /\ w.last = logs.last /\ w.prevTail = logs.prevTail /\ w.prevRunning = logs.prevRunning
                 /\ w.frozen = logs.frozen /\ w.wasPaused = logs.wasPaused
                 /\ \A g \in gathers' : DOMAIN g = {"op", "pods", "search"}
                 /\ w.busy => \E g \in gathers' : g.op \in BusyOps
    <2>1. CASE GatherStarted
      <3>1. PICK g \in gathers : /\ LogsCommit([logs EXCEPT !.search = g.search, !.mode = "logs"], FALSE)
                                 /\ Becomes(g, "select") /\ tail' = tail
        BY <2>1 DEF GatherStarted
      <3>2. PICK w : w = [logs EXCEPT !.search = g.search, !.mode = "logs"]
        OBVIOUS
      <3>3. /\ \A h \in gathers' : DOMAIN h = {"op", "pods", "search"}
            /\ logs.busy => \E h \in gathers' : h.op \in BusyOps
        BY <3>1, BecomesFacts DEF BusyOps
      <3>4. /\ DOMAIN w = LogFields /\ w.mounted = logs.mounted /\ w.running = logs.running /\ w.view = logs.view
            /\ w.busy = logs.busy /\ w.last = logs.last /\ w.prevTail = logs.prevTail /\ w.prevRunning = logs.prevRunning
            /\ w.frozen = logs.frozen /\ w.wasPaused = logs.wasPaused
        BY <3>2 DEF StreamInv, LogFields
      <3> QED BY <3>1, <3>2, <3>3, <3>4
    <2>2. CASE GatherFailed
      <3>1. PICK g \in gathers : /\ LogsCommit([logs EXCEPT !.busy = FALSE], FALSE)
                                 /\ gathers' = gathers \ {g} /\ tail' = tail
        BY <2>2 DEF GatherFailed
      <3>2. PICK w : w = [logs EXCEPT !.busy = FALSE]
        OBVIOUS
      <3>3. \A h \in gathers' : DOMAIN h = {"op", "pods", "search"}
        BY <3>1 DEF StreamInv
      <3>4. /\ DOMAIN w = LogFields /\ w.mounted = logs.mounted /\ w.running = logs.running /\ w.view = logs.view
            /\ ~ w.busy /\ w.last = logs.last /\ w.prevTail = logs.prevTail /\ w.prevRunning = logs.prevRunning
            /\ w.frozen = logs.frozen /\ w.wasPaused = logs.wasPaused
        BY <3>2 DEF StreamInv, LogFields
      <3> QED BY <3>1, <3>2, <3>3, <3>4
    <2> QED BY <2>1, <2>2
  <1>2. Rendered(w) /\ w.running = tail'.session /\ (~ w.running => w.view = EmptyShown)
    BY <1>1 DEF Rendered, StreamInv
  <1>3. DOMAIN tail' = {"session", "scope", "pods", "paused", "lines"}
    BY <1>1 DEF StreamInv
  <1> QED BY <1>1, <1>2, <1>3, CommitInv

LEMMA GatherShown ==
  ASSUME StreamInv, GatherSelected
  PROVE  StreamInv' /\ FrozenStep /\ RestoredStep
  <1>1. PICK g \in gathers :
          /\ LogsCommit([logs EXCEPT !.view = TailView, !.busy = FALSE,
                                     !.selected = IF TailView.pods # {} THEN TailView.pods ELSE g.pods], TRUE)
          /\ gathers' = gathers \ {g} /\ tail' = tail
    BY DEF GatherSelected
  <1>2. PICK w : w = [logs EXCEPT !.view = TailView, !.busy = FALSE,
                                  !.selected = IF TailView.pods # {} THEN TailView.pods ELSE g.pods]
    OBVIOUS
  <1>3. /\ DOMAIN w = LogFields /\ w.mounted = logs.mounted /\ w.running = logs.running /\ w.view = TailView
        /\ ~ w.busy /\ w.last = logs.last /\ w.prevTail = logs.prevTail /\ w.prevRunning = logs.prevRunning
        /\ w.frozen = logs.frozen /\ w.wasPaused = logs.wasPaused
    BY <1>2 DEF StreamInv, LogFields
  <1>4. \A h \in gathers' : DOMAIN h = {"op", "pods", "search"}
    BY <1>1 DEF StreamInv
  <1> QED BY <1>1, <1>2, <1>3, <1>4, ViewComes

LEMMA StreamStep == StreamInv /\ [StreamNext]_streamVars => StreamInv' /\ [FrozenStep /\ RestoredStep]_streamVars
  <1> SUFFICES ASSUME StreamInv, [StreamNext]_streamVars PROVE StreamInv' /\ [FrozenStep /\ RestoredStep]_streamVars
    OBVIOUS
  <1>1. CASE UNCHANGED streamVars
    BY <1>1 DEF streamVars, StreamInv, BusyBacked
  <1>2. CASE StreamNext
    BY <1>2, PanelMounts, SessionChanges, TailMoves, RequestEdits, FilterEdits, GatherAsked, TailAsked, PatternsFilter,
       CallHandled, ViewsShown, GatherGoesOn, GatherShown DEF StreamNext
  <1> QED BY <1>1, <1>2

LEMMA StreamStarts == StreamInit => StreamInv
  BY DEF StreamInit, StreamInv, LogFields, EmptyShown, BusyBacked

LEMMA StreamHolds == StreamInv => IdleClean /\ BusyBacked
  <1> SUFFICES ASSUME StreamInv, logs.mounted, ~ logs.running
               PROVE  ShownRows(logs) = {} /\ logs.frozen = {} /\ logs.req = {}
    BY DEF StreamInv, IdleClean
  <1>1. PanelRight(logs)
    BY DEF StreamInv
  <1>2. logs.frozen = {} /\ logs.req = {}
    BY <1>1 DEF PanelRight
  <1>3. LiveRows(logs) = {}
    BY DEF LiveRows
  <1> QED BY <1>2, <1>3 DEF ShownRows

-----------------------------------------------------------------------------
(* The panes: the smaller and the larger of two sizes. *)
LEMMA MaxPair ==
  ASSUME NEW a \in Int, NEW b \in Int
  PROVE  Max({a, b}) \in {a, b} /\ Max({a, b}) >= a /\ Max({a, b}) >= b
  <1>1. \E x \in {a, b} : \A y \in {a, b} : x >= y
    OBVIOUS
  <1> QED BY <1>1 DEF Max

LEMMA MinPair ==
  ASSUME NEW a \in Int, NEW b \in Int
  PROVE  Min({a, b}) \in {a, b} /\ Min({a, b}) <= a /\ Min({a, b}) <= b
  <1>1. \E x \in {a, b} : \A y \in {a, b} : x =< y
    OBVIOUS
  <1> QED BY <1>1 DEF Min

LEMMA ClampFacts ==
  ASSUME NEW v \in Int, NEW lo \in Int, NEW hi \in Int
  PROVE  Clamp(v, lo, hi) \in Int /\ (lo <= hi => Clamp(v, lo, hi) >= lo) /\ Clamp(v, lo, hi) <= hi
  <1>1. PICK m : m = Max({lo, v})
    OBVIOUS
  <1>2. m \in Int /\ m >= lo
    BY <1>1, MaxPair
  <1>3. Min({hi, m}) \in {hi, m} /\ Min({hi, m}) <= hi
    BY <1>2, MinPair
  <1> QED BY <1>1, <1>2, <1>3 DEF Clamp

LEMMA RoomFacts ==
  ASSUME NEW vp \in Viewports, NEW place
  PROVE  /\ MaxExplorer(vp) \in Int /\ MaxExplorer(vp) >= ExplorerMin
         /\ MaxInspector(place, vp) \in Int /\ MinInspector(place) \in Int
         /\ OpenPaneSize(place, vp) \in Int
         /\ vp.w \in Nat
  <1>1. vp.w \in Nat /\ vp.h \in Nat
    BY ShellAssumption
  <1>2. MaxInspector(place, vp) \in Int /\ MinInspector(place) \in Int
    BY <1>1 DEF MaxInspector, MinInspector, InspectorBottomMin, InspectorMin
  <1>3. PICK a \in Int : a = (vp.w * 42) \div 100
    BY <1>1
  <1>4. \A x, y \in Int : Min({x, y}) \in Int /\ Max({x, y}) \in Int /\ Max({x, y}) >= x
    <2> TAKE x, y \in Int
    <2> QED BY MinPair, MaxPair
  <1>5. PICK m \in Int : m = Min({560, a})
    <2>1. PICK n \in Int : n = 560
      OBVIOUS
    <2>2. Min({n, a}) \in Int
      BY <1>4
    <2> QED BY <2>1, <2>2
  <1>6. MaxExplorer(vp) = Max({ExplorerMin, m})
    BY <1>3, <1>5 DEF MaxExplorer
  <1>7. MaxExplorer(vp) \in Int /\ MaxExplorer(vp) >= ExplorerMin
    BY <1>4, <1>6 DEF ExplorerMin
  <1>8. PICK b \in Int : b = (vp.h * 4) \div 10
    BY <1>1
  <1>9. PICK c \in Int : c = (vp.w * 4) \div 10
    BY <1>1
  <1>10. PICK u \in Int : u = Max({260, b})
    <2>1. PICK n \in Int : n = 260
      OBVIOUS
    <2>2. Max({n, b}) \in Int
      BY <1>4
    <2> QED BY <2>1, <2>2
  <1>11. PICK k \in Int : k = Clamp(c, 440, 720)
    <2>1. PICK lo \in Int, hi \in Int : lo = 440 /\ hi = 720
      OBVIOUS
    <2>2. Clamp(c, lo, hi) \in Int
      BY ClampFacts
    <2> QED BY <2>1, <2>2
  <1>12. PICK x \in Int : x = MaxInspector(place, vp)
    BY <1>2
  <1>13. Min({u, x}) \in Int /\ Min({k, x}) \in Int
    BY <1>4
  <1>14. OpenPaneSize(place, vp) \in Int
    BY <1>8, <1>9, <1>10, <1>11, <1>12, <1>13 DEF OpenPaneSize
  <1> QED BY <1>1, <1>2, <1>7, <1>14

LayoutFields == {"exWidth", "inSize", "exPinned", "inPinned", "place", "exCollapsed", "inCollapsed", "rail"}

ScreenFields == {"tab", "shown", "vp", "byHand", "auto"}

(* Panes of a layout in a window, and what its hand may do. *)
Fits(l, s) ==
  /\ l.exWidth \in ExplorerMin..MaxExplorer(s.vp)
  /\ l.inSize <= Max({MinInspector(l.place), MaxInspector(l.place, s.vp)})

HandRight(l, s) ==
  /\ s.byHand => InspectorOpenRight(l, s) /\ ~s.auto
  /\ ~s.byHand /\ HasExplorer(s) /\ InspectorOpenRight(l, s) /\ ~ExplorerCollapsed(l, s)
       => FreeWidth(l, s) >= WorkspaceMin

LEMMA ClampedFits ==
  ASSUME NEW l, DOMAIN l = LayoutFields, l.exWidth \in Int, l.exWidth >= ExplorerMin, l.inSize \in Int,
         NEW s, s.vp \in Viewports, NEW r, r = ClampEffect(l, s)
  PROVE  /\ DOMAIN r = LayoutFields /\ r.exWidth \in Int /\ r.inSize \in Int /\ Fits(r, s)
         /\ r.exPinned = l.exPinned /\ r.inPinned = l.inPinned /\ r.place = l.place
         /\ r.exCollapsed = l.exCollapsed /\ r.inCollapsed = l.inCollapsed /\ r.rail = l.rail
  <1>1. PICK a \in Int : a = MinInspector(l.place)
    BY RoomFacts
  <1>2. PICK b \in Int : b = MaxInspector(l.place, s.vp)
    BY RoomFacts
  <1>3. PICK e \in Int : e = MaxExplorer(s.vp) /\ e >= ExplorerMin
    BY RoomFacts
  <1>4. PICK m : m = Max({a, b})
    OBVIOUS
  <1>5. m \in Int /\ m >= b
    BY <1>4, MaxPair
  <1>6. r = [l EXCEPT !.inSize = IF l.inSize > b THEN m ELSE l.inSize,
                      !.exWidth = IF l.exWidth > e THEN e ELSE l.exWidth]
    BY <1>1, <1>2, <1>3, <1>4 DEF ClampEffect
  <1>7. /\ DOMAIN r = LayoutFields
        /\ r.inSize = (IF l.inSize > b THEN m ELSE l.inSize) /\ r.exWidth = (IF l.exWidth > e THEN e ELSE l.exWidth)
        /\ r.exPinned = l.exPinned /\ r.inPinned = l.inPinned /\ r.place = l.place
        /\ r.exCollapsed = l.exCollapsed /\ r.inCollapsed = l.inCollapsed /\ r.rail = l.rail
    BY <1>6 DEF LayoutFields
  <1>8. r.exWidth \in ExplorerMin .. e /\ r.exWidth \in Int /\ r.inSize \in Int /\ r.inSize <= m
    BY <1>3, <1>5, <1>7 DEF ExplorerMin
  <1> QED BY <1>1, <1>2, <1>3, <1>4, <1>7, <1>8 DEF Fits

(* A render that changes nothing but what the two effects set *)
SameScreen(r, s) == DOMAIN r = ScreenFields /\ r.tab = s.tab /\ r.shown = s.shown /\ r.vp = s.vp

LEMMA SamePlace ==
  ASSUME NEW r, NEW s, NEW l, SameScreen(r, s)
  PROVE  /\ HasExplorer(r) = HasExplorer(s) /\ InspectorOpenRight(l, r) = InspectorOpenRight(l, s)
         /\ RailCollapsed(l, r) = RailCollapsed(l, s) /\ FreeWidth(l, r) = FreeWidth(l, s)
  <1>1. HasExplorer(r) = HasExplorer(s) /\ InspectorOpenRight(l, r) = InspectorOpenRight(l, s)
    BY DEF SameScreen, HasExplorer, InspectorOpenRight, ShowsInspector
  <1>2. RailCollapsed(l, r) = RailCollapsed(l, s)
    BY <1>1 DEF RailCollapsed
  <1>3. FreeWidth(l, r) = FreeWidth(l, s)
    BY <1>2 DEF FreeWidth, SameScreen
  <1> QED BY <1>1, <1>2, <1>3

LEMMA FreeInt ==
  ASSUME NEW l, l.exWidth \in Int, l.inSize \in Int, NEW s, s.vp \in Viewports
  PROVE  FreeWidth(l, s) \in Int
  <1>1. s.vp.w \in Int
    BY RoomFacts
  <1> QED BY <1>1 DEF FreeWidth, Gutters

LEMMA ScreenFacts ==
  ASSUME NEW l, l.exWidth \in Int, l.inSize \in Int, NEW s, DOMAIN s = ScreenFields, s.vp \in Viewports,
         NEW r, r = Screen(l, s)
  PROVE  /\ SameScreen(r, s) /\ HandRight(l, r)
         /\ s.auto /\ ~ r.auto /\ InspectorOpenRight(l, r) /\ HasExplorer(r)
              => r.byHand \/ l.exCollapsed \/ FreeWidth(l, r) >= WorkspaceMin + Hysteresis
  <1>1. PICK d : d = [s EXCEPT !.auto = AutoCollapsed(l, s)]
    OBVIOUS
  <1>2. SameScreen(d, s) /\ d.byHand = s.byHand /\ d.auto = AutoCollapsed(l, s)
    BY <1>1 DEF SameScreen, ScreenFields
  <1>3. PICK h : h = HandEffect(l, d)
    OBVIOUS
  <1>4. /\ SameScreen(h, s) /\ h.auto = d.auto
        /\ InspectorOpenRight(l, s) => h.byHand = s.byHand
        /\ ~ InspectorOpenRight(l, s) => h.byHand = FALSE
    <2>1. InspectorOpenRight(l, d) = InspectorOpenRight(l, s)
      BY <1>2, SamePlace
    <2>2. CASE InspectorOpenRight(l, s)
      BY <1>2, <1>3, <2>1, <2>2 DEF HandEffect
    <2>3. CASE ~ InspectorOpenRight(l, s)
      <3>1. h = [d EXCEPT !.byHand = FALSE]
        BY <1>3, <2>1, <2>3 DEF HandEffect
      <3> QED BY <1>2, <2>3, <3>1 DEF SameScreen, ScreenFields
    <2> QED BY <2>2, <2>3
  <1>5. r = [h EXCEPT !.auto = AutoCollapsed(l, h)]
    BY <1>1, <1>3 DEF Screen
  <1>6. SameScreen(r, s) /\ SameScreen(r, h) /\ r.byHand = h.byHand /\ r.auto = AutoCollapsed(l, h)
    BY <1>4, <1>5 DEF SameScreen, ScreenFields
  <1>7. /\ HasExplorer(r) = HasExplorer(s) /\ InspectorOpenRight(l, r) = InspectorOpenRight(l, s)
        /\ FreeWidth(l, r) = FreeWidth(l, s)
        /\ HasExplorer(h) = HasExplorer(s) /\ InspectorOpenRight(l, h) = InspectorOpenRight(l, s)
        /\ FreeWidth(l, h) = FreeWidth(l, s)
    BY <1>4, <1>6, SamePlace
  <1>8. FreeWidth(l, s) \in Int
    BY FreeInt
  <1>9. HandRight(l, r)
    <2>1. ASSUME r.byHand PROVE InspectorOpenRight(l, r) /\ ~ r.auto
      <3>1. InspectorOpenRight(l, s)
        BY <1>4, <1>6, <2>1
      <3>2. ~ AutoCollapsed(l, h)
        BY <1>6, <2>1 DEF AutoCollapsed
      <3> QED BY <1>6, <1>7, <3>1, <3>2
    <2>2. ASSUME ~ r.byHand, HasExplorer(r), InspectorOpenRight(l, r), ~ l.exCollapsed, ~ r.auto
          PROVE  FreeWidth(l, r) >= WorkspaceMin
      <3>1. ~ AutoCollapsed(l, h)
        BY <1>6, <2>2
      <3>2. ~ (FreeWidth(l, s) < WorkspaceMin + (IF h.auto THEN Hysteresis ELSE 0))
        BY <1>6, <1>7, <2>2, <3>1 DEF AutoCollapsed
      <3> QED BY <1>7, <1>8, <3>2 DEF WorkspaceMin, Hysteresis
    <2> QED BY <2>1, <2>2 DEF HandRight, ExplorerCollapsed
  <1>10. ASSUME s.auto, ~ r.auto, InspectorOpenRight(l, r), HasExplorer(r), ~ r.byHand, ~ l.exCollapsed
         PROVE  FreeWidth(l, r) >= WorkspaceMin + Hysteresis
    <2>1. ~ s.byHand /\ ~ h.byHand
      BY <1>4, <1>6, <1>7, <1>10
    <2>2. CASE AutoCollapsed(l, s)
      <3>1. h.auto
        BY <1>2, <1>4, <2>2
      <3>2. ~ (FreeWidth(l, s) < WorkspaceMin + Hysteresis)
        BY <1>6, <1>7, <1>10, <2>1, <3>1 DEF AutoCollapsed
      <3> QED BY <1>7, <1>8, <3>2 DEF WorkspaceMin, Hysteresis
    <2>3. CASE ~ AutoCollapsed(l, s)
      <3>1. ~ (FreeWidth(l, s) < WorkspaceMin + Hysteresis)
        BY <1>7, <1>10, <2>1, <2>3 DEF AutoCollapsed
      <3> QED BY <1>7, <1>8, <3>1 DEF WorkspaceMin, Hysteresis
    <2> QED BY <2>2, <2>3
  <1> QED BY <1>6, <1>9, <1>10

ShellInv ==
  /\ DOMAIN layout = LayoutFields /\ layout.inSize \in Int
  /\ DOMAIN saved = LayoutFields
  /\ DOMAIN screen = ScreenFields /\ screen.vp \in Viewports
  /\ PanesFit /\ HandWins /\ SavedCurrent

(* What a step of the panes must not do. *)
FlickerStep ==
  screen.auto /\ ~screen'.auto /\ InspectorOpenRight(layout', screen') /\ HasExplorer(screen')
    => screen'.byHand \/ layout'.exCollapsed \/ FreeWidth(layout', screen') >= WorkspaceMin + Hysteresis

RailStep ==
  layout'.rail # layout.rail
    => /\ RailCollapsed(layout', screen') # RailCollapsed(layout, screen)
       /\ layout'.rail # "auto" => RailCollapsed(layout', screen') # HasExplorer(screen')

LEMMA LayoutInt == ShellInv => layout.exWidth \in Int /\ layout.exWidth >= ExplorerMin /\ layout.inSize \in Int
  <1> SUFFICES ASSUME ShellInv PROVE layout.exWidth \in Int /\ layout.exWidth >= ExplorerMin
    BY DEF ShellInv
  <1>1. MaxExplorer(screen.vp) \in Int
    BY RoomFacts DEF ShellInv
  <1> QED BY <1>1 DEF ShellInv, PanesFit, ExplorerMin

(* A render of a layout that fits the window. *)
LEMMA RenderKeeps ==
  ASSUME DOMAIN layout' = LayoutFields, layout'.exWidth \in Int, layout'.inSize \in Int, DOMAIN saved' = LayoutFields,
         NEW s, DOMAIN s = ScreenFields, s.vp \in Viewports, screen' = Screen(layout', s),
         Fits(layout', s), SavedCurrent',
         screen.auto => s.auto \/ layout'.inCollapsed
  PROVE  ShellInv' /\ FlickerStep /\ SameScreen(screen', s)
  <1>1. PICK l : l = layout'
    OBVIOUS
  <1>2. PICK r : r = Screen(l, s)
    OBVIOUS
  <1>3. screen' = r
    BY <1>1, <1>2
  <1>4. /\ SameScreen(r, s) /\ HandRight(l, r)
        /\ s.auto /\ ~ r.auto /\ InspectorOpenRight(l, r) /\ HasExplorer(r)
             => r.byHand \/ l.exCollapsed \/ FreeWidth(l, r) >= WorkspaceMin + Hysteresis
    BY <1>1, <1>2, ScreenFacts
  <1>5. HandWins'
    BY <1>1, <1>3, <1>4 DEF HandRight, HandWins
  <1>6. PanesFit'
    BY <1>1, <1>3, <1>4 DEF Fits, PanesFit, SameScreen
  <1>7. FlickerStep
    BY <1>1, <1>3, <1>4 DEF FlickerStep, InspectorOpenRight
  <1>8. ShellInv'
    BY <1>3, <1>4, <1>5, <1>6 DEF ShellInv, SameScreen
  <1> QED BY <1>3, <1>4, <1>7, <1>8

(* A commit with the layout clamped and saved. *)
LEMMA CommitShell ==
  ASSUME NEW l, DOMAIN l = LayoutFields, l.exWidth \in Int, l.exWidth >= ExplorerMin, l.inSize \in Int,
         NEW s, DOMAIN s = ScreenFields, s.vp \in Viewports, ShellCommit(l, s),
         screen.auto => s.auto \/ l.inCollapsed
  PROVE  ShellInv' /\ FlickerStep /\ SameScreen(screen', s) /\ layout'.rail = l.rail
  <1>1. PICK r : r = ClampEffect(l, s)
    OBVIOUS
  <1>2. layout' = r /\ saved' = LoadLayout(r) /\ screen' = Screen(r, s)
    BY <1>1 DEF ShellCommit, Patch
  <1>3. /\ DOMAIN r = LayoutFields /\ r.exWidth \in Int /\ r.inSize \in Int /\ Fits(r, s)
        /\ r.inCollapsed = l.inCollapsed /\ r.rail = l.rail
    BY <1>1, ClampedFits
  <1>4. DOMAIN saved' = LayoutFields /\ SavedCurrent'
    <2>1. /\ DOMAIN saved' = LayoutFields
          /\ saved'.exWidth = r.exWidth /\ saved'.inSize = r.inSize /\ saved'.exPinned = r.exPinned
          /\ saved'.inPinned = r.inPinned /\ saved'.place = r.place /\ saved'.rail = r.rail
      BY <1>2, <1>3 DEF LoadLayout, LayoutFields
    <2> QED BY <1>2, <2>1 DEF SavedCurrent
  <1> QED BY <1>2, <1>3, <1>4, RenderKeeps

(* A layout that differs from the one that is shown, with the screen as it is. *)
LEMMA LayoutCommits ==
  ASSUME ShellInv, NEW l, DOMAIN l = LayoutFields, l.exWidth \in Int, l.exWidth >= ExplorerMin, l.inSize \in Int,
         ShellCommit(l, screen), l.rail = layout.rail
  PROVE  ShellInv' /\ FlickerStep /\ RailStep
  <1>1. DOMAIN screen = ScreenFields /\ screen.vp \in Viewports
    BY DEF ShellInv
  <1> QED BY <1>1, CommitShell DEF RailStep

LEMMA TabSelected ==
  ASSUME ShellInv, ShellSelectTab
  PROVE  ShellInv' /\ FlickerStep /\ RailStep
  <1>1. PICK t, v : /\ layout' = [layout EXCEPT !.exCollapsed = ExplorerDefaultCollapsed(t)]
                    /\ screen' = Screen([layout EXCEPT !.exCollapsed = ExplorerDefaultCollapsed(t)],
                                        [screen EXCEPT !.tab = t, !.shown = v])
                    /\ UNCHANGED saved
    BY DEF ShellSelectTab
  <1>2. PICK s : s = [screen EXCEPT !.tab = t, !.shown = v]
    OBVIOUS
  <1>3. DOMAIN s = ScreenFields /\ s.vp = screen.vp /\ s.auto = screen.auto
    BY <1>2 DEF ShellInv, ScreenFields
  <1>4. /\ DOMAIN layout' = LayoutFields /\ layout'.exWidth = layout.exWidth /\ layout'.inSize = layout.inSize
        /\ layout'.exPinned = layout.exPinned /\ layout'.inPinned = layout.inPinned /\ layout'.place = layout.place
        /\ layout'.rail = layout.rail
    BY <1>1 DEF ShellInv, LayoutFields
  <1>5. Fits(layout', s)
    BY <1>3, <1>4 DEF ShellInv, PanesFit, Fits
  <1>6. SavedCurrent'
    BY <1>1, <1>4 DEF ShellInv, SavedCurrent
  <1>7. DOMAIN saved' = LayoutFields /\ s.vp \in Viewports
    BY <1>1, <1>3 DEF ShellInv
  <1>8. layout'.exWidth \in Int /\ layout'.inSize \in Int
    BY <1>4, LayoutInt
  <1>9. screen' = Screen(layout', s)
    BY <1>1, <1>2
  <1>10. ShellInv' /\ FlickerStep
    BY <1>3, <1>4, <1>5, <1>6, <1>7, <1>8, <1>9, RenderKeeps
  <1> QED BY <1>4, <1>10 DEF RailStep

LEMMA ExplorerToggled ==
  ASSUME ShellInv, ToggleExplorer
  PROVE  ShellInv' /\ FlickerStep /\ RailStep
  <1>1. CASE screen.auto
    <2>1. PICK s : s = [screen EXCEPT !.byHand = TRUE]
      OBVIOUS
    <2>2. layout' = layout /\ saved' = saved /\ screen' = Screen(layout', s)
      BY <1>1, <2>1 DEF ToggleExplorer
    <2>3. DOMAIN s = ScreenFields /\ s.vp = screen.vp /\ s.auto = screen.auto
      BY <2>1 DEF ShellInv, ScreenFields
    <2>4. DOMAIN layout' = LayoutFields /\ Fits(layout', s) /\ SavedCurrent' /\ DOMAIN saved' = LayoutFields /\ s.vp \in Viewports
      BY <2>2, <2>3 DEF ShellInv, PanesFit, Fits, SavedCurrent
    <2>5. layout'.exWidth \in Int /\ layout'.inSize \in Int
      BY <2>2, LayoutInt
    <2>6. ShellInv' /\ FlickerStep
      BY <2>2, <2>3, <2>4, <2>5, RenderKeeps
    <2> QED BY <2>2, <2>6 DEF RailStep
  <1>2. CASE ~ screen.auto
    <2>1. PICK l : l = [layout EXCEPT !.exCollapsed = ~ layout.exCollapsed]
      OBVIOUS
    <2>2. ShellCommit(l, screen)
      BY <1>2, <2>1 DEF ToggleExplorer
    <2>3. DOMAIN l = LayoutFields /\ l.exWidth = layout.exWidth /\ l.inSize = layout.inSize /\ l.rail = layout.rail
      BY <2>1 DEF ShellInv, LayoutFields
    <2> QED BY <2>2, <2>3, LayoutInt, LayoutCommits
  <1> QED BY <1>1, <1>2

LEMMA RailToggled ==
  ASSUME ShellInv, ToggleRail
  PROVE  ShellInv' /\ FlickerStep /\ RailStep
  <1>1. PICK l : l = [layout EXCEPT !.rail = NextRailMode(layout, screen)]
    OBVIOUS
  <1>2. ShellCommit(l, screen)
    BY <1>1 DEF ToggleRail
  <1>3. /\ DOMAIN l = LayoutFields /\ l.exWidth = layout.exWidth /\ l.inSize = layout.inSize
        /\ l.rail = NextRailMode(layout, screen)
    BY <1>1 DEF ShellInv, LayoutFields
  <1>4. DOMAIN screen = ScreenFields /\ screen.vp \in Viewports
    BY DEF ShellInv
  <1>5. ShellInv' /\ FlickerStep /\ SameScreen(screen', screen) /\ layout'.rail = l.rail
    BY <1>2, <1>3, <1>4, LayoutInt, CommitShell
  <1>6. HasExplorer(screen') = HasExplorer(screen)
    BY <1>5 DEF SameScreen, HasExplorer
  <1>7. RailStep
    <2>1. PICK h : h = HasExplorer(screen) /\ h \in BOOLEAN
      BY DEF HasExplorer
    <2>2. PICK c : c = ~ RailCollapsed(layout, screen) /\ c \in BOOLEAN
      BY DEF RailCollapsed
    <2>3. layout'.rail = IF c = h THEN "auto" ELSE IF c THEN "collapsed" ELSE "expanded"
      BY <1>3, <1>5, <2>1, <2>2 DEF NextRailMode
    <2>4. RailCollapsed(layout', screen') = c
      BY <1>6, <2>1, <2>2, <2>3 DEF RailCollapsed
    <2>5. layout'.rail # "auto" => c # h
      BY <2>3
    <2> QED BY <1>6, <2>1, <2>2, <2>4, <2>5 DEF RailStep
  <1> QED BY <1>5, <1>7

LEMMA InspectorToggled ==
  ASSUME ShellInv, ToggleInspector \/ DismissInspector
  PROVE  ShellInv' /\ FlickerStep /\ RailStep
  <1>1. PICK b : ShellCommit([layout EXCEPT !.inCollapsed = b], screen)
    <2>1. CASE ToggleInspector
      <3>1. ShellCommit([layout EXCEPT !.inCollapsed = ~ layout.inCollapsed], screen)
        BY <2>1 DEF ToggleInspector
      <3> QED BY <3>1
    <2>2. CASE DismissInspector
      BY <2>2 DEF DismissInspector
    <2> QED BY <2>1, <2>2
  <1>2. PICK l : l = [layout EXCEPT !.inCollapsed = b]
    OBVIOUS
  <1>3. DOMAIN l = LayoutFields /\ l.exWidth = layout.exWidth /\ l.inSize = layout.inSize /\ l.rail = layout.rail
    BY <1>2 DEF ShellInv, LayoutFields
  <1> QED BY <1>1, <1>2, <1>3, LayoutInt, LayoutCommits

LEMMA InspectorOpens ==
  ASSUME ShellInv, ExpandInspector
  PROVE  ShellInv' /\ FlickerStep /\ RailStep
  <1>1. PICK l : l = [layout EXCEPT !.inCollapsed = FALSE, !.inSize = OpenSize(layout, screen)]
    OBVIOUS
  <1>2. ShellCommit(l, screen)
    BY <1>1 DEF ExpandInspector
  <1>3. DOMAIN l = LayoutFields /\ l.exWidth = layout.exWidth /\ l.inSize = OpenSize(layout, screen) /\ l.rail = layout.rail
    BY <1>1 DEF ShellInv, LayoutFields
  <1>4. OpenSize(layout, screen) \in Int
    <2>1. PICK a \in Int : a = MinInspector(layout.place)
      BY RoomFacts DEF ShellInv
    <2>2. PICK b \in Int : b = MaxInspector(layout.place, screen.vp)
      BY RoomFacts DEF ShellInv
    <2>3. PICK m : m = Max({a, b})
      OBVIOUS
    <2>4. m \in Int
      BY <2>3, MaxPair
    <2>5. Clamp(layout.inSize, a, m) \in Int
      BY <2>4, LayoutInt, ClampFacts
    <2>6. OpenPaneSize(layout.place, screen.vp) \in Int
      BY RoomFacts DEF ShellInv
    <2> QED BY <2>1, <2>2, <2>3, <2>5, <2>6 DEF OpenSize
  <1> QED BY <1>2, <1>3, <1>4, LayoutInt, LayoutCommits

LEMMA InspectorPlaced ==
  ASSUME ShellInv, SetInspectorPlacement
  PROVE  ShellInv' /\ FlickerStep /\ RailStep
  <1>1. PICK p : ShellCommit(PlaceInspector(layout, p), screen)
    BY DEF SetInspectorPlacement
  <1>2. PICK n : n = IF p = "bottom" /\ layout.inSize > 320 THEN 280 ELSE layout.inSize
    OBVIOUS
  <1>3. PICK l : l = [layout EXCEPT !.place = p, !.inCollapsed = FALSE, !.inPinned = FALSE, !.inSize = n]
    OBVIOUS
  <1>4. ShellCommit(l, screen)
    BY <1>1, <1>2, <1>3 DEF PlaceInspector
  <1>5. DOMAIN l = LayoutFields /\ l.exWidth = layout.exWidth /\ l.inSize = n /\ l.rail = layout.rail
    BY <1>3 DEF ShellInv, LayoutFields
  <1>6. n \in Int
    BY <1>2, LayoutInt
  <1> QED BY <1>4, <1>5, <1>6, LayoutInt, LayoutCommits

(* However far the explorer's edge is pulled. *)
LEMMA ExplorerSized ==
  ASSUME ShellInv, DragExplorer \/ FitExplorer \/ RefitExplorer
  PROVE  ShellInv' /\ FlickerStep /\ RailStep
  <1>1. PICK d \in Drags : \E b :
          ShellCommit([layout EXCEPT !.exPinned = b, !.exWidth = Clamp(d, ExplorerMin, MaxExplorer(screen.vp))], screen)
    <2>1. CASE DragExplorer
      BY <2>1 DEF DragExplorer
    <2>2. CASE FitExplorer
      <3>1. PICK d \in Drags : ShellCommit([layout EXCEPT !.exWidth = Clamp(d, ExplorerMin, MaxExplorer(screen.vp))], screen)
        BY <2>2 DEF FitExplorer
      <3>2. [layout EXCEPT !.exWidth = Clamp(d, ExplorerMin, MaxExplorer(screen.vp))]
              = [layout EXCEPT !.exPinned = layout.exPinned, !.exWidth = Clamp(d, ExplorerMin, MaxExplorer(screen.vp))]
        BY DEF ShellInv, LayoutFields
      <3> QED BY <3>1, <3>2
    <2>3. CASE RefitExplorer
      BY <2>3 DEF RefitExplorer
    <2> QED BY <2>1, <2>2, <2>3
  <1>2. PICK b :
          ShellCommit([layout EXCEPT !.exPinned = b, !.exWidth = Clamp(d, ExplorerMin, MaxExplorer(screen.vp))], screen)
    BY <1>1
  <1>3. PICK n : n = Clamp(d, ExplorerMin, MaxExplorer(screen.vp))
    OBVIOUS
  <1>4. PICK l : l = [layout EXCEPT !.exPinned = b, !.exWidth = n] /\ ShellCommit(l, screen)
    BY <1>2, <1>3
  <1>5. DOMAIN l = LayoutFields /\ l.exWidth = n /\ l.inSize = layout.inSize /\ l.rail = layout.rail
    BY <1>4 DEF ShellInv, LayoutFields
  <1>6. n \in Int /\ n >= ExplorerMin
    <2>1. PICK e \in Int : e = MaxExplorer(screen.vp) /\ e >= ExplorerMin
      BY RoomFacts DEF ShellInv
    <2>2. d \in Int
      BY ShellAssumption
    <2>3. ExplorerMin \in Int
      BY DEF ExplorerMin
    <2> QED BY <1>3, <2>1, <2>2, <2>3, ClampFacts
  <1> QED BY <1>4, <1>5, <1>6, LayoutInt, LayoutCommits

LEMMA InspectorSized ==
  ASSUME ShellInv, DragInspector \/ RefitInspector
  PROVE  ShellInv' /\ FlickerStep /\ RailStep
  <1>1. PICK n \in Int : \E b, c : ShellCommit([layout EXCEPT !.inCollapsed = c, !.inPinned = b, !.inSize = n], screen)
    <2>1. CASE DragInspector
      <3>1. PICK d \in Drags :
              ShellCommit([layout EXCEPT !.inCollapsed = FALSE, !.inPinned = TRUE,
                                         !.inSize = Clamp(d, MinInspector(layout.place),
                                                          Max({MinInspector(layout.place), MaxInspector(layout.place, screen.vp)}))],
                          screen)
        BY <2>1 DEF DragInspector
      <3>2. PICK lo \in Int : lo = MinInspector(layout.place)
        BY RoomFacts DEF ShellInv
      <3>3. PICK x \in Int : x = MaxInspector(layout.place, screen.vp)
        BY RoomFacts DEF ShellInv
      <3>4. PICK m : m = Max({lo, x})
        OBVIOUS
      <3>5. m \in Int
        BY <3>4, MaxPair
      <3>6. d \in Int
        BY ShellAssumption
      <3>7. Clamp(d, lo, m) \in Int
        BY <3>5, <3>6, ClampFacts
      <3>8. ShellCommit([layout EXCEPT !.inCollapsed = FALSE, !.inPinned = TRUE, !.inSize = Clamp(d, lo, m)], screen)
        BY <3>1, <3>2, <3>3, <3>4
      <3> QED BY <3>7, <3>8
    <2>2. CASE RefitInspector
      <3>1. PICK n \in Int : n = OpenPaneSize(layout.place, screen.vp)
        BY RoomFacts DEF ShellInv
      <3>2. ShellCommit([layout EXCEPT !.inPinned = FALSE, !.inSize = n], screen)
        BY <2>2, <3>1 DEF RefitInspector
      <3>3. [layout EXCEPT !.inPinned = FALSE, !.inSize = n]
              = [layout EXCEPT !.inCollapsed = layout.inCollapsed, !.inPinned = FALSE, !.inSize = n]
        BY DEF ShellInv, LayoutFields
      <3> QED BY <3>2, <3>3
    <2> QED BY <2>1, <2>2
  <1>2. PICK l : ShellCommit(l, screen) /\ \E b, c : l = [layout EXCEPT !.inCollapsed = c, !.inPinned = b, !.inSize = n]
    BY <1>1
  <1>3. DOMAIN l = LayoutFields /\ l.exWidth = layout.exWidth /\ l.inSize = n /\ l.rail = layout.rail
    BY <1>2 DEF ShellInv, LayoutFields
  <1> QED BY <1>1, <1>2, <1>3, LayoutInt, LayoutCommits

LEMMA WindowResized ==
  ASSUME ShellInv, ResizeWindow
  PROVE  ShellInv' /\ FlickerStep /\ RailStep
  <1>1. PICK vp \in Viewports :
          IF ClampEffect(layout, [screen EXCEPT !.vp = vp]) = layout
          THEN screen' = Screen(layout, [screen EXCEPT !.vp = vp]) /\ UNCHANGED <<layout, saved>>
          ELSE ShellCommit(layout, [screen EXCEPT !.vp = vp])
    BY DEF ResizeWindow
  <1>2. PICK s : s = [screen EXCEPT !.vp = vp]
    OBVIOUS
  <1>3. DOMAIN s = ScreenFields /\ s.vp = vp /\ s.auto = screen.auto /\ DOMAIN layout = LayoutFields
    BY <1>2 DEF ShellInv, ScreenFields
  <1>4. CASE ClampEffect(layout, s) = layout
    <2>1. screen' = Screen(layout', s) /\ layout' = layout /\ saved' = saved
      BY <1>1, <1>2, <1>4
    <2>2. Fits(layout, s)
      BY <1>3, <1>4, LayoutInt, ClampedFits
    <2>3. DOMAIN layout' = LayoutFields /\ Fits(layout', s) /\ SavedCurrent' /\ DOMAIN saved' = LayoutFields
      BY <2>1, <2>2 DEF ShellInv, SavedCurrent
    <2>4. layout'.exWidth \in Int /\ layout'.inSize \in Int
      BY <2>1, LayoutInt
    <2>5. ShellInv' /\ FlickerStep
      BY <1>3, <2>1, <2>3, <2>4, RenderKeeps
    <2> QED BY <2>1, <2>5 DEF RailStep
  <1>5. CASE ClampEffect(layout, s) # layout
    <2>1. ShellCommit(layout, s)
      BY <1>1, <1>2, <1>5
    <2>2. ShellInv' /\ FlickerStep /\ layout'.rail = layout.rail
      BY <1>3, <2>1, LayoutInt, CommitShell
    <2> QED BY <2>2 DEF RailStep
  <1> QED BY <1>4, <1>5

LEMMA WindowRestarted ==
  ASSUME ShellInv, Restart
  PROVE  ShellInv' /\ FlickerStep /\ RailStep
  <1>1. PICK k : k = LoadLayout(saved)
    OBVIOUS
  <1>2. PICK l : l = [k EXCEPT !.exCollapsed = ExplorerDefaultCollapsed("resources")]
    OBVIOUS
  <1>3. PICK s : s = [screen EXCEPT !.tab = "resources", !.shown = FALSE, !.byHand = FALSE, !.auto = FALSE]
    OBVIOUS
  <1>4. ShellCommit(l, s)
    BY <1>1, <1>2, <1>3 DEF Restart
  <1>5. /\ DOMAIN k = LayoutFields /\ k.inCollapsed = TRUE /\ k.exWidth = saved.exWidth /\ k.inSize = saved.inSize
        /\ k.rail = saved.rail
    BY <1>1 DEF ShellInv, LoadLayout, LayoutFields
  <1>6. /\ DOMAIN l = LayoutFields /\ l.inCollapsed = TRUE /\ l.exWidth = saved.exWidth /\ l.inSize = saved.inSize
        /\ l.rail = saved.rail
    BY <1>2, <1>5 DEF LayoutFields
  <1>7. saved.exWidth = layout.exWidth /\ saved.inSize = layout.inSize /\ saved.rail = layout.rail
    BY DEF ShellInv, SavedCurrent
  <1>8. DOMAIN s = ScreenFields /\ s.vp \in Viewports
    BY <1>3 DEF ShellInv, ScreenFields
  <1>9. ShellInv' /\ FlickerStep /\ layout'.rail = l.rail
    BY <1>4, <1>6, <1>7, <1>8, LayoutInt, CommitShell
  <1> QED BY <1>6, <1>7, <1>9 DEF RailStep

LEMMA ShellStep == ShellInv /\ [ShellNext]_shellVars => ShellInv' /\ [FlickerStep /\ RailStep]_shellVars
  <1> SUFFICES ASSUME ShellInv, [ShellNext]_shellVars PROVE ShellInv' /\ [FlickerStep /\ RailStep]_shellVars
    OBVIOUS
  <1>1. CASE UNCHANGED shellVars
    BY <1>1 DEF shellVars, ShellInv, PanesFit, HandWins, SavedCurrent
  <1>2. CASE ShellNext
    BY <1>2, TabSelected, ExplorerToggled, RailToggled, InspectorToggled, InspectorOpens, InspectorPlaced,
       ExplorerSized, InspectorSized, WindowResized, WindowRestarted DEF ShellNext
  <1> QED BY <1>1, <1>2

LEMMA ShellStarts == ShellInit => ShellInv
  <1> SUFFICES ASSUME ShellInit PROVE ShellInv
    OBVIOUS
  <1>1. /\ layout = DefaultLayout
        /\ screen = [tab |-> "resources", shown |-> FALSE, vp |-> FirstSize, byHand |-> FALSE, auto |-> FALSE]
    BY DEF ShellInit
  <1>2. DOMAIN layout = LayoutFields /\ layout.exWidth = 260 /\ layout.inSize = 440 /\ layout.inCollapsed /\ layout.place = "right"
    BY <1>1 DEF DefaultLayout, LayoutFields
  <1>3. DOMAIN screen = ScreenFields /\ screen.vp = FirstSize /\ FirstSize \in Viewports /\ ~ screen.byHand
    BY <1>1, ShellAssumption DEF ScreenFields
  <1>4. PanesFit
    <2>1. PICK lo \in Int, a \in Int, e \in Int, hi \in Int : lo = 560 /\ a = 537 /\ e = 180 /\ hi = 896
      OBVIOUS
    <2>0. a <= lo /\ e <= a
      BY <2>1
    <2>2. Min({lo, a}) = a
      BY <2>0, MinPair
    <2>3. Max({e, a}) = a
      BY <2>0, MaxPair
    <2>4. MaxExplorer(FirstSize) = Max({e, Min({lo, a})})
      BY <2>1 DEF MaxExplorer, FirstSize, ExplorerMin
    <2>5. MaxExplorer(screen.vp) = 537
      BY <1>3, <2>1, <2>2, <2>3, <2>4
    <2>6. PICK n \in Int : n = 280
      OBVIOUS
    <2>7. MinInspector(layout.place) = n /\ MaxInspector(layout.place, screen.vp) = hi
      BY <1>2, <1>3, <2>1, <2>6 DEF MinInspector, MaxInspector, InspectorMin, FirstSize
    <2>8. Max({n, hi}) >= hi
      BY MaxPair
    <2>9. Max({n, hi}) \in Int
      BY MaxPair
    <2> QED BY <1>2, <2>1, <2>5, <2>7, <2>8, <2>9 DEF PanesFit, ExplorerMin
  <1>5. HandWins
    BY <1>2, <1>3 DEF HandWins, InspectorOpenRight
  <1>6. saved = LoadLayout(DefaultLayout)
    BY DEF ShellInit
  <1>7. DOMAIN saved = LayoutFields /\ SavedCurrent
    BY <1>1, <1>6 DEF LoadLayout, DefaultLayout, LayoutFields, SavedCurrent
  <1> QED BY <1>2, <1>3, <1>4, <1>5, <1>7 DEF ShellInv

(* Whatever sizes the window takes, however far a pane's edge is pulled and
   whichever tabs are visited: the panes fit the window, an explorer expanded
   by hand stays and one that yields does not flicker, and a restart finds the
   panes as they were (useShellLayout.js); and whatever arrives for the log
   panel and however late, it holds a paused tail, gives the request back, is
   never busy for nothing, and is clean when the investigation is over
   (LiveStreamPanel.jsx, useStreamPanel.js). *)
THEOREM PanelsSafe == PagesSpec => PanelsHold
  <1> DEFINE Inv == ShellInv /\ StreamInv
             allVars == <<area, shellVars, pageVars, streamVars, patternVars, prefsVars, settingsVars, settingVars, inspectVars>>
  <1>1. PagesInit => Inv
    BY ShellStarts, StreamStarts DEF PagesInit
  <1>2. [PagesNext]_allVars => [ShellNext]_shellVars /\ [StreamNext]_streamVars
    BY DEF PagesNext, Runs
  <1>3. Inv /\ [PagesNext]_allVars => Inv'
    BY <1>2, ShellStep, StreamStep
  <1>4. Inv => PanesFit /\ HandWins /\ SavedCurrent /\ IdleClean /\ BusyBacked
    BY StreamHolds DEF ShellInv
  <1>5. Inv /\ [PagesNext]_allVars => [FlickerStep]_shellVars /\ [RailStep]_shellVars
    BY <1>2, ShellStep
  <1>6. Inv /\ [PagesNext]_allVars => [FrozenStep]_streamVars /\ [RestoredStep]_streamVars
    BY <1>2, StreamStep
  <1>7. PagesSpec => [][FlickerStep]_shellVars /\ [][RailStep]_shellVars /\ [][FrozenStep]_streamVars /\ [][RestoredStep]_streamVars
    BY <1>1, <1>3, <1>5, <1>6, PTL DEF PagesSpec
  <1>8. PagesSpec => [](PanesFit /\ HandWins /\ SavedCurrent) /\ [](IdleClean /\ BusyBacked)
    BY <1>1, <1>3, <1>4, PTL DEF PagesSpec
  <1>9. ([][FlickerStep]_shellVars => NoFlicker) /\ ([][RailStep]_shellVars => RailAdapts)
    BY PTL DEF NoFlicker, RailAdapts, FlickerStep, RailStep
  <1>10. ([][FrozenStep]_streamVars => FrozenHolds) /\ ([][RestoredStep]_streamVars => RequestRestored)
    BY PTL DEF FrozenHolds, RequestRestored, FrozenStep, RestoredStep
  <1> QED BY <1>7, <1>8, <1>9, <1>10, PTL DEF PanelsHold, LayoutHolds, LogsHold

-----------------------------------------------------------------------------
(* The calls to the process. *)
Paths == Kubeconfigs \cup {NoPath}

Calls ==
  [op : {"getproxy", "stop"}]
    \cup [op : {"proxy"}, v : Proxies \cup {NoPath}, page : BOOLEAN]
    \cup [op : {"auto"}, v : BOOLEAN] \cup [op : {"poll"}, v : Refreshes \cup {10}]
    \cup [op : {"kubeconfig"}, v : Paths] \cup [op : {"start"}, v : Options]

NoneOf(q, op) == \A i \in 1 .. Len(q) : q[i].op # op

LastOf(q, op, v) == \E i \in 1 .. Len(q) : q[i].op = op /\ q[i].v = v /\ \A j \in 1 .. Len(q) : j > i => q[j].op # op

(* Once the calls are served, the last one has made it v, or it is v now. *)
Owed(q, op, v, now) == LastOf(q, op, v) \/ (NoneOf(q, op) /\ now = v)

LEMMA Joined ==
  ASSUME NEW q \in Seq(Calls), NEW s \in Seq(Calls), NEW r, r = q \o s
  PROVE  /\ r \in Seq(Calls)
         /\ \A op : NoneOf(q, op) /\ NoneOf(s, op) => NoneOf(r, op)
         /\ \A op, v : LastOf(s, op, v) => LastOf(r, op, v)
         /\ \A op, v : LastOf(q, op, v) /\ NoneOf(s, op) => LastOf(r, op, v)
         /\ Len(r) = Len(q) + Len(s) /\ Len(q) \in Nat /\ Len(s) \in Nat
         /\ \A i \in 1 .. Len(q) : i \in 1 .. Len(r) /\ r[i] = q[i]
         /\ \A i \in 1 .. Len(s) : Len(q) + i \in 1 .. Len(r) /\ r[Len(q) + i] = s[i]
         /\ \A i \in 1 .. Len(r) : (i \in 1 .. Len(q) /\ r[i] = q[i]) \/ (i - Len(q) \in 1 .. Len(s) /\ r[i] = s[i - Len(q)])
  <1>1. /\ r \in Seq(Calls) /\ Len(r) = Len(q) + Len(s) /\ Len(q) \in Nat /\ Len(s) \in Nat
        /\ \A i \in 1 .. Len(q) + Len(s) : r[i] = IF i <= Len(q) THEN q[i] ELSE s[i - Len(q)]
    BY ConcatProperties, LenProperties
  <1>2. \A i \in 1 .. Len(q) : i \in 1 .. Len(r) /\ r[i] = q[i]
    BY <1>1
  <1>3. \A i \in 1 .. Len(s) : Len(q) + i \in 1 .. Len(r) /\ r[Len(q) + i] = s[i]
    BY <1>1
  <1>4. \A i \in 1 .. Len(r) : (i \in 1 .. Len(q) /\ r[i] = q[i]) \/ (i - Len(q) \in 1 .. Len(s) /\ r[i] = s[i - Len(q)])
    BY <1>1
  <1>5. ASSUME NEW op, NoneOf(q, op), NoneOf(s, op) PROVE NoneOf(r, op)
    BY <1>4, <1>5 DEF NoneOf
  <1>6. ASSUME NEW op, NEW v, LastOf(s, op, v) PROVE LastOf(r, op, v)
    <2>1. PICK i \in 1 .. Len(s) : s[i].op = op /\ s[i].v = v /\ \A j \in 1 .. Len(s) : j > i => s[j].op # op
      BY <1>6 DEF LastOf
    <2>2. \A j \in 1 .. Len(r) : j > Len(q) + i => j - Len(q) \in 1 .. Len(s) /\ j - Len(q) > i /\ r[j] = s[j - Len(q)]
      BY <1>1
    <2>3. \A j \in 1 .. Len(r) : j > Len(q) + i => r[j].op # op
      BY <2>1, <2>2
    <2> QED BY <1>3, <2>1, <2>3 DEF LastOf
  <1>7. ASSUME NEW op, NEW v, LastOf(q, op, v), NoneOf(s, op) PROVE LastOf(r, op, v)
    <2>1. PICK i \in 1 .. Len(q) : q[i].op = op /\ q[i].v = v /\ \A j \in 1 .. Len(q) : j > i => q[j].op # op
      BY <1>7 DEF LastOf
    <2>2. \A j \in 1 .. Len(r) : j > i => r[j].op # op
      BY <1>4, <1>7, <2>1 DEF NoneOf
    <2> QED BY <1>2, <2>1, <2>2 DEF LastOf
  <1> QED BY <1>1, <1>2, <1>3, <1>4, <1>5, <1>6, <1>7

LEMMA OwedMore ==
  ASSUME NEW q \in Seq(Calls), NEW s \in Seq(Calls), NEW r, r = q \o s, NEW op, NEW v, NEW now,
         LastOf(s, op, v) \/ (NoneOf(s, op) /\ Owed(q, op, v, now))
  PROVE  Owed(r, op, v, now)
  BY Joined DEF Owed

(* A call that is served. *)
LEMMA OwedLess ==
  ASSUME NEW q \in Seq(Calls), q # <<>>, NEW r, r = Tail(q)
  PROVE  /\ r \in Seq(Calls) /\ Head(q) \in Calls /\ Len(r) = Len(q) - 1 /\ Len(q) \in Nat /\ Len(q) >= 1 /\ Head(q) = q[1]
         /\ \A i \in 1 .. Len(r) : i + 1 \in 1 .. Len(q) /\ r[i] = q[i + 1]
         /\ \A op, v, now : Owed(q, op, v, now) => Owed(r, op, v, IF Head(q).op = op THEN Head(q).v ELSE now)
  <1>1. Len(q) \in Nat /\ Len(q) # 0
    BY EmptySeq, LenProperties
  <1>2. /\ r \in Seq(Calls) /\ Len(r) = Len(q) - 1 /\ Head(q) \in Calls
        /\ \A i \in 1 .. Len(r) : r[i] = q[i + 1]
    BY HeadTailProperties
  <1>3. Head(q) = q[1]
    OBVIOUS
  <1>4. /\ \A i \in 1 .. Len(r) : i + 1 \in 1 .. Len(q)
        /\ \A i \in 1 .. Len(q) : i # 1 => i - 1 \in 1 .. Len(r) /\ r[i - 1] = q[i]
        /\ 1 \in 1 .. Len(q)
    BY <1>1, <1>2
  <1>5. ASSUME NEW op, NEW v, NEW now, Owed(q, op, v, now)
        PROVE  Owed(r, op, v, IF q[1].op = op THEN q[1].v ELSE now)
    <2>1. CASE LastOf(q, op, v)
      <3>1. PICK i \in 1 .. Len(q) : q[i].op = op /\ q[i].v = v /\ \A j \in 1 .. Len(q) : j > i => q[j].op # op
        BY <2>1 DEF LastOf
      <3>2. CASE i = 1
        <4>1. \A j \in 1 .. Len(r) : r[j].op # op
          <5>1. \A j \in 1 .. Len(r) : j + 1 > 1
            BY <1>1
          <5> QED BY <1>2, <1>4, <3>1, <3>2, <5>1
        <4> QED BY <3>1, <3>2, <4>1 DEF Owed, NoneOf
      <3>3. CASE i # 1
        <4>1. i - 1 \in 1 .. Len(r) /\ r[i - 1] = q[i]
          BY <1>4, <3>3
        <4>2. \A j \in 1 .. Len(r) : j > i - 1 => r[j].op # op
          BY <1>2, <1>4, <3>1
        <4>3. LastOf(r, op, v)
          BY <3>1, <4>1, <4>2 DEF LastOf
        <4> QED BY <4>3 DEF Owed
      <3> QED BY <3>2, <3>3
    <2>2. CASE NoneOf(q, op) /\ now = v
      <3>1. NoneOf(r, op) /\ q[1].op # op
        BY <1>2, <1>4, <2>2 DEF NoneOf
      <3> QED BY <2>2, <3>1 DEF Owed
    <2> QED BY <1>5, <2>1, <2>2 DEF Owed
  <1> QED BY <1>1, <1>2, <1>3, <1>4, <1>5

PrefRecs == [refresh : Refreshes \cup {10}, auto : BOOLEAN, window : 1 .. 15, kubeconfig : Paths, proxy : Proxies \cup {NoPath}]

(* A pair of calls, made or not. *)
LEMMA PairFacts ==
  ASSUME NEW a \in Calls, NEW b \in Calls, NEW c, NEW x, x = When(c, <<a, b>>)
  PROVE  /\ x \in Seq(Calls)
         /\ \A op : ~ c \/ (a.op # op /\ b.op # op) => NoneOf(x, op)
         /\ c /\ a.op # b.op => LastOf(x, a.op, a.v)
         /\ c => LastOf(x, b.op, b.v)
  <1>1. CASE c
    <2>1. x = <<a, b>>
      BY <1>1 DEF When
    <2>0. x \in Seq(Calls)
      <3> HIDE DEF Calls
      <3>1. <<a>> \in Seq(Calls)
        OBVIOUS
      <3>2. Append(<<a>>, b) \in Seq(Calls)
        BY <3>1, AppendProperties
      <3>3. x = Append(<<a>>, b)
        BY <2>1
      <3> QED BY <3>2, <3>3
    <2>2. x \in Seq(Calls) /\ Len(x) = 2 /\ x[1] = a /\ x[2] = b
      BY <2>0, <2>1
    <2>3. \A i \in 1 .. Len(x) : i = 1 \/ i = 2
      <3>1. Len(x) = 2
        BY <2>2
      <3>2. \A i \in 1 .. 2 : i = 1 \/ i = 2
        OBVIOUS
      <3> QED BY <3>1, <3>2
    <2>4. 1 \in 1 .. Len(x) /\ 2 \in 1 .. Len(x) /\ (\A j \in 1 .. Len(x) : j > 1 => j = 2) /\ \A j \in 1 .. Len(x) : ~ (j > 2)
      <3>1. Len(x) = 2
        BY <2>2
      <3>2. 1 \in 1 .. 2 /\ 2 \in 1 .. 2 /\ (\A j \in 1 .. 2 : j > 1 => j = 2) /\ \A j \in 1 .. 2 : ~ (j > 2)
        OBVIOUS
      <3> QED BY <3>1, <3>2
    <2>5. \A op : a.op # op /\ b.op # op => NoneOf(x, op)
      <3>1. \A i \in 1 .. Len(x) : x[i].op = a.op \/ x[i].op = b.op
        BY <2>2, <2>3
      <3> QED BY <3>1 DEF NoneOf
    <2>6. ASSUME a.op # b.op PROVE LastOf(x, a.op, a.v)
      <3>1. \A j \in 1 .. Len(x) : j > 1 => x[j].op # a.op
        BY <2>2, <2>4, <2>6
      <3>2. 1 \in 1 .. Len(x) /\ x[1].op = a.op /\ x[1].v = a.v
        BY <2>2, <2>4
      <3> QED BY <3>1, <3>2 DEF LastOf
    <2>7. LastOf(x, b.op, b.v)
      <3>1. 2 \in 1 .. Len(x) /\ x[2].op = b.op /\ x[2].v = b.v /\ \A j \in 1 .. Len(x) : j > 2 => x[j].op # b.op
        BY <2>2, <2>4
      <3> QED BY <3>1 DEF LastOf
    <2> QED BY <1>1, <2>2, <2>5, <2>6, <2>7
  <1>2. CASE ~ c
    <2>1. x = <<>>
      BY <1>2 DEF When
    <2>2. x \in Seq(Calls) /\ 1 .. Len(x) = {}
      <3>1. x \in Seq(Calls)
        BY <2>1, EmptySeq
      <3>2. Len(x) = 0
        BY <2>1
      <3> QED BY <3>1, <3>2
    <2> QED BY <1>2, <2>2 DEF NoneOf
  <1> QED BY <1>1, <1>2

(* What the effects tell the process after a commit. *)
LEMMA ReportedFacts ==
  ASSUME prefs \in PrefRecs, NEW p \in PrefRecs, NEW running, NEW calls \in Seq(Calls)
  PROVE  \E x \in Seq(Calls) :
           /\ Reported(p, running, calls) = calls \o x
           /\ NoneOf(x, "start") /\ NoneOf(x, "stop") /\ NoneOf(x, "kubeconfig")
           /\ IF p.proxy # prefs.proxy THEN LastOf(x, "proxy", p.proxy) ELSE NoneOf(x, "proxy")
           /\ IF running /\ (~invest.running \/ p.auto # prefs.auto \/ p.refresh # prefs.refresh)
              THEN LastOf(x, "auto", p.auto) /\ LastOf(x, "poll", p.refresh)
              ELSE NoneOf(x, "auto") /\ NoneOf(x, "poll")
  <1>1. PICK a : a = [op |-> "getproxy"]
    OBVIOUS
  <1>2. PICK b : b = [op |-> "proxy", v |-> p.proxy, page |-> FALSE]
    OBVIOUS
  <1>3. PICK c : c = [op |-> "auto", v |-> p.auto]
    OBVIOUS
  <1>4. PICK d : d = [op |-> "poll", v |-> p.refresh]
    OBVIOUS
  <1>5. a \in Calls /\ b \in Calls /\ c \in Calls /\ d \in Calls
    <2>1. p.proxy \in Proxies \cup {NoPath} /\ p.auto \in BOOLEAN /\ p.refresh \in Refreshes \cup {10}
      BY DEF PrefRecs
    <2>2. a \in Calls
      BY <1>1 DEF Calls
    <2>3. b \in Calls
      <3>1. b \in [op : {"proxy"}, v : Proxies \cup {NoPath}, page : BOOLEAN]
        BY <1>2, <2>1
      <3> QED BY <3>1 DEF Calls
    <2>4. c \in Calls
      <3>1. c \in [op : {"auto"}, v : BOOLEAN]
        BY <1>3, <2>1
      <3> QED BY <3>1 DEF Calls
    <2>5. d \in Calls
      <3>1. d \in [op : {"poll"}, v : Refreshes \cup {10}]
        BY <1>4, <2>1
      <3> QED BY <3>1 DEF Calls
    <2> QED BY <2>2, <2>3, <2>4, <2>5
  <1>6. a.op = "getproxy" /\ b.op = "proxy" /\ b.v = p.proxy /\ c.op = "auto" /\ c.v = p.auto /\ d.op = "poll" /\ d.v = p.refresh
    BY <1>1, <1>2, <1>3, <1>4
  <1>7. PICK A \in BOOLEAN, B \in BOOLEAN :
           /\ A = (p.proxy # prefs.proxy)
           /\ B = (running /\ (~invest.running \/ p.auto # prefs.auto \/ p.refresh # prefs.refresh))
    OBVIOUS
  <1>8. PICK y : y = When(A, <<a, b>>)
    OBVIOUS
  <1>9. PICK z : z = When(B, <<c, d>>)
    OBVIOUS
  <1>10. /\ y \in Seq(Calls)
         /\ \A op : ~ A \/ (a.op # op /\ b.op # op) => NoneOf(y, op)
         /\ A => LastOf(y, b.op, b.v)
    BY <1>5, <1>8, PairFacts
  <1>11. /\ z \in Seq(Calls)
         /\ \A op : ~ B \/ (c.op # op /\ d.op # op) => NoneOf(z, op)
         /\ B /\ c.op # d.op => LastOf(z, c.op, c.v)
         /\ B => LastOf(z, d.op, d.v)
    BY <1>5, <1>9, PairFacts
  <1>12. PICK x : x = y \o z
    OBVIOUS
  <1>13. /\ x \in Seq(Calls)
         /\ \A op : NoneOf(y, op) /\ NoneOf(z, op) => NoneOf(x, op)
         /\ \A op, v : LastOf(z, op, v) => LastOf(x, op, v)
         /\ \A op, v : LastOf(y, op, v) /\ NoneOf(z, op) => LastOf(x, op, v)
    <2>1. y \in Seq(Calls) /\ z \in Seq(Calls)
      BY <1>10, <1>11
    <2> QED BY ONLY <1>12, <2>1, Joined
  <1>14. Reported(p, running, calls) = calls \o x
    <2>1. Reported(p, running, calls) = (calls \o y) \o z
      BY <1>1, <1>2, <1>3, <1>4, <1>7, <1>8, <1>9 DEF Reported, PollCalls
    <2>2. (calls \o y) \o z = calls \o (y \o z)
      BY <1>10, <1>11, ConcatAssociative
    <2> QED BY <1>12, <2>1, <2>2
  <1>15. NoneOf(x, "start") /\ NoneOf(x, "stop") /\ NoneOf(x, "kubeconfig")
    <2>1. ASSUME NEW op \in {"start", "stop", "kubeconfig"} PROVE NoneOf(x, op)
      <3>1. a.op # op /\ b.op # op /\ c.op # op /\ d.op # op
        BY <1>6, <2>1
      <3>2. NoneOf(y, op) /\ NoneOf(z, op)
        BY <1>10, <1>11, <3>1
      <3> QED BY <1>13, <3>2
    <2> QED BY <2>1
  <1>16. IF p.proxy # prefs.proxy THEN LastOf(x, "proxy", p.proxy) ELSE NoneOf(x, "proxy")
    BY <1>6, <1>7, <1>10, <1>11, <1>13
  <1>17. IF B THEN LastOf(x, "auto", p.auto) /\ LastOf(x, "poll", p.refresh) ELSE NoneOf(x, "auto") /\ NoneOf(x, "poll")
    BY <1>6, <1>10, <1>11, <1>13
  <1> QED BY <1>7, <1>13, <1>14, <1>15, <1>16, <1>17

(* The kubeconfig: a path that was applied in this launch is the process's once its
   only call is served. *)
KubeRight ==
  /\ \A i \in 1 .. Len(bridge) : bridge[i].op = "kubeconfig" => form.kubeBusy /\ bridge[i].v = prefs.kubeconfig
  /\ \A i, j \in 1 .. Len(bridge) : bridge[i].op = "kubeconfig" /\ bridge[j].op = "kubeconfig" => i = j
  /\ form.applied /\ ~form.kubeBusy => process.kubeconfig = prefs.kubeconfig

(* Options that are still what the preferences say. *)
Current(o, p, told) ==
  /\ o.refresh = p.refresh /\ o.auto = p.auto
  /\ told => o.kubeconfig = p.kubeconfig

(* The session: the start that is on its way is the last of its kind, and what follows it
   tells it of every change. *)
SessionRight ==
  /\ \A i \in 1 .. Len(bridge) : bridge[i].op = "start" =>
       /\ invest.starting /\ invest.opts = NoOpts
       /\ \A j \in 1 .. Len(bridge) : j > i => bridge[j].op \notin {"start", "stop"}
       /\ ~invest.strayed =>
            Current(bridge[i].v, prefs, invest.told) /\ \A j \in 1 .. Len(bridge) : j > i => bridge[j].op \notin {"auto", "poll"}
  /\ invest.starting /\ invest.opts # NoOpts /\ ~invest.strayed => Current(invest.opts, prefs, invest.told)
  /\ invest.starting /\ invest.told /\ ~invest.strayed => process.kubeconfig = prefs.kubeconfig
  /\ invest.running /\ ~invest.starting => NoneOf(bridge, "stop") /\ process.session # NoOpts
  /\ invest.running /\ ~invest.starting /\ ~invest.strayed =>
       /\ Owed(bridge, "auto", prefs.auto, process.session.auto)
       /\ Owed(bridge, "poll", prefs.refresh, process.session.refresh)

SettingTypes ==
  /\ prefs \in PrefRecs /\ bridge \in Seq(Calls)
  /\ process \in [kubeconfig : Paths, proxy : Proxies \cup {NoPath}, session : Options \cup {NoOpts}]
  /\ DOMAIN invest = {"running", "starting", "opts", "strayed", "told"} /\ invest.opts \in Options \cup {NoOpts}
  /\ DOMAIN form = {"proxyDraft", "kubeDraft", "proxyBusy", "kubeBusy", "active", "applied", "edits"}
  /\ form.proxyDraft \in Proxies \cup {NoPath} /\ form.kubeDraft \in Paths

SettingInv ==
  /\ SettingTypes /\ KubeRight /\ SessionRight
  /\ Owed(bridge, "proxy", prefs.proxy, process.proxy)

KubeStep ==
  StartInvestigation /\ invest.told /\ ~invest.strayed => process'.session.kubeconfig = process.kubeconfig

LEMMA SettingInForce == SettingInv => ProxyInForce /\ PollFollows
  <1> SUFFICES ASSUME SettingInv, Served PROVE ProxyInForce /\ PollFollows
    BY DEF ProxyInForce, PollFollows
  <1>1. 1 .. Len(bridge) = {}
    BY DEF Served
  <1>2. \A op, v, now : Owed(bridge, op, v, now) => now = v
    BY <1>1 DEF Owed, LastOf
  <1> QED BY <1>2 DEF SettingInv, SessionRight, ProxyInForce, PollFollows

LEMMA SettingBegins == SettingInit => SettingInv
  <1> SUFFICES ASSUME SettingInit PROVE SettingInv
    OBVIOUS
  <1>1. PICK a : a = [op |-> "getproxy"]
    OBVIOUS
  <1>2. PICK b : b = [op |-> "proxy", v |-> NoPath, page |-> FALSE]
    OBVIOUS
  <1>3. prefs = [refresh |-> 10, auto |-> TRUE, window |-> 15, kubeconfig |-> NoPath, proxy |-> NoPath]
    BY DEF SettingInit
  <1>4. prefs \in PrefRecs
    BY <1>3 DEF PrefRecs, Paths
  <1>5. a \in Calls /\ b \in Calls /\ a.op = "getproxy" /\ b.op = "proxy" /\ b.v = NoPath
    BY <1>1, <1>2 DEF Calls
  <1>6. bridge = When(TRUE, <<a, b>>)
    BY <1>1, <1>2, <1>3 DEF SettingInit, LaunchCalls, When
  <1>7. /\ bridge \in Seq(Calls)
        /\ \A op : a.op # op /\ b.op # op => NoneOf(bridge, op)
        /\ LastOf(bridge, b.op, b.v)
    BY <1>5, <1>6, PairFacts
  <1>8. NoneOf(bridge, "start") /\ NoneOf(bridge, "kubeconfig")
    BY <1>5, <1>7
  <1>9. /\ process = [kubeconfig |-> NoPath, proxy |-> NoPath, session |-> NoOpts]
        /\ DOMAIN invest = {"running", "starting", "opts", "strayed", "told"} /\ invest.opts = NoOpts
        /\ invest.running = FALSE /\ invest.starting = FALSE
    BY DEF SettingInit, NotStarted
  <1>10. /\ DOMAIN form = {"proxyDraft", "kubeDraft", "proxyBusy", "kubeBusy", "active", "applied", "edits"}
         /\ form.proxyDraft = NoPath /\ form.kubeDraft = NoPath /\ form.kubeBusy = FALSE
    BY <1>3 DEF SettingInit, LaunchForm
  <1>11. SettingTypes
    BY <1>4, <1>7, <1>9, <1>10 DEF SettingTypes, Paths
  <1>12. KubeRight
    BY <1>3, <1>8, <1>9 DEF KubeRight, NoneOf
  <1>13. SessionRight
    BY <1>8, <1>9 DEF SessionRight, NoneOf
  <1>14. Owed(bridge, "proxy", prefs.proxy, process.proxy)
    BY <1>3, <1>5, <1>7 DEF Owed
  <1> QED BY <1>11, <1>12, <1>13, <1>14 DEF SettingInv

(* What is added to the bridge while the session's place in it stays as it is. *)
LEMMA StartStays ==
  ASSUME SettingInv, NEW y \in Seq(Calls), bridge' = bridge \o y, NoneOf(y, "start"), NoneOf(y, "stop"),
         invest'.starting = invest.starting, invest'.opts = invest.opts, invest'.told = invest.told,
         invest.starting /\ ~invest'.strayed => ~invest.strayed /\ prefs' = prefs /\ NoneOf(y, "auto") /\ NoneOf(y, "poll")
  PROVE  \A i \in 1 .. Len(bridge') : bridge'[i].op = "start" =>
           /\ invest'.starting /\ invest'.opts = NoOpts
           /\ \A j \in 1 .. Len(bridge') : j > i => bridge'[j].op \notin {"start", "stop"}
           /\ ~invest'.strayed =>
                Current(bridge'[i].v, prefs', invest'.told) /\ \A j \in 1 .. Len(bridge') : j > i => bridge'[j].op \notin {"auto", "poll"}
  <1>1. bridge \in Seq(Calls)
    BY DEF SettingInv, SettingTypes
  <1>2. PICK r : r = bridge'
    OBVIOUS
  <1>3. PICK q \in Seq(Calls) : q = bridge
    BY <1>1
  <1>4. /\ Len(r) = Len(q) + Len(y) /\ Len(q) \in Nat /\ Len(y) \in Nat
        /\ \A i \in 1 .. Len(r) : (i \in 1 .. Len(q) /\ r[i] = q[i]) \/ (i - Len(q) \in 1 .. Len(y) /\ r[i] = y[i - Len(q)])
    <2>1. r = q \o y
      BY <1>2, <1>3
    <2> QED BY ONLY <2>1, q \in Seq(Calls), y \in Seq(Calls), Joined
  <1>5. SUFFICES ASSUME NEW i \in 1 .. Len(r), r[i].op = "start"
                 PROVE  /\ invest'.starting /\ invest'.opts = NoOpts
                        /\ \A j \in 1 .. Len(r) : j > i => r[j].op \notin {"start", "stop"}
                        /\ ~invest'.strayed =>
                             Current(r[i].v, prefs', invest'.told) /\ \A j \in 1 .. Len(r) : j > i => r[j].op \notin {"auto", "poll"}
    BY <1>2
  <1>6. i \in 1 .. Len(q) /\ r[i] = q[i]
    BY <1>4, <1>5 DEF NoneOf
  <1>7. /\ invest.starting /\ invest.opts = NoOpts
        /\ \A j \in 1 .. Len(q) : j > i => q[j].op \notin {"start", "stop"}
        /\ ~invest.strayed =>
             Current(q[i].v, prefs, invest.told) /\ \A j \in 1 .. Len(q) : j > i => q[j].op \notin {"auto", "poll"}
    BY <1>3, <1>5, <1>6 DEF SettingInv, SessionRight
  <1>8. \A j \in 1 .. Len(r) : j > i => r[j].op \notin {"start", "stop"}
    BY <1>4, <1>7 DEF NoneOf
  <1>9. ASSUME ~invest'.strayed
        PROVE  Current(r[i].v, prefs', invest'.told) /\ \A j \in 1 .. Len(r) : j > i => r[j].op \notin {"auto", "poll"}
    <2>1. ~invest.strayed /\ prefs' = prefs /\ NoneOf(y, "auto") /\ NoneOf(y, "poll")
      BY <1>7, <1>9
    <2>2. Current(r[i].v, prefs', invest'.told)
      <3>1. Current(r[i].v, prefs, invest.told)
        BY <1>6, <1>7, <2>1
      <3> QED BY <2>1, <3>1 DEF Current
    <2>3. \A j \in 1 .. Len(r) : j > i => r[j].op \notin {"auto", "poll"}
      BY <1>4, <1>7, <2>1 DEF NoneOf
    <2> QED BY <2>2, <2>3
  <1> QED BY <1>7, <1>8, <1>9

(* A change of the preferences: what its handler calls, and what the effects tell. *)
LEMMA CommitSettings ==
  ASSUME SettingInv, NEW p \in PrefRecs, NEW f, NEW calls \in Seq(Calls), Commit(p, f, calls),
         DOMAIN f = {"proxyDraft", "kubeDraft", "proxyBusy", "kubeBusy", "active", "applied", "edits"},
         f.proxyDraft \in Proxies \cup {NoPath}, f.kubeDraft \in Paths,
         \A op \in {"start", "stop", "auto", "poll"} : NoneOf(calls, op),
         NoneOf(calls, "proxy") \/ LastOf(calls, "proxy", p.proxy),
         \/ /\ NoneOf(calls, "kubeconfig") /\ p.kubeconfig = prefs.kubeconfig
            /\ f.kubeBusy = form.kubeBusy /\ f.applied = form.applied
         \/ ~form.kubeBusy /\ f.kubeBusy /\ Len(calls) = 1 /\ calls[1].op = "kubeconfig" /\ calls[1].v = p.kubeconfig
  PROVE  SettingInv'
  <1>1. PICK x \in Seq(Calls) :
           /\ Reported(p, invest.running, calls) = calls \o x
           /\ NoneOf(x, "start") /\ NoneOf(x, "stop") /\ NoneOf(x, "kubeconfig")
           /\ IF p.proxy # prefs.proxy THEN LastOf(x, "proxy", p.proxy) ELSE NoneOf(x, "proxy")
           /\ IF invest.running /\ (~invest.running \/ p.auto # prefs.auto \/ p.refresh # prefs.refresh)
              THEN LastOf(x, "auto", p.auto) /\ LastOf(x, "poll", p.refresh)
              ELSE NoneOf(x, "auto") /\ NoneOf(x, "poll")
    <2>1. prefs \in PrefRecs
      BY DEF SettingInv, SettingTypes
    <2> QED BY <2>1, ReportedFacts
  <1>2. PICK y : y = calls \o x
    OBVIOUS
  <1>3. /\ y \in Seq(Calls)
        /\ \A op : NoneOf(calls, op) /\ NoneOf(x, op) => NoneOf(y, op)
        /\ \A op, v : LastOf(x, op, v) => LastOf(y, op, v)
        /\ \A op, v : LastOf(calls, op, v) /\ NoneOf(x, op) => LastOf(y, op, v)
        /\ \A i \in 1 .. Len(y) : (i \in 1 .. Len(calls) /\ y[i] = calls[i]) \/ (i - Len(calls) \in 1 .. Len(x) /\ y[i] = x[i - Len(calls)])
    <2>1. /\ y \in Seq(Calls)
          /\ \A op : NoneOf(calls, op) /\ NoneOf(x, op) => NoneOf(y, op)
          /\ \A op, v : LastOf(x, op, v) => LastOf(y, op, v)
          /\ \A op, v : LastOf(calls, op, v) /\ NoneOf(x, op) => LastOf(y, op, v)
      BY ONLY <1>2, x \in Seq(Calls), calls \in Seq(Calls), Joined
    <2>2. \A i \in 1 .. Len(y) : (i \in 1 .. Len(calls) /\ y[i] = calls[i]) \/ (i - Len(calls) \in 1 .. Len(x) /\ y[i] = x[i - Len(calls)])
      BY ONLY <1>2, x \in Seq(Calls), calls \in Seq(Calls), Joined
    <2> QED BY <2>1, <2>2
  <1>4. bridge' = bridge \o y /\ bridge \in Seq(Calls)
    BY <1>1, <1>2 DEF Commit, SettingInv, SettingTypes
  <1>5. prefs' = p /\ process' = process
    BY DEF Commit
  <1>6. PICK n : n = invest'.strayed
    OBVIOUS
  <1>7. /\ DOMAIN invest' = DOMAIN invest /\ invest'.starting = invest.starting /\ invest'.running = invest.running
        /\ invest'.opts = invest.opts /\ invest'.told = invest.told
        /\ invest'.strayed = (invest.strayed \/ (p # prefs /\ invest.starting))
    BY DEF Commit, SettingInv, SettingTypes
  <1>8. /\ DOMAIN form' = DOMAIN f /\ form'.kubeBusy = f.kubeBusy /\ form'.applied = f.applied
        /\ form'.proxyDraft \in {f.proxyDraft, p.proxy} /\ form'.kubeDraft \in {f.kubeDraft, p.kubeconfig}
    <2>1. PICK g : g = [f EXCEPT !.edits = f.edits + 1]
      OBVIOUS
    <2>2. DOMAIN g = DOMAIN f /\ g.kubeBusy = f.kubeBusy /\ g.applied = f.applied /\ g.proxyDraft = f.proxyDraft /\ g.kubeDraft = f.kubeDraft
      BY <2>1
    <2>3. form' = Drafts(p, g)
      BY <2>1 DEF Commit
    <2> QED BY <2>2, <2>3 DEF Drafts
  <1>9. /\ NoneOf(y, "start") /\ NoneOf(y, "stop")
        /\ IF invest.running /\ (p.auto # prefs.auto \/ p.refresh # prefs.refresh)
           THEN LastOf(y, "auto", p.auto) /\ LastOf(y, "poll", p.refresh)
           ELSE NoneOf(y, "auto") /\ NoneOf(y, "poll")
    <2>1. NoneOf(calls, "start") /\ NoneOf(calls, "stop") /\ NoneOf(calls, "auto") /\ NoneOf(calls, "poll")
      OBVIOUS
    <2> QED BY <1>1, <1>3, <2>1
  <1>10. SettingTypes'
    <2>1. bridge' \in Seq(Calls)
      BY ONLY <1>4, <1>3, Joined
    <2>2. p.proxy \in Proxies \cup {NoPath} /\ p.kubeconfig \in Paths
      BY DEF PrefRecs
    <2> QED BY <1>5, <1>7, <1>8, <2>1, <2>2 DEF SettingInv, SettingTypes
  <1>11. Owed(bridge', "proxy", prefs'.proxy, process'.proxy)
    <2>1. LastOf(y, "proxy", p.proxy) \/ (NoneOf(y, "proxy") /\ p.proxy = prefs.proxy)
      BY <1>1, <1>3
    <2>2. LastOf(y, "proxy", p.proxy) \/ (NoneOf(y, "proxy") /\ Owed(bridge, "proxy", p.proxy, process.proxy))
      BY <2>1 DEF SettingInv
    <2> QED BY <1>3, <1>4, <1>5, <2>2, OwedMore
  <1>12. KubeRight'
    <2>1. /\ Len(bridge') = Len(bridge) + Len(y) /\ Len(bridge) \in Nat /\ Len(y) \in Nat
          /\ \A i \in 1 .. Len(bridge') : \/ i \in 1 .. Len(bridge) /\ bridge'[i] = bridge[i]
                                          \/ i - Len(bridge) \in 1 .. Len(y) /\ bridge'[i] = y[i - Len(bridge)]
      BY ONLY <1>3, <1>4, Joined
    <2>2. CASE NoneOf(calls, "kubeconfig") /\ p.kubeconfig = prefs.kubeconfig /\ f.kubeBusy = form.kubeBusy /\ f.applied = form.applied
      <3>1. NoneOf(y, "kubeconfig")
        BY <1>1, <1>3, <2>2
      <3>2. \A i \in 1 .. Len(bridge') : bridge'[i].op = "kubeconfig" => i \in 1 .. Len(bridge) /\ bridge'[i] = bridge[i]
        BY <2>1, <3>1 DEF NoneOf
      <3> QED BY <1>5, <1>8, <2>2, <3>2 DEF SettingInv, KubeRight
    <2>3. CASE ~form.kubeBusy /\ f.kubeBusy /\ Len(calls) = 1 /\ calls[1].op = "kubeconfig" /\ calls[1].v = p.kubeconfig
      <3>1. \A i \in 1 .. Len(bridge) : bridge[i].op # "kubeconfig"
        BY <2>3 DEF SettingInv, KubeRight
      <3>2. \A i \in 1 .. Len(y) : y[i].op = "kubeconfig" => i = 1 /\ y[i].v = p.kubeconfig
        <4>1. \A i \in 1 .. Len(calls) : i = 1
          <5>1. \A i \in 1 .. 1 : i = 1
            OBVIOUS
          <5> QED BY <2>3, <5>1
        <4>2. \A i \in 1 .. Len(x) : x[i].op # "kubeconfig"
          BY <1>1 DEF NoneOf
        <4> QED BY <1>3, <2>3, <4>1, <4>2
      <3>3. \A i \in 1 .. Len(bridge') : bridge'[i].op = "kubeconfig" => i - Len(bridge) = 1 /\ bridge'[i].v = p.kubeconfig
        BY <2>1, <3>1, <3>2
      <3>4. \A i, j \in 1 .. Len(bridge') : bridge'[i].op = "kubeconfig" /\ bridge'[j].op = "kubeconfig" => i = j
        <4> SUFFICES ASSUME NEW i \in 1 .. Len(bridge'), NEW j \in 1 .. Len(bridge'), i - Len(bridge) = 1, j - Len(bridge) = 1
                     PROVE  i = j
          BY <3>3
        <4> QED BY <2>1
      <3>5. prefs' = p /\ form'.kubeBusy
        BY <1>5, <1>8, <2>3
      <3>6. \A i \in 1 .. Len(bridge') : bridge'[i].op = "kubeconfig" => form'.kubeBusy /\ bridge'[i].v = prefs'.kubeconfig
        BY <3>3, <3>5
      <3> QED BY <3>4, <3>5, <3>6 DEF KubeRight
    <2> QED BY <2>2, <2>3
  <1>13. SessionRight'
    <2>1. ASSUME invest.starting, ~invest'.strayed
          PROVE  ~invest.strayed /\ prefs' = prefs /\ NoneOf(y, "auto") /\ NoneOf(y, "poll")
      <3>1. ~invest.strayed /\ p = prefs
        BY <1>7, <2>1
      <3> QED BY <1>5, <1>9, <3>1
    <2>2. \A i \in 1 .. Len(bridge') : bridge'[i].op = "start" =>
           /\ invest'.starting /\ invest'.opts = NoOpts
           /\ \A j \in 1 .. Len(bridge') : j > i => bridge'[j].op \notin {"start", "stop"}
           /\ ~invest'.strayed =>
                Current(bridge'[i].v, prefs', invest'.told) /\ \A j \in 1 .. Len(bridge') : j > i => bridge'[j].op \notin {"auto", "poll"}
      BY <1>3, <1>4, <1>7, <1>9, <2>1, StartStays
    <2>3. invest'.starting /\ invest'.opts # NoOpts /\ ~invest'.strayed => Current(invest.opts, prefs', invest'.told)
      BY <1>7, <2>1 DEF SettingInv, SessionRight, Current
    <2>4. invest'.starting /\ invest'.told /\ ~invest'.strayed => process'.kubeconfig = prefs'.kubeconfig
      BY <1>5, <1>7, <2>1 DEF SettingInv, SessionRight
    <2>5. invest'.running /\ ~invest'.starting => NoneOf(bridge', "stop") /\ process'.session # NoOpts
      <3>1. NoneOf(bridge, "stop") => NoneOf(bridge', "stop")
        BY ONLY <1>3, <1>4, <1>9, Joined
      <3> QED BY <1>5, <1>7, <3>1 DEF SettingInv, SessionRight
    <2>6. ASSUME invest'.running, ~invest'.starting, ~invest'.strayed
          PROVE  /\ Owed(bridge', "auto", prefs'.auto, process'.session.auto)
                 /\ Owed(bridge', "poll", prefs'.refresh, process'.session.refresh)
      <3>1. invest.running /\ ~invest.starting /\ ~invest.strayed
        BY <1>7, <2>6
      <3>2. Owed(bridge, "auto", prefs.auto, process.session.auto) /\ Owed(bridge, "poll", prefs.refresh, process.session.refresh)
        BY <3>1 DEF SettingInv, SessionRight
      <3>3. ASSUME NEW op, NEW u, NEW v, NEW now, Owed(bridge, op, u, now), LastOf(y, op, v) \/ (NoneOf(y, op) /\ u = v)
            PROVE  Owed(bridge', op, v, now)
        <4>1. LastOf(y, op, v) \/ (NoneOf(y, op) /\ Owed(bridge, op, v, now))
          BY <3>3
        <4> QED BY ONLY <1>3, <1>4, <4>1, OwedMore
      <3>4. PICK c, d : c = process.session.auto /\ d = process.session.refresh
        OBVIOUS
      <3>5. Owed(bridge', "auto", p.auto, c)
        BY <1>9, <3>1, <3>2, <3>3, <3>4
      <3>6. Owed(bridge', "poll", p.refresh, d)
        BY <1>9, <3>1, <3>2, <3>3, <3>4
      <3> QED BY <1>5, <3>4, <3>5, <3>6
    <2>7. (invest'.opts # NoOpts => invest'.opts = invest.opts)
      BY <1>7
    <2> QED BY <1>7, <2>2, <2>3, <2>4, <2>5, <2>6 DEF SessionRight
  <1> QED BY <1>10, <1>11, <1>12, <1>13 DEF SettingInv

(* The rows of the page that change the preferences. *)
LEMMA RowsChange ==
  ASSUME SettingInv,
         \/ \E v \in Refreshes : ChangeRefresh(v)
         \/ ChangeAuto
         \/ \E m \in WindowChoices : ChangeWindow(m)
         \/ \E v \in Proxies \cup {NoPath} : ProxyOfOtherWindow(v)
  PROVE  SettingInv'
  <1>1. PICK e : e = <<>> /\ e \in Seq(Calls) /\ (\A op : NoneOf(e, op)) /\ Len(e) = 0
    <2>1. 1 .. Len(<<>>) = {} /\ Len(<<>>) = 0
      OBVIOUS
    <2>2. <<>> \in Seq(Calls)
      BY EmptySeq
    <2> QED BY <2>1, <2>2 DEF NoneOf
  <1>2. PICK p \in PrefRecs : p.kubeconfig = prefs.kubeconfig /\ Commit(p, form, e)
    <2>0. prefs \in PrefRecs
      BY DEF SettingInv, SettingTypes
    <2>1. CASE \E v \in Refreshes : ChangeRefresh(v)
      <3>1. PICK v \in Refreshes : Commit([prefs EXCEPT !.refresh = v], form, e)
        BY <1>1, <2>1 DEF ChangeRefresh
      <3>2. [prefs EXCEPT !.refresh = v] \in PrefRecs /\ [prefs EXCEPT !.refresh = v].kubeconfig = prefs.kubeconfig
        BY <2>0 DEF PrefRecs
      <3> QED BY <3>1, <3>2
    <2>2. CASE ChangeAuto
      <3>1. Commit([prefs EXCEPT !.auto = ~ prefs.auto], form, e)
        BY <1>1, <2>2 DEF ChangeAuto
      <3>2. [prefs EXCEPT !.auto = ~ prefs.auto] \in PrefRecs /\ [prefs EXCEPT !.auto = ~ prefs.auto].kubeconfig = prefs.kubeconfig
        BY <2>0 DEF PrefRecs
      <3> QED BY <3>1, <3>2
    <2>3. CASE \E m \in WindowChoices : ChangeWindow(m)
      <3>1. PICK m \in WindowChoices : Commit([prefs EXCEPT !.window = Clamped(m)], form, e)
        BY <1>1, <2>3 DEF ChangeWindow
      <3>2. Clamped(m) \in 1 .. 15
        BY SettingAssumption DEF Clamped
      <3>3. [prefs EXCEPT !.window = Clamped(m)] \in PrefRecs /\ [prefs EXCEPT !.window = Clamped(m)].kubeconfig = prefs.kubeconfig
        BY <2>0, <3>2 DEF PrefRecs
      <3> QED BY <3>1, <3>3
    <2>4. CASE \E v \in Proxies \cup {NoPath} : ProxyOfOtherWindow(v)
      <3>1. PICK v \in Proxies \cup {NoPath} : Commit([prefs EXCEPT !.proxy = v], form, e)
        BY <1>1, <2>4 DEF ProxyOfOtherWindow
      <3>2. [prefs EXCEPT !.proxy = v] \in PrefRecs /\ [prefs EXCEPT !.proxy = v].kubeconfig = prefs.kubeconfig
        BY <2>0 DEF PrefRecs
      <3> QED BY <3>1, <3>2
    <2> QED BY <2>1, <2>2, <2>3, <2>4
  <1>3. /\ DOMAIN form = {"proxyDraft", "kubeDraft", "proxyBusy", "kubeBusy", "active", "applied", "edits"}
        /\ form.proxyDraft \in Proxies \cup {NoPath} /\ form.kubeDraft \in Paths
    BY DEF SettingInv, SettingTypes
  <1> QED BY <1>1, <1>2, <1>3, CommitSettings

(* One call, made by a handler of the page. *)
LEMMA OneCall ==
  ASSUME NEW c \in Calls, NEW q, q = <<c>>
  PROVE  /\ q \in Seq(Calls) /\ Len(q) = 1 /\ q[1] = c
         /\ \A op : c.op # op => NoneOf(q, op)
         /\ LastOf(q, c.op, c.v)
  <1>1. q \in Seq(Calls) /\ Len(q) = 1 /\ q[1] = c
    <2> HIDE DEF Calls
    <2> QED OBVIOUS
  <1>2. \A i \in 1 .. Len(q) : i = 1
    <2>1. \A i \in 1 .. 1 : i = 1
      OBVIOUS
    <2> QED BY <1>1, <2>1
  <1>3. 1 \in 1 .. Len(q) /\ ~ (1 > 1)
    BY <1>1
  <1> QED BY <1>1, <1>2, <1>3 DEF NoneOf, LastOf

LEMMA PageApplies ==
  ASSUME SettingInv, applyProxy \/ applyKubeconfig
  PROVE  SettingInv'
  <1>1. /\ prefs \in PrefRecs
        /\ DOMAIN form = {"proxyDraft", "kubeDraft", "proxyBusy", "kubeBusy", "active", "applied", "edits"}
        /\ form.proxyDraft \in Proxies \cup {NoPath} /\ form.kubeDraft \in Paths
    BY DEF SettingInv, SettingTypes
  <1>2. CASE applyProxy
    <2>1. PICK p : p = [prefs EXCEPT !.proxy = form.proxyDraft]
      OBVIOUS
    <2>2. PICK f : f = [form EXCEPT !.proxyBusy = TRUE]
      OBVIOUS
    <2>3. PICK c : c = [op |-> "proxy", v |-> form.proxyDraft, page |-> TRUE]
      OBVIOUS
    <2>4. PICK q : q = <<c>>
      OBVIOUS
    <2>5. Commit(p, f, q)
      BY <1>2, <2>1, <2>2, <2>3, <2>4 DEF applyProxy
    <2>6. c \in Calls /\ c.op = "proxy" /\ c.v = form.proxyDraft
      BY <1>1, <2>3 DEF Calls
    <2>7. q \in Seq(Calls) /\ (\A op : c.op # op => NoneOf(q, op)) /\ LastOf(q, c.op, c.v)
      BY <2>4, <2>6, OneCall
    <2>8. p \in PrefRecs /\ p.kubeconfig = prefs.kubeconfig /\ p.proxy = form.proxyDraft
      BY <1>1, <2>1 DEF PrefRecs
    <2>9. /\ DOMAIN f = DOMAIN form /\ f.proxyDraft = form.proxyDraft /\ f.kubeDraft = form.kubeDraft
          /\ f.kubeBusy = form.kubeBusy /\ f.applied = form.applied
      BY <1>1, <2>2
    <2>10. (\A op \in {"start", "stop", "auto", "poll"} : NoneOf(q, op)) /\ NoneOf(q, "kubeconfig") /\ LastOf(q, "proxy", p.proxy)
      BY <2>6, <2>7, <2>8
    <2> QED BY <1>1, <2>5, <2>7, <2>8, <2>9, <2>10, CommitSettings
  <1>3. CASE applyKubeconfig
    <2>1. PICK p : p = [prefs EXCEPT !.kubeconfig = form.kubeDraft]
      OBVIOUS
    <2>2. PICK f : f = [form EXCEPT !.kubeBusy = TRUE, !.applied = TRUE]
      OBVIOUS
    <2>3. PICK c : c = [op |-> "kubeconfig", v |-> form.kubeDraft]
      OBVIOUS
    <2>4. PICK q : q = <<c>>
      OBVIOUS
    <2>5. Commit(p, f, q) /\ ~form.kubeBusy
      BY <1>3, <2>1, <2>2, <2>3, <2>4 DEF applyKubeconfig
    <2>6. c \in Calls /\ c.op = "kubeconfig" /\ c.v = form.kubeDraft
      BY <1>1, <2>3 DEF Calls
    <2>7. q \in Seq(Calls) /\ (\A op : c.op # op => NoneOf(q, op)) /\ Len(q) = 1 /\ q[1] = c
      BY <2>4, <2>6, OneCall
    <2>8. p \in PrefRecs /\ p.kubeconfig = form.kubeDraft
      BY <1>1, <2>1 DEF PrefRecs
    <2>9. DOMAIN f = DOMAIN form /\ f.proxyDraft = form.proxyDraft /\ f.kubeDraft = form.kubeDraft /\ f.kubeBusy
      BY <1>1, <2>2
    <2>10. (\A op \in {"start", "stop", "auto", "poll"} : NoneOf(q, op)) /\ NoneOf(q, "proxy")
      BY <2>6, <2>7
    <2> QED BY <1>1, <2>5, <2>6, <2>7, <2>8, <2>9, <2>10, CommitSettings
  <1> QED BY <1>2, <1>3

LEMMA DraftsEdited ==
  ASSUME SettingInv, NEW v,
         (v \in Proxies \cup {NoPath} /\ EditProxy(v)) \/ (v \in Paths /\ EditKubeconfig(v))
  PROVE  SettingInv'
  <1>1. UNCHANGED <<prefs, invest, bridge, process>>
    BY DEF EditProxy, EditKubeconfig
  <1>2. /\ DOMAIN form' = {"proxyDraft", "kubeDraft", "proxyBusy", "kubeBusy", "active", "applied", "edits"}
        /\ form'.proxyDraft \in Proxies \cup {NoPath} /\ form'.kubeDraft \in Paths
        /\ form'.kubeBusy = form.kubeBusy /\ form'.applied = form.applied
    BY DEF EditProxy, EditKubeconfig, SettingInv, SettingTypes
  <1>3. SettingTypes' /\ KubeRight' /\ Owed(bridge, "proxy", prefs.proxy, process.proxy)'
    BY <1>1, <1>2 DEF SettingInv, SettingTypes, KubeRight
  <1>4. SessionRight'
    BY <1>1 DEF SettingInv, SessionRight
  <1> QED BY <1>3, <1>4 DEF SettingInv

(* A session begins with the path that the process works with. *)
LEMMA StartKube == SettingInv => KubeStep
  <1> SUFFICES ASSUME SettingInv, StartInvestigation, invest.told, ~invest.strayed
               PROVE  process'.session.kubeconfig = process.kubeconfig
    BY DEF KubeStep
  <1>1. PICK q \in Seq(Calls) : q = bridge
    BY DEF SettingInv, SettingTypes
  <1>2. q # <<>> /\ Head(q).op = "start"
    BY <1>1 DEF StartInvestigation, Serves
  <1>3. Len(q) \in Nat /\ Len(q) >= 1 /\ Head(q) = q[1]
    BY <1>2, OwedLess
  <1>4. 1 \in 1 .. Len(q)
    BY <1>3
  <1>5. invest.starting /\ Current(q[1].v, prefs, invest.told)
    BY <1>1, <1>2, <1>3, <1>4 DEF SettingInv, SessionRight
  <1>6. q[1].v.kubeconfig = prefs.kubeconfig /\ process.kubeconfig = prefs.kubeconfig
    BY <1>5 DEF Current, SettingInv, SessionRight
  <1>7. process'.session = q[1].v
    BY <1>1, <1>3 DEF StartInvestigation, SettingInv, SettingTypes
  <1> QED BY <1>6, <1>7

LEMMA InvestigateClicked ==
  ASSUME SettingInv, ClickInvestigate
  PROVE  SettingInv'
  <1>1. UNCHANGED <<prefs, bridge, process, form>> /\ ~invest.starting
    BY DEF ClickInvestigate
  <1>2. PICK o : o = startOptions(prefs, process.kubeconfig)
    OBVIOUS
  <1>3. /\ DOMAIN invest' = {"running", "starting", "opts", "strayed", "told"} /\ invest'.starting /\ invest'.opts = o
        /\ invest'.strayed = FALSE /\ invest'.told = (form.applied /\ ~form.kubeBusy)
    BY <1>2 DEF ClickInvestigate, SettingInv, SettingTypes
  <1>4. o \in Options /\ o # NoOpts
    <2>1. prefs \in PrefRecs /\ process.kubeconfig \in Paths
      BY DEF SettingInv, SettingTypes
    <2>2. o \in Options
      BY <1>2, <2>1 DEF startOptions, Options, PrefRecs, Paths
    <2> QED BY <2>2, SettingAssumption
  <1>5. form.applied /\ ~form.kubeBusy => process.kubeconfig = prefs.kubeconfig
    BY DEF SettingInv, KubeRight
  <1>6. Current(o, prefs, form.applied /\ ~form.kubeBusy)
    BY <1>2, <1>5 DEF Current, startOptions
  <1>7. NoneOf(bridge, "start")
    BY <1>1 DEF SettingInv, SessionRight, NoneOf
  <1>8. SettingTypes' /\ KubeRight' /\ Owed(bridge, "proxy", prefs.proxy, process.proxy)'
    BY <1>1, <1>3, <1>4 DEF SettingInv, SettingTypes, KubeRight
  <1>9. SessionRight'
    BY <1>1, <1>3, <1>4, <1>5, <1>6, <1>7 DEF SessionRight, NoneOf
  <1> QED BY <1>8, <1>9 DEF SettingInv

(* A call is added after those that were made: what the bridge keeps. *)
LEMMA BridgeGrows ==
  ASSUME SettingInv, NEW y \in Seq(Calls), bridge' = bridge \o y, NoneOf(y, "kubeconfig"), NoneOf(y, "proxy"),
         UNCHANGED <<prefs, process, form>>
  PROVE  bridge' \in Seq(Calls) /\ KubeRight' /\ Owed(bridge, "proxy", prefs.proxy, process.proxy)'
  <1>0. bridge \in Seq(Calls)
    BY DEF SettingInv, SettingTypes
  <1>1. /\ bridge' \in Seq(Calls)
        /\ \A i \in 1 .. Len(bridge') : \/ i \in 1 .. Len(bridge) /\ bridge'[i] = bridge[i]
                                        \/ i - Len(bridge) \in 1 .. Len(y) /\ bridge'[i] = y[i - Len(bridge)]
    BY ONLY <1>0, y \in Seq(Calls), bridge' = bridge \o y, Joined
  <1>2. \A i \in 1 .. Len(bridge') : bridge'[i].op = "kubeconfig" => i \in 1 .. Len(bridge) /\ bridge'[i] = bridge[i]
    BY <1>1 DEF NoneOf
  <1>3. KubeRight'
    <2>1. KubeRight
      BY DEF SettingInv
    <2>2. PICK q : q = bridge'
      OBVIOUS
    <2>3. \A i \in 1 .. Len(q) : q[i].op = "kubeconfig" => i \in 1 .. Len(bridge) /\ q[i] = bridge[i]
      BY <1>2, <2>2
    <2>4. \A i \in 1 .. Len(q) : q[i].op = "kubeconfig" => form.kubeBusy /\ q[i].v = prefs.kubeconfig
      BY <2>1, <2>3 DEF KubeRight
    <2>5. \A i, j \in 1 .. Len(q) : q[i].op = "kubeconfig" /\ q[j].op = "kubeconfig" => i = j
      BY <2>1, <2>3 DEF KubeRight
    <2> QED BY <2>1, <2>2, <2>4, <2>5 DEF KubeRight
  <1>4. Owed(bridge, "proxy", prefs.proxy, process.proxy)
    BY DEF SettingInv
  <1>5. Owed(bridge', "proxy", prefs.proxy, process.proxy)
    BY <1>0, <1>4, OwedMore
  <1> QED BY <1>1, <1>3, <1>5

LEMMA InvestigationRuns ==
  ASSUME SettingInv, runInvestigation
  PROVE  SettingInv'
  <1>0. bridge \in Seq(Calls) /\ prefs \in PrefRecs
    BY DEF SettingInv, SettingTypes
  <1>1. PICK e : e = <<>> /\ e \in Seq(Calls)
    BY EmptySeq
  <1>2. PICK x \in Seq(Calls) :
           /\ Reported(prefs, TRUE, e) = e \o x
           /\ NoneOf(x, "start") /\ NoneOf(x, "stop") /\ NoneOf(x, "kubeconfig") /\ NoneOf(x, "proxy")
    BY <1>0, <1>1, ReportedFacts
  <1>3. PICK c : c = [op |-> "start", v |-> invest.opts]
    OBVIOUS
  <1>4. c \in Calls /\ c.op = "start" /\ c.v = invest.opts
    BY <1>3 DEF Calls, runInvestigation, SettingInv, SettingTypes
  <1>5. PICK z : z = <<c>>
    OBVIOUS
  <1>6. z \in Seq(Calls) /\ (\A op : c.op # op => NoneOf(z, op)) /\ Len(z) = 1 /\ z[1] = c
    BY <1>4, <1>5, OneCall
  <1>7. PICK y : y = x \o z
    OBVIOUS
  <1>8. /\ y \in Seq(Calls)
        /\ \A op : NoneOf(x, op) /\ NoneOf(z, op) => NoneOf(y, op)
        /\ Len(y) = Len(x) + Len(z) /\ Len(x) \in Nat
        /\ \A i \in 1 .. Len(y) : (i \in 1 .. Len(x) /\ y[i] = x[i]) \/ (i - Len(x) \in 1 .. Len(z) /\ y[i] = z[i - Len(x)])
    <2>1. z \in Seq(Calls)
      BY <1>6
    <2>2. /\ y \in Seq(Calls)
          /\ \A op : NoneOf(x, op) /\ NoneOf(z, op) => NoneOf(y, op)
          /\ Len(y) = Len(x) + Len(z) /\ Len(x) \in Nat
      BY ONLY <1>7, <2>1, x \in Seq(Calls), Joined
    <2>3. \A i \in 1 .. Len(y) : (i \in 1 .. Len(x) /\ y[i] = x[i]) \/ (i - Len(x) \in 1 .. Len(z) /\ y[i] = z[i - Len(x)])
      BY ONLY <1>7, <2>1, x \in Seq(Calls), Joined
    <2> QED BY <2>2, <2>3
  <1>9. bridge' = bridge \o y
    <2>1. e \o x = x
      BY <1>1, ConcatEmptySeq
    <2>2. bridge' = (bridge \o x) \o z
      BY <1>1, <1>2, <1>3, <1>5, <2>1 DEF runInvestigation
    <2>3. (bridge \o x) \o z = bridge \o (x \o z)
      BY <1>0, <1>6, ConcatAssociative
    <2> QED BY <1>7, <2>2, <2>3
  <1>10. /\ UNCHANGED <<prefs, process, form>> /\ invest.starting /\ invest.opts # NoOpts
         /\ DOMAIN invest' = {"running", "starting", "opts", "strayed", "told"} /\ invest'.starting = invest.starting
         /\ invest'.opts = NoOpts /\ invest'.strayed = invest.strayed /\ invest'.told = invest.told
    BY DEF runInvestigation, SettingInv, SettingTypes
  <1>11. NoneOf(y, "kubeconfig") /\ NoneOf(y, "proxy")
    BY <1>2, <1>4, <1>6, <1>8
  <1>12. bridge' \in Seq(Calls) /\ KubeRight' /\ Owed(bridge, "proxy", prefs.proxy, process.proxy)'
    BY <1>8, <1>9, <1>10, <1>11, BridgeGrows
  <1>13. SettingTypes'
    BY <1>10, <1>12 DEF SettingInv, SettingTypes
  <1>14. /\ Len(bridge') = Len(bridge) + Len(y) /\ Len(bridge) \in Nat
         /\ \A i \in 1 .. Len(bridge') : \/ i \in 1 .. Len(bridge) /\ bridge'[i] = bridge[i]
                                         \/ i - Len(bridge) \in 1 .. Len(y) /\ bridge'[i] = y[i - Len(bridge)]
    <2>1. y \in Seq(Calls)
      BY <1>8
    <2> QED BY ONLY <1>0, <1>9, <2>1, Joined
  <1>15. NoneOf(bridge, "start")
    BY <1>10 DEF SettingInv, SessionRight, NoneOf
  <1>16. \A i \in 1 .. Len(z) : i = 1
    <2>1. \A i \in 1 .. 1 : i = 1
      OBVIOUS
    <2> QED BY <1>6, <2>1
  <1>17. \A i \in 1 .. Len(y) : y[i].op = "start" => i = Len(y) /\ y[i] = c
    <2> SUFFICES ASSUME NEW i \in 1 .. Len(y), y[i].op = "start" PROVE i = Len(y) /\ y[i] = c
      OBVIOUS
    <2>1. ~ (i \in 1 .. Len(x) /\ y[i] = x[i])
      BY <1>2 DEF NoneOf
    <2>2. i - Len(x) \in 1 .. Len(z) /\ y[i] = z[i - Len(x)]
      BY <1>8, <2>1
    <2>3. i - Len(x) = 1 /\ y[i] = c
      BY <1>6, <1>16, <2>2
    <2> QED BY <1>6, <1>8, <2>3
  <1>18. \A i \in 1 .. Len(bridge') : bridge'[i].op = "start" => i = Len(bridge') /\ bridge'[i] = c
    <2>1. Len(y) \in Nat
      BY <1>6, <1>8
    <2> QED BY <1>14, <1>15, <1>17, <2>1 DEF NoneOf
  <1>19. \A i \in 1 .. Len(bridge') : bridge'[i].op = "start" => \A j \in 1 .. Len(bridge') : ~ (j > i)
    <2>1. Len(bridge') \in Nat
      BY <1>6, <1>8, <1>14
    <2> QED BY <1>18, <2>1
  <1>20. ~invest.strayed => Current(invest.opts, prefs, invest.told)
    BY <1>10 DEF SettingInv, SessionRight
  <1>21. invest.told /\ ~invest.strayed => process.kubeconfig = prefs.kubeconfig
    BY <1>10 DEF SettingInv, SessionRight
  <1>22. SessionRight'
    BY <1>4, <1>10, <1>18, <1>19, <1>20, <1>21 DEF SessionRight
  <1> QED BY <1>12, <1>13, <1>22 DEF SettingInv

LEMMA InvestigationStops ==
  ASSUME SettingInv, onStop
  PROVE  SettingInv'
  <1>0. bridge \in Seq(Calls)
    BY DEF SettingInv, SettingTypes
  <1>1. PICK c : c = [op |-> "stop"]
    OBVIOUS
  <1>2. c \in Calls /\ c.op = "stop"
    BY <1>1 DEF Calls
  <1>3. PICK y : y = <<c>>
    OBVIOUS
  <1>4. y \in Seq(Calls) /\ (\A op : c.op # op => NoneOf(y, op))
    BY <1>2, <1>3, OneCall
  <1>5. bridge' = bridge \o y
    <2>1. bridge' = Append(bridge, c)
      BY <1>1 DEF onStop
    <2> QED BY <1>0, <1>2, <1>3, <2>1, AppendIsConcat
  <1>6. /\ UNCHANGED <<prefs, process, form>> /\ ~invest.starting
        /\ DOMAIN invest' = {"running", "starting", "opts", "strayed", "told"} /\ invest'.starting = invest.starting
        /\ invest'.opts = invest.opts /\ invest'.running = FALSE
    BY DEF onStop, SettingInv, SettingTypes
  <1>7. bridge' \in Seq(Calls) /\ KubeRight' /\ Owed(bridge, "proxy", prefs.proxy, process.proxy)'
    BY <1>2, <1>4, <1>5, <1>6, BridgeGrows
  <1>8. SettingTypes'
    BY <1>6, <1>7 DEF SettingInv, SettingTypes
  <1>9. NoneOf(bridge, "start") /\ NoneOf(y, "start")
    BY <1>2, <1>4, <1>6 DEF SettingInv, SessionRight, NoneOf
  <1>10. NoneOf(bridge', "start")
    BY ONLY <1>0, <1>4, <1>5, <1>9, Joined
  <1>11. SessionRight'
    BY <1>6, <1>10 DEF SessionRight, NoneOf
  <1> QED BY <1>7, <1>8, <1>11 DEF SettingInv

(* A call is served: what is left on the bridge. *)
LEMMA BridgeServes ==
  ASSUME SettingInv, bridge # <<>>, bridge' = Tail(bridge), prefs' = prefs
  PROVE  /\ bridge' \in Seq(Calls) /\ Head(bridge) \in Calls
         /\ \A op, v, now : Owed(bridge, op, v, now) => Owed(bridge', op, v, IF Head(bridge).op = op THEN Head(bridge).v ELSE now)
         /\ \A op : NoneOf(bridge, op) => NoneOf(bridge', op) /\ Head(bridge).op # op
         /\ \A i \in 1 .. Len(bridge') : bridge'[i].op = "kubeconfig" =>
              form.kubeBusy /\ bridge'[i].v = prefs.kubeconfig /\ Head(bridge).op # "kubeconfig"
         /\ \A i, j \in 1 .. Len(bridge') : bridge'[i].op = "kubeconfig" /\ bridge'[j].op = "kubeconfig" => i = j
         /\ Head(bridge).op = "kubeconfig" => form.kubeBusy /\ Head(bridge).v = prefs.kubeconfig
         /\ Head(bridge).op = "start" =>
              /\ invest.starting /\ NoneOf(bridge', "start") /\ NoneOf(bridge', "stop")
              /\ ~invest.strayed =>
                   Current(Head(bridge).v, prefs, invest.told) /\ NoneOf(bridge', "auto") /\ NoneOf(bridge', "poll")
         /\ \A i \in 1 .. Len(bridge') : bridge'[i].op = "start" =>
              /\ invest.starting /\ invest.opts = NoOpts
              /\ \A j \in 1 .. Len(bridge') : j > i => bridge'[j].op \notin {"start", "stop"}
              /\ ~invest.strayed =>
                   /\ Current(bridge'[i].v, prefs, invest.told)
                   /\ \A j \in 1 .. Len(bridge') : j > i => bridge'[j].op \notin {"auto", "poll"}
  <1>1. PICK q \in Seq(Calls) : q = bridge /\ q # <<>>
    BY DEF SettingInv, SettingTypes
  <1>2. PICK r : r = Tail(q) /\ r = bridge'
    BY <1>1
  <1>3. /\ r \in Seq(Calls) /\ Head(q) \in Calls /\ Len(r) = Len(q) - 1 /\ Len(q) \in Nat /\ Len(q) >= 1 /\ Head(q) = q[1]
        /\ \A i \in 1 .. Len(r) : i + 1 \in 1 .. Len(q) /\ r[i] = q[i + 1]
        /\ \A op, v, now : Owed(q, op, v, now) => Owed(r, op, v, IF Head(q).op = op THEN Head(q).v ELSE now)
    BY <1>1, <1>2, OwedLess
  <1>4. 1 \in 1 .. Len(q) /\ \A i \in 1 .. Len(r) : i + 1 # 1 /\ i + 1 > 1
    BY <1>3
  <1>5. /\ \A i \in 1 .. Len(q) : q[i].op = "kubeconfig" => form.kubeBusy /\ q[i].v = prefs.kubeconfig
        /\ \A i, j \in 1 .. Len(q) : q[i].op = "kubeconfig" /\ q[j].op = "kubeconfig" => i = j
    BY <1>1 DEF SettingInv, KubeRight
  <1>6. \A i \in 1 .. Len(q) : q[i].op = "start" =>
              /\ invest.starting /\ invest.opts = NoOpts
              /\ \A j \in 1 .. Len(q) : j > i => q[j].op \notin {"start", "stop"}
              /\ ~invest.strayed =>
                   Current(q[i].v, prefs, invest.told) /\ \A j \in 1 .. Len(q) : j > i => q[j].op \notin {"auto", "poll"}
    BY <1>1 DEF SettingInv, SessionRight
  <1>7. \A op : NoneOf(q, op) => NoneOf(r, op) /\ q[1].op # op
    BY <1>3, <1>4 DEF NoneOf
  <1>8. ASSUME NEW i \in 1 .. Len(r), r[i].op = "kubeconfig"
        PROVE  form.kubeBusy /\ r[i].v = prefs.kubeconfig /\ q[1].op # "kubeconfig"
    <2>1. i + 1 \in 1 .. Len(q) /\ r[i] = q[i + 1] /\ i + 1 # 1 /\ 1 \in 1 .. Len(q)
      BY <1>3, <1>4
    <2>2. q[i + 1].op = "kubeconfig"
      BY <1>8, <2>1
    <2>3. form.kubeBusy /\ r[i].v = prefs.kubeconfig
      BY <1>5, <2>1, <2>2
    <2>4. q[1].op # "kubeconfig"
      BY <1>5, <2>1, <2>2
    <2> QED BY <2>3, <2>4
  <1>9. \A i, j \in 1 .. Len(r) : r[i].op = "kubeconfig" /\ r[j].op = "kubeconfig" => i = j
    <2> SUFFICES ASSUME NEW i \in 1 .. Len(r), NEW j \in 1 .. Len(r), r[i].op = "kubeconfig", r[j].op = "kubeconfig"
                 PROVE  i = j
      OBVIOUS
    <2>1. i + 1 = j + 1
      BY <1>3, <1>5
    <2> QED BY <1>3, <2>1
  <1>10. ASSUME q[1].op = "start"
         PROVE  /\ invest.starting /\ NoneOf(r, "start") /\ NoneOf(r, "stop")
                /\ ~invest.strayed => Current(q[1].v, prefs, invest.told) /\ NoneOf(r, "auto") /\ NoneOf(r, "poll")
    BY <1>3, <1>4, <1>6, <1>10 DEF NoneOf
  <1>11. ASSUME NEW i \in 1 .. Len(r), r[i].op = "start"
         PROVE  /\ invest.starting /\ invest.opts = NoOpts
                /\ \A j \in 1 .. Len(r) : j > i => r[j].op \notin {"start", "stop"}
                /\ ~invest.strayed =>
                     Current(r[i].v, prefs, invest.told) /\ \A j \in 1 .. Len(r) : j > i => r[j].op \notin {"auto", "poll"}
    <2>1. i + 1 \in 1 .. Len(q) /\ q[i + 1].op = "start" /\ r[i] = q[i + 1]
      BY <1>3, <1>11
    <2>2. \A j \in 1 .. Len(r) : j > i => j + 1 \in 1 .. Len(q) /\ j + 1 > i + 1 /\ r[j] = q[j + 1]
      BY <1>3
    <2> QED BY <1>6, <2>1, <2>2
  <1> QED BY <1>1, <1>2, <1>3, <1>4, <1>5, <1>7, <1>8, <1>9, <1>10, <1>11

LEMMA ProxyServed ==
  ASSUME SettingInv, SetNetworkProxy \/ GetNetworkProxy
  PROVE  SettingInv'
  <1>1. bridge # <<>> /\ bridge' = Tail(bridge) /\ UNCHANGED <<prefs, invest>>
    BY DEF SetNetworkProxy, GetNetworkProxy, Serves
  <1>2. PICK c : c = Head(bridge)
    OBVIOUS
  <1>3. /\ bridge' \in Seq(Calls) /\ c \in Calls
        /\ \A op, v, now : Owed(bridge, op, v, now) => Owed(bridge', op, v, IF c.op = op THEN c.v ELSE now)
        /\ \A op : NoneOf(bridge, op) => NoneOf(bridge', op)
        /\ \A i \in 1 .. Len(bridge') : bridge'[i].op = "kubeconfig" => form.kubeBusy /\ bridge'[i].v = prefs.kubeconfig
        /\ \A i, j \in 1 .. Len(bridge') : bridge'[i].op = "kubeconfig" /\ bridge'[j].op = "kubeconfig" => i = j
        /\ \A i \in 1 .. Len(bridge') : bridge'[i].op = "start" =>
              /\ invest.starting /\ invest.opts = NoOpts
              /\ \A j \in 1 .. Len(bridge') : j > i => bridge'[j].op \notin {"start", "stop"}
              /\ ~invest.strayed =>
                   /\ Current(bridge'[i].v, prefs, invest.told)
                   /\ \A j \in 1 .. Len(bridge') : j > i => bridge'[j].op \notin {"auto", "poll"}
    BY <1>1, <1>2, BridgeServes
  <1>4. /\ process' \in [kubeconfig : Paths, proxy : Proxies \cup {NoPath}, session : Options \cup {NoOpts}]
        /\ process'.kubeconfig = process.kubeconfig /\ process'.session = process.session
        /\ c.op # "auto" /\ c.op # "poll"
        /\ process'.proxy = (IF c.op = "proxy" THEN c.v ELSE process.proxy)
    <2>0. process \in [kubeconfig : Paths, proxy : Proxies \cup {NoPath}, session : Options \cup {NoOpts}]
      BY DEF SettingInv, SettingTypes
    <2>1. CASE SetNetworkProxy
      <3>1. c.op = "proxy" /\ process' = [process EXCEPT !.proxy = c.v]
        BY <1>2, <2>1 DEF SetNetworkProxy, Serves
      <3>2. c.v \in Proxies \cup {NoPath}
        BY <1>3, <3>1 DEF Calls
      <3> QED BY <2>0, <3>1, <3>2
    <2>2. CASE GetNetworkProxy
      <3>1. c.op = "getproxy" /\ process' = process
        BY <1>2, <2>2 DEF GetNetworkProxy, Serves
      <3> QED BY <2>0, <3>1
    <2> QED BY <2>1, <2>2
  <1>5. /\ DOMAIN form' = DOMAIN form /\ form'.proxyDraft = form.proxyDraft /\ form'.kubeDraft = form.kubeDraft
        /\ form'.kubeBusy = form.kubeBusy /\ form'.applied = form.applied
    BY DEF SetNetworkProxy, GetNetworkProxy, SettingInv, SettingTypes
  <1>6. SettingTypes'
    BY <1>1, <1>3, <1>4, <1>5 DEF SettingInv, SettingTypes
  <1>7. KubeRight'
    BY <1>1, <1>3, <1>4, <1>5 DEF SettingInv, KubeRight
  <1>8. Owed(bridge', "proxy", prefs.proxy, process'.proxy)
    <2>1. Owed(bridge, "proxy", prefs.proxy, process.proxy)
      BY DEF SettingInv
    <2> QED BY <1>3, <1>4, <2>1
  <1>9. SessionRight'
    <2>1. invest.running /\ ~invest.starting => NoneOf(bridge', "stop") /\ process.session # NoOpts
      BY <1>3 DEF SettingInv, SessionRight
    <2>2. invest.running /\ ~invest.starting /\ ~invest.strayed =>
             /\ Owed(bridge', "auto", prefs.auto, process.session.auto)
             /\ Owed(bridge', "poll", prefs.refresh, process.session.refresh)
      BY <1>3, <1>4 DEF SettingInv, SessionRight
    <2>3. /\ invest.starting /\ invest.opts # NoOpts /\ ~invest.strayed => Current(invest.opts, prefs, invest.told)
          /\ invest.starting /\ invest.told /\ ~invest.strayed => process.kubeconfig = prefs.kubeconfig
      BY DEF SettingInv, SessionRight
    <2> QED BY <1>1, <1>3, <1>4, <2>1, <2>2, <2>3 DEF SessionRight
  <1> QED BY <1>1, <1>6, <1>7, <1>8, <1>9 DEF SettingInv

LEMMA KubeServed ==
  ASSUME SettingInv, SetKubeconfigPath
  PROVE  SettingInv'
  <1>1. bridge # <<>> /\ bridge' = Tail(bridge) /\ UNCHANGED <<prefs, invest>>
    BY DEF SetKubeconfigPath, Serves
  <1>2. PICK c : c = Head(bridge) /\ c.op = "kubeconfig"
    BY DEF SetKubeconfigPath, Serves
  <1>3. /\ bridge' \in Seq(Calls) /\ c \in Calls
        /\ \A op, v, now : Owed(bridge, op, v, now) => Owed(bridge', op, v, IF c.op = op THEN c.v ELSE now)
        /\ \A op : NoneOf(bridge, op) => NoneOf(bridge', op)
        /\ \A i \in 1 .. Len(bridge') : bridge'[i].op = "kubeconfig" => c.op # "kubeconfig"
        /\ form.kubeBusy /\ c.v = prefs.kubeconfig
        /\ \A i \in 1 .. Len(bridge') : bridge'[i].op = "start" =>
              /\ invest.starting /\ invest.opts = NoOpts
              /\ \A j \in 1 .. Len(bridge') : j > i => bridge'[j].op \notin {"start", "stop"}
              /\ ~invest.strayed =>
                   /\ Current(bridge'[i].v, prefs, invest.told)
                   /\ \A j \in 1 .. Len(bridge') : j > i => bridge'[j].op \notin {"auto", "poll"}
    BY <1>1, <1>2, BridgeServes
  <1>4. /\ process' \in [kubeconfig : Paths, proxy : Proxies \cup {NoPath}, session : Options \cup {NoOpts}]
        /\ process'.kubeconfig = prefs.kubeconfig /\ process'.session = process.session /\ process'.proxy = process.proxy
    <2>0. process \in [kubeconfig : Paths, proxy : Proxies \cup {NoPath}, session : Options \cup {NoOpts}] /\ prefs \in PrefRecs
      BY DEF SettingInv, SettingTypes
    <2>1. process' = [process EXCEPT !.kubeconfig = c.v]
      BY <1>2 DEF SetKubeconfigPath
    <2>2. c.v \in Paths
      BY <1>3, <2>0 DEF PrefRecs
    <2> QED BY <1>3, <2>0, <2>1, <2>2
  <1>5. /\ DOMAIN form' = DOMAIN form /\ form'.proxyDraft = form.proxyDraft /\ form'.kubeDraft = form.kubeDraft
    BY DEF SetKubeconfigPath, SettingInv, SettingTypes
  <1>6. SettingTypes'
    BY <1>1, <1>3, <1>4, <1>5 DEF SettingInv, SettingTypes
  <1>7. KubeRight'
    BY <1>1, <1>2, <1>3, <1>4 DEF KubeRight
  <1>8. Owed(bridge', "proxy", prefs.proxy, process'.proxy)
    <2>1. Owed(bridge, "proxy", prefs.proxy, process.proxy)
      BY DEF SettingInv
    <2> QED BY <1>2, <1>3, <1>4, <2>1
  <1>9. SessionRight'
    <2>1. invest.running /\ ~invest.starting => NoneOf(bridge', "stop") /\ process.session # NoOpts
      BY <1>3 DEF SettingInv, SessionRight
    <2>2. invest.running /\ ~invest.starting /\ ~invest.strayed =>
             /\ Owed(bridge', "auto", prefs.auto, process.session.auto)
             /\ Owed(bridge', "poll", prefs.refresh, process.session.refresh)
      BY <1>2, <1>3 DEF SettingInv, SessionRight
    <2>3. invest.starting /\ invest.opts # NoOpts /\ ~invest.strayed => Current(invest.opts, prefs, invest.told)
      BY DEF SettingInv, SessionRight
    <2> QED BY <1>1, <1>3, <1>4, <2>1, <2>2, <2>3 DEF SessionRight
  <1> QED BY <1>1, <1>6, <1>7, <1>8, <1>9 DEF SettingInv

LEMMA PollServed ==
  ASSUME SettingInv, SetPoll
  PROVE  SettingInv'
  <1>1. bridge # <<>> /\ bridge' = Tail(bridge) /\ UNCHANGED <<prefs, invest, form>>
    BY DEF SetPoll, Serves
  <1>2. PICK c : c = Head(bridge) /\ c.op \in {"auto", "poll"}
    BY DEF SetPoll, Serves
  <1>3. /\ bridge' \in Seq(Calls) /\ c \in Calls
        /\ \A op, v, now : Owed(bridge, op, v, now) => Owed(bridge', op, v, IF c.op = op THEN c.v ELSE now)
        /\ \A op : NoneOf(bridge, op) => NoneOf(bridge', op)
        /\ \A i \in 1 .. Len(bridge') : bridge'[i].op = "kubeconfig" => form.kubeBusy /\ bridge'[i].v = prefs.kubeconfig
        /\ \A i, j \in 1 .. Len(bridge') : bridge'[i].op = "kubeconfig" /\ bridge'[j].op = "kubeconfig" => i = j
        /\ \A i \in 1 .. Len(bridge') : bridge'[i].op = "start" =>
              /\ invest.starting /\ invest.opts = NoOpts
              /\ \A j \in 1 .. Len(bridge') : j > i => bridge'[j].op \notin {"start", "stop"}
              /\ ~invest.strayed =>
                   /\ Current(bridge'[i].v, prefs, invest.told)
                   /\ \A j \in 1 .. Len(bridge') : j > i => bridge'[j].op \notin {"auto", "poll"}
    BY <1>1, <1>2, BridgeServes
  <1>4. /\ process' \in [kubeconfig : Paths, proxy : Proxies \cup {NoPath}, session : Options \cup {NoOpts}]
        /\ process'.kubeconfig = process.kubeconfig /\ process'.proxy = process.proxy
        /\ process.session # NoOpts =>
             /\ process'.session # NoOpts
             /\ process'.session.auto = (IF c.op = "auto" THEN c.v ELSE process.session.auto)
             /\ process'.session.refresh = (IF c.op = "poll" THEN c.v ELSE process.session.refresh)
    <2>0. process \in [kubeconfig : Paths, proxy : Proxies \cup {NoPath}, session : Options \cup {NoOpts}]
      BY DEF SettingInv, SettingTypes
    <2>1. CASE process.session = NoOpts
      <3>1. process' = process
        BY <2>1 DEF SetPoll
      <3> QED BY <2>0, <2>1, <3>1
    <2>2. CASE process.session # NoOpts
      <3>0. PICK s \in Options : s = process.session
        BY <2>0, <2>2
      <3>1. CASE c.op = "auto"
        <4>1. process' = [process EXCEPT !.session.auto = c.v] /\ c.v \in BOOLEAN
          BY <1>2, <1>3, <2>2, <3>1 DEF SetPoll, Calls
        <4>2. PICK t : t = [s EXCEPT !.auto = c.v]
          OBVIOUS
        <4>3. t \in Options /\ t.auto = c.v /\ t.refresh = s.refresh
          BY <3>0, <4>1, <4>2 DEF Options
        <4>4. process' = [process EXCEPT !.session = t]
          BY <2>0, <3>0, <4>1, <4>2
        <4>5. t # NoOpts
          BY <4>3, SettingAssumption
        <4> QED BY <2>0, <3>0, <3>1, <4>3, <4>4, <4>5
      <3>2. CASE c.op = "poll"
        <4>1. process' = [process EXCEPT !.session.refresh = c.v] /\ c.v \in Refreshes \cup {10}
          BY <1>2, <1>3, <2>2, <3>2 DEF SetPoll, Calls
        <4>2. PICK t : t = [s EXCEPT !.refresh = c.v]
          OBVIOUS
        <4>3. t \in Options /\ t.refresh = c.v /\ t.auto = s.auto
          BY <3>0, <4>1, <4>2 DEF Options
        <4>4. process' = [process EXCEPT !.session = t]
          BY <2>0, <3>0, <4>1, <4>2
        <4>5. t # NoOpts
          BY <4>3, SettingAssumption
        <4> QED BY <2>0, <3>0, <3>2, <4>3, <4>4, <4>5
      <3> QED BY <1>2, <3>1, <3>2
    <2> QED BY <2>1, <2>2
  <1>6. SettingTypes'
    BY <1>1, <1>3, <1>4 DEF SettingInv, SettingTypes
  <1>7. KubeRight'
    BY <1>1, <1>3, <1>4 DEF SettingInv, KubeRight
  <1>8. Owed(bridge', "proxy", prefs.proxy, process'.proxy)
    <2>1. Owed(bridge, "proxy", prefs.proxy, process.proxy)
      BY DEF SettingInv
    <2>2. c.op # "proxy"
      BY <1>2
    <2> QED BY <1>3, <1>4, <2>1, <2>2
  <1>9. SessionRight'
    <2>1. invest.running /\ ~invest.starting => NoneOf(bridge', "stop") /\ process.session # NoOpts
      BY <1>3 DEF SettingInv, SessionRight
    <2>2. ASSUME invest.running, ~invest.starting, ~invest.strayed
          PROVE  /\ Owed(bridge', "auto", prefs.auto, process'.session.auto)
                 /\ Owed(bridge', "poll", prefs.refresh, process'.session.refresh)
      <3>1. /\ Owed(bridge, "auto", prefs.auto, process.session.auto)
            /\ Owed(bridge, "poll", prefs.refresh, process.session.refresh)
        BY <2>2 DEF SettingInv, SessionRight
      <3>2. /\ process'.session.auto = (IF c.op = "auto" THEN c.v ELSE process.session.auto)
            /\ process'.session.refresh = (IF c.op = "poll" THEN c.v ELSE process.session.refresh)
        BY <1>4, <2>1, <2>2
      <3> QED BY <1>3, <3>1, <3>2
    <2>3. /\ invest.starting /\ invest.opts # NoOpts /\ ~invest.strayed => Current(invest.opts, prefs, invest.told)
          /\ invest.starting /\ invest.told /\ ~invest.strayed => process.kubeconfig = prefs.kubeconfig
      BY DEF SettingInv, SessionRight
    <2> QED BY <1>1, <1>3, <1>4, <2>1, <2>2, <2>3 DEF SessionRight
  <1> QED BY <1>1, <1>6, <1>7, <1>8, <1>9 DEF SettingInv

LEMMA StartServed ==
  ASSUME SettingInv, StartInvestigation
  PROVE  SettingInv'
  <1>1. bridge # <<>> /\ bridge' = Tail(bridge) /\ UNCHANGED <<prefs, form>>
    BY DEF StartInvestigation, Serves
  <1>2. PICK c : c = Head(bridge) /\ c.op = "start"
    BY DEF StartInvestigation, Serves
  <1>3. /\ bridge' \in Seq(Calls) /\ c \in Calls
        /\ \A op, v, now : Owed(bridge, op, v, now) => Owed(bridge', op, v, IF c.op = op THEN c.v ELSE now)
        /\ \A i \in 1 .. Len(bridge') : bridge'[i].op = "kubeconfig" => form.kubeBusy /\ bridge'[i].v = prefs.kubeconfig
        /\ \A i, j \in 1 .. Len(bridge') : bridge'[i].op = "kubeconfig" /\ bridge'[j].op = "kubeconfig" => i = j
        /\ invest.starting /\ NoneOf(bridge', "start") /\ NoneOf(bridge', "stop")
        /\ ~invest.strayed =>
             Current(c.v, prefs, invest.told) /\ NoneOf(bridge', "auto") /\ NoneOf(bridge', "poll")
    BY <1>1, <1>2, BridgeServes
  <1>4. c.v \in Options /\ c.v # NoOpts
    <2>1. c.v \in Options
      BY <1>2, <1>3 DEF Calls
    <2> QED BY <2>1, SettingAssumption
  <1>5. /\ process' \in [kubeconfig : Paths, proxy : Proxies \cup {NoPath}, session : Options \cup {NoOpts}]
        /\ process'.kubeconfig = process.kubeconfig /\ process'.proxy = process.proxy /\ process'.session = c.v
    <2>0. process \in [kubeconfig : Paths, proxy : Proxies \cup {NoPath}, session : Options \cup {NoOpts}]
      BY DEF SettingInv, SettingTypes
    <2>1. process' = [process EXCEPT !.session = c.v]
      BY <1>2 DEF StartInvestigation
    <2> QED BY <1>4, <2>0, <2>1
  <1>6. /\ DOMAIN invest' = {"running", "starting", "opts", "strayed", "told"} /\ invest'.opts = invest.opts
        /\ invest'.starting = FALSE /\ invest'.strayed = invest.strayed /\ invest'.told = invest.told
        /\ invest'.running = invest.running
    BY DEF StartInvestigation, SettingInv, SettingTypes
  <1>7. SettingTypes'
    BY <1>1, <1>3, <1>5, <1>6 DEF SettingInv, SettingTypes
  <1>8. KubeRight'
    BY <1>1, <1>3, <1>5 DEF SettingInv, KubeRight
  <1>9. Owed(bridge', "proxy", prefs.proxy, process'.proxy)
    <2>1. Owed(bridge, "proxy", prefs.proxy, process.proxy)
      BY DEF SettingInv
    <2> QED BY <1>2, <1>3, <1>5, <2>1
  <1>10. SessionRight'
    <2>1. \A i \in 1 .. Len(bridge') : bridge'[i].op # "start"
      BY <1>3 DEF NoneOf
    <2>2. ~invest.strayed =>
            /\ Owed(bridge', "auto", prefs.auto, process'.session.auto)
            /\ Owed(bridge', "poll", prefs.refresh, process'.session.refresh)
      BY <1>3, <1>5 DEF Current, Owed
    <2> QED BY <1>1, <1>3, <1>4, <1>5, <1>6, <2>1, <2>2 DEF SessionRight
  <1> QED BY <1>1, <1>7, <1>8, <1>9, <1>10 DEF SettingInv

LEMMA StopServed ==
  ASSUME SettingInv, StopInvestigation
  PROVE  SettingInv'
  <1>1. bridge # <<>> /\ bridge' = Tail(bridge) /\ UNCHANGED <<prefs, invest, form>>
    BY DEF StopInvestigation, Serves
  <1>2. PICK c : c = Head(bridge) /\ c.op = "stop"
    BY DEF StopInvestigation, Serves
  <1>3. /\ bridge' \in Seq(Calls) /\ c \in Calls
        /\ \A op, v, now : Owed(bridge, op, v, now) => Owed(bridge', op, v, IF c.op = op THEN c.v ELSE now)
        /\ NoneOf(bridge, "stop") => c.op # "stop"
        /\ \A i \in 1 .. Len(bridge') : bridge'[i].op = "kubeconfig" => form.kubeBusy /\ bridge'[i].v = prefs.kubeconfig
        /\ \A i, j \in 1 .. Len(bridge') : bridge'[i].op = "kubeconfig" /\ bridge'[j].op = "kubeconfig" => i = j
        /\ \A i \in 1 .. Len(bridge') : bridge'[i].op = "start" =>
              /\ invest.starting /\ invest.opts = NoOpts
              /\ \A j \in 1 .. Len(bridge') : j > i => bridge'[j].op \notin {"start", "stop"}
              /\ ~invest.strayed =>
                   /\ Current(bridge'[i].v, prefs, invest.told)
                   /\ \A j \in 1 .. Len(bridge') : j > i => bridge'[j].op \notin {"auto", "poll"}
    BY <1>1, <1>2, BridgeServes
  <1>4. /\ process' \in [kubeconfig : Paths, proxy : Proxies \cup {NoPath}, session : Options \cup {NoOpts}]
        /\ process'.kubeconfig = process.kubeconfig /\ process'.proxy = process.proxy
    BY DEF StopInvestigation, SettingInv, SettingTypes
  <1>5. ~ (invest.running /\ ~invest.starting)
    BY <1>2, <1>3 DEF SettingInv, SessionRight
  <1>6. SettingTypes'
    BY <1>1, <1>3, <1>4 DEF SettingInv, SettingTypes
  <1>7. KubeRight'
    BY <1>1, <1>3, <1>4 DEF SettingInv, KubeRight
  <1>8. Owed(bridge', "proxy", prefs.proxy, process'.proxy)
    <2>1. Owed(bridge, "proxy", prefs.proxy, process.proxy)
      BY DEF SettingInv
    <2> QED BY <1>2, <1>3, <1>4, <2>1
  <1>9. SessionRight'
    <2>1. /\ invest.starting /\ invest.opts # NoOpts /\ ~invest.strayed => Current(invest.opts, prefs, invest.told)
          /\ invest.starting /\ invest.told /\ ~invest.strayed => process.kubeconfig = prefs.kubeconfig
      BY DEF SettingInv, SessionRight
    <2> QED BY <1>1, <1>3, <1>4, <1>5, <2>1 DEF SessionRight
  <1> QED BY <1>1, <1>6, <1>7, <1>8, <1>9 DEF SettingInv

LEMMA LaunchedAgain ==
  ASSUME SettingInv, NextLaunch
  PROVE  SettingInv'
  <1>1. PICK a : a = [op |-> "getproxy"]
    OBVIOUS
  <1>2. PICK b : b = [op |-> "proxy", v |-> prefs.proxy, page |-> FALSE]
    OBVIOUS
  <1>3. prefs \in PrefRecs /\ prefs' = prefs
    BY DEF SettingInv, SettingTypes, NextLaunch
  <1>5. a \in Calls /\ b \in Calls /\ a.op = "getproxy" /\ b.op = "proxy" /\ b.v = prefs.proxy
    BY <1>1, <1>2, <1>3 DEF Calls, PrefRecs
  <1>6. bridge' = When(TRUE, <<a, b>>)
    BY <1>1, <1>2 DEF NextLaunch, LaunchCalls, When
  <1>7. /\ bridge' \in Seq(Calls)
        /\ \A op : a.op # op /\ b.op # op => NoneOf(bridge', op)
        /\ LastOf(bridge', b.op, b.v)
    BY <1>5, <1>6, PairFacts
  <1>8. NoneOf(bridge', "start") /\ NoneOf(bridge', "kubeconfig")
    BY <1>5, <1>7
  <1>9. /\ process' = [kubeconfig |-> NoPath, proxy |-> NoPath, session |-> NoOpts]
        /\ DOMAIN invest' = {"running", "starting", "opts", "strayed", "told"} /\ invest'.opts = NoOpts
        /\ invest'.running = FALSE /\ invest'.starting = FALSE
    BY DEF NextLaunch, NotStarted
  <1>10. /\ DOMAIN form' = {"proxyDraft", "kubeDraft", "proxyBusy", "kubeBusy", "active", "applied", "edits"}
         /\ form'.proxyDraft = prefs.proxy /\ form'.kubeDraft = prefs.kubeconfig /\ form'.kubeBusy = FALSE
         /\ form'.applied = (prefs.kubeconfig = NoPath)
    BY DEF NextLaunch, LaunchForm
  <1>11. SettingTypes'
    BY <1>3, <1>7, <1>9, <1>10 DEF SettingTypes, Paths, PrefRecs
  <1>12. KubeRight'
    BY <1>3, <1>8, <1>9, <1>10 DEF KubeRight, NoneOf
  <1>13. SessionRight'
    BY <1>8, <1>9 DEF SessionRight, NoneOf
  <1>14. Owed(bridge', "proxy", prefs.proxy, process'.proxy)
    BY <1>5, <1>7 DEF Owed
  <1> QED BY <1>3, <1>11, <1>12, <1>13, <1>14 DEF SettingInv

LEMMA SettingStep == SettingInv /\ [SettingNext]_settingVars => SettingInv'
  <1> SUFFICES ASSUME SettingInv, [SettingNext]_settingVars PROVE SettingInv'
    OBVIOUS
  <1>1. CASE UNCHANGED settingVars
    BY <1>1 DEF settingVars, SettingInv, SettingTypes, KubeRight, SessionRight, Owed, LastOf, NoneOf, Current
  <1>2. CASE (\E v \in Refreshes : ChangeRefresh(v)) \/ ChangeAuto \/ (\E m \in WindowChoices : ChangeWindow(m))
    BY <1>2, RowsChange, SettingAssumption
  <1>3. ASSUME NEW v \in Proxies \cup {NoPath}, EditProxy(v) \/ ProxyOfOtherWindow(v)
        PROVE  SettingInv'
    BY <1>3, RowsChange, DraftsEdited
  <1>4. ASSUME NEW v \in Paths, EditKubeconfig(v)
        PROVE  SettingInv'
    BY <1>4, DraftsEdited
  <1>5. CASE applyProxy \/ applyKubeconfig
    BY <1>5, PageApplies
  <1>6. CASE ClickInvestigate \/ runInvestigation \/ onStop
    BY <1>6, InvestigateClicked, InvestigationRuns, InvestigationStops
  <1>7. CASE SetNetworkProxy \/ GetNetworkProxy \/ SetKubeconfigPath
    BY <1>7, ProxyServed, KubeServed
  <1>8. CASE SetPoll \/ StartInvestigation \/ StopInvestigation \/ NextLaunch
    BY <1>8, PollServed, StartServed, StopServed, LaunchedAgain
  <1> QED BY <1>1, <1>2, <1>3, <1>4, <1>5, <1>6, <1>7, <1>8 DEF SettingNext, Paths

(* Whatever is changed on the settings page, by another window or while an
   investigation starts, in whatever order its calls are made: once they are
   served the process works through the preferences' proxy and a running session
   is refreshed as they say, and a session starts on the kubeconfig of the
   preferences that the process was told of (App.jsx:317, :583, :631). *)
THEOREM SettingsSafe == PagesSpec => SettingsInForce
  <1> DEFINE allVars == <<area, shellVars, pageVars, streamVars, patternVars, prefsVars, settingsVars, settingVars, inspectVars>>
  <1>1. PagesInit => SettingInv
    BY SettingBegins DEF PagesInit
  <1>2. [PagesNext]_allVars => [SettingNext]_settingVars
    BY DEF PagesNext, Runs
  <1>3. SettingInv /\ [PagesNext]_allVars => SettingInv'
    BY <1>2, SettingStep
  <1>4. SettingInv /\ [PagesNext]_allVars => [KubeStep]_settingVars
    BY StartKube
  <1>5. PagesSpec => [][KubeStep]_settingVars
    BY <1>1, <1>3, <1>4, PTL DEF PagesSpec
  <1>6. PagesSpec => [](ProxyInForce /\ PollFollows)
    BY <1>1, <1>3, SettingInForce, PTL DEF PagesSpec
  <1>7. [][KubeStep]_settingVars => SameKubeconfig
    BY PTL DEF SameKubeconfig, KubeStep
  <1> QED BY <1>5, <1>6, <1>7, PTL DEF SettingsInForce

-----------------------------------------------------------------------------
(* The inspector *)

(* What the page and what it is given are made of *)
BenchTypes(b, g) ==
  /\ DOMAIN b = {"on", "key", "focus", "pinned", "cat"}
  /\ b.on \in BOOLEAN /\ b.pinned \in BOOLEAN
  /\ b.key \in InspectKeys \cup {NoKey} /\ b.focus \in InspectKeys \cup {NoKey}
  /\ DOMAIN g = {"list", "rows"} /\ g.list \in EntityLists \cup {NotListed} /\ g.rows \subseteq Objs

(* A pinned focus is there and something is inspected; a page that never heard of a
   list and has no matches inspects nothing. *)
BenchRight(b, g) ==
  /\ BenchTypes(b, g)
  /\ b.pinned => b.focus # NoKey /\ b.key # NoKey
  /\ ~ b.on => b.cat = NotListed
  /\ b.on /\ ~ b.pinned /\ b.cat = NotListed /\ g.rows = {} => b.key = NoKey

DetailCalls == [key : InspectKeys, live : BOOLEAN]

NoneLive(calls) == \A i \in DOMAIN calls : ~ calls[i].live

(* Details of the inspected row: at most one request counts, it is for the row, and
   without one what is held is the row's or nothing. *)
DetailRight(d, calls, row) ==
  /\ DOMAIN d = {"of", "loading", "failed"} /\ d.loading \in BOOLEAN /\ d.of \in InspectKeys \cup {NoKey}
  /\ ~ d.loading => d.of \in {NoKey, row}
  /\ d.loading <=> \E i \in DOMAIN calls : calls[i].live
  /\ \A i \in DOMAIN calls : calls[i].live => calls[i].key = row /\ \A j \in DOMAIN calls : calls[j].live => j = i

(* The panel that shows body: a revealed value is its own, and is in the tab that
   another object does not start with. *)
InspectPanelRight(p, body, row) ==
  /\ DOMAIN p = {"last", "tab", "bare", "manifest"}
  /\ p.last = body /\ p.tab \in Range(Tabs(body))
  /\ p.bare \subseteq {Obj(body)} /\ (p.bare # {} => p.tab = "spec")
  /\ p.manifest \in {NoKey, row}

(* The page, what it is given, the details, their requests and the panel agree. *)
InspectRight(b, g, d, calls, p) ==
  /\ BenchRight(b, g)
  /\ calls \in Seq(DetailCalls)
  /\ IF b.on /\ inspectRow(b, g) # NoKey
     THEN DetailRight(d, calls, inspectRow(b, g)) /\ InspectPanelRight(p, BodyOf(d, inspectRow(b, g)), inspectRow(b, g))
     ELSE d = NoDetail /\ NoneLive(calls) /\ p = NoPanel

InspectInv == InspectRight(bench, given, detail, asked, panel)

(* Without its i-th element a sequence is one shorter, and what followed moves up. *)
LEMMA RemoveAtFacts ==
  ASSUME NEW S, NEW s \in Seq(S), NEW i \in 1 .. Len(s)
  PROVE  /\ RemoveAt(s, i) \in Seq(S) /\ Len(RemoveAt(s, i)) = Len(s) - 1
         /\ \A k \in 1 .. Len(s) - 1 : RemoveAt(s, i)[k] = IF k < i THEN s[k] ELSE s[k + 1]
<1> DEFINE a == SubSeq(s, 1, i - 1)
           b == SubSeq(s, i + 1, Len(s))
<1>1. Len(s) \in Nat /\ i \in Nat /\ \A k \in 1..Len(s) : s[k] \in S OBVIOUS
<1>2. /\ a \in Seq(S) /\ Len(a) = i - 1 /\ \A k \in 1..i - 1 : a[k] = s[k]
  <2>1. \A k \in 1..i - 1 : s[k] \in S BY <1>1
  <2>2. 1 \in Int /\ i - 1 \in Int BY <1>1
  <2>3. /\ a \in Seq(S) /\ Len(a) = IF 1 <= i - 1 THEN i - 1 - 1 + 1 ELSE 0
        /\ \A k \in 1..i - 1 - 1 + 1 : a[k] = s[1 + k - 1]
    BY <2>1, <2>2, SubSeqProperties
  <2>4. QED BY <2>3, <1>1
<1>3. /\ b \in Seq(S) /\ Len(b) = Len(s) - i /\ \A k \in 1..Len(s) - i : b[k] = s[i + k]
  <2>1. \A k \in i + 1..Len(s) : s[k] \in S BY <1>1
  <2>2. i + 1 \in Int /\ Len(s) \in Int BY <1>1
  <2>3. /\ b \in Seq(S) /\ Len(b) = IF i + 1 <= Len(s) THEN Len(s) - (i + 1) + 1 ELSE 0
        /\ \A k \in 1..Len(s) - (i + 1) + 1 : b[k] = s[i + 1 + k - 1]
    BY <2>1, <2>2, SubSeqProperties
  <2>4. QED BY <2>3, <1>1
<1> HIDE DEF a, b
<1>4. /\ a \o b \in Seq(S) /\ Len(a \o b) = Len(a) + Len(b)
      /\ \A k \in 1..Len(a) + Len(b) : (a \o b)[k] = IF k <= Len(a) THEN a[k] ELSE b[k - Len(a)]
  BY <1>2, <1>3, ConcatProperties
<1>5. RemoveAt(s, i) = a \o b BY DEF RemoveAt, a, b
<1>6. \A k \in 1..Len(s) - 1 : (a \o b)[k] = IF k < i THEN s[k] ELSE s[k + 1]
  <2>1. SUFFICES ASSUME NEW k \in 1..Len(s) - 1 PROVE (a \o b)[k] = IF k < i THEN s[k] ELSE s[k + 1] OBVIOUS
  <2>2. CASE k < i BY <2>2, <1>1, <1>2, <1>3, <1>4
  <2>3. CASE ~ k < i
    <3>1. k - (i - 1) \in 1..Len(s) - i /\ i + (k - (i - 1)) = k + 1 BY <2>3, <1>1
    <3>2. (a \o b)[k] = b[k - (i - 1)] BY <2>3, <1>1, <1>2, <1>3, <1>4
    <3>3. QED BY <3>1, <3>2, <1>3, <2>3
  <2>4. QED BY <2>2, <2>3
<1>7. Len(a \o b) = Len(s) - 1 BY <1>1, <1>2, <1>3, <1>4
<1>8. QED BY <1>4, <1>5, <1>6, <1>7


(* Keys in either form are of their object. *)
LEMMA KeyFacts ==
  /\ \A k \in InspectKeys : k # NoKey /\ Obj(k) \in Objs
  /\ \A o \in Objs : /\ Short(o) \in InspectKeys /\ Full(o) \in InspectKeys /\ Obj(Short(o)) = o /\ Obj(Full(o)) = o
                     /\ Short(o) # NoKey /\ Full(o) # NoKey
  <1>1. \A k \in InspectKeys : k # NoKey
    BY InspectAssumption DEF InspectKeys
  <1>2. \A k \in InspectKeys : Obj(k) \in Objs
    BY DEF InspectKeys, Obj
  <1>3. \A o \in Objs : Short(o) \in InspectKeys /\ Full(o) \in InspectKeys /\ Obj(Short(o)) = o /\ Obj(Full(o)) = o
    BY DEF InspectKeys, Obj, Short, Full
  <1> QED BY <1>1, <1>2, <1>3

(* The keys of a list that is given *)
LEMMA ListFacts ==
  ASSUME NEW l \in EntityLists \cup {NotListed}
  PROVE  /\ l.keys \in Seq(InspectKeys) /\ \A i \in DOMAIN l.keys : l.keys[i] \in InspectKeys
         /\ l.keys # <<>> => Head(l.keys) \in InspectKeys
         /\ Range(l.keys) \subseteq InspectKeys
  <1>1. l.keys \in Seq(InspectKeys)
    <2>1. CASE l \in EntityLists
      BY <2>1, InspectAssumption DEF InspectKeys
    <2>2. CASE l = NotListed
      <3>1. l.keys = <<>>
        BY <2>2 DEF NotListed
      <3> QED BY <3>1
    <2> QED BY <2>1, <2>2
  <1>2. PICK s : s = l.keys
    OBVIOUS
  <1>3. s \in Seq(InspectKeys)
    BY <1>1, <1>2
  <1>4. \A i \in DOMAIN s : s[i] \in InspectKeys
    BY <1>3
  <1>5. s # <<>> => Head(s) \in InspectKeys
    BY <1>3
  <1>6. Range(s) \subseteq InspectKeys
    BY <1>4 DEF Range
  <1> QED BY <1>2, <1>3, <1>4, <1>5, <1>6

(* The tabs of an object, the summary first *)
LEMMA TabsFacts ==
  ASSUME NEW k
  PROVE  /\ Head(Tabs(k)) = "summary"
         /\ Range(Tabs(k)) = IF KindOf[Obj(k)] \in WorkloadKinds THEN {"summary", "changes", "spec"} ELSE {"summary", "spec"}
  <1>1. CASE KindOf[Obj(k)] \in WorkloadKinds
    <2>1. Tabs(k) = <<"summary", "changes">> \o <<"spec">>
      BY <1>1 DEF Tabs
    <2>2. <<"summary", "changes">> \in Seq({"summary", "changes", "spec"}) /\ <<"spec">> \in Seq({"summary", "changes", "spec"})
      OBVIOUS
    <2>3. Range(Tabs(k)) = Range(<<"summary", "changes">>) \cup Range(<<"spec">>)
      BY <2>1, <2>2, RangeConcatenation
    <2>4. Range(<<"summary", "changes">>) = {"summary", "changes"} /\ Range(<<"spec">>) = {"spec"}
      BY DEF Range
    <2>5. Tabs(k) \in Seq({"summary", "changes", "spec"}) /\ Len(Tabs(k)) = 3 /\ Tabs(k)[1] = "summary"
      BY <2>1, <2>2, ConcatProperties
    <2>6. Head(Tabs(k)) = "summary"
      BY <2>5
    <2> QED BY <1>1, <2>3, <2>4, <2>6
  <1>2. CASE KindOf[Obj(k)] \notin WorkloadKinds
    <2>1. Tabs(k) = <<"summary">> \o <<"spec">>
      BY <1>2 DEF Tabs
    <2>2. <<"summary">> \in Seq({"summary", "changes", "spec"}) /\ <<"spec">> \in Seq({"summary", "changes", "spec"})
      OBVIOUS
    <2>3. Range(Tabs(k)) = Range(<<"summary">>) \cup Range(<<"spec">>)
      BY <2>1, <2>2, RangeConcatenation
    <2>4. Range(<<"summary">>) = {"summary"} /\ Range(<<"spec">>) = {"spec"}
      BY DEF Range
    <2>5. Tabs(k) \in Seq({"summary", "changes", "spec"}) /\ Len(Tabs(k)) = 2 /\ Tabs(k)[1] = "summary"
      BY <2>1, <2>2, ConcatProperties
    <2>6. Head(Tabs(k)) = "summary"
      BY <2>5
    <2> QED BY <1>2, <2>3, <2>4, <2>6
  <1> QED BY <1>1, <1>2

(* What is inspected is a key. *)
LEMMA RowFacts ==
  ASSUME NEW b, NEW g, BenchTypes(b, g)
  PROVE  inspectRow(b, g) \in InspectKeys \cup {NoKey}
  <1>1. CASE b.key # NoKey
    <2>1. b.key \in InspectKeys /\ Obj(b.key) \in Objs
      BY <1>1, KeyFacts DEF BenchTypes
    <2>2. CASE Obj(b.key) \in g.rows
      BY <1>1, <2>1, <2>2, KeyFacts DEF inspectRow
    <2>3. CASE Obj(b.key) \notin g.rows /\ \E i \in DOMAIN g.list.keys : Obj(g.list.keys[i]) = Obj(b.key)
      <3>1. PICK i \in DOMAIN g.list.keys : i = CHOOSE j \in DOMAIN g.list.keys : Obj(g.list.keys[j]) = Obj(b.key)
        BY <2>3
      <3>2. inspectRow(b, g) = g.list.keys[i]
        BY <1>1, <2>3, <3>1 DEF inspectRow
      <3>3. g.list.keys[i] \in InspectKeys
        BY <3>1, ListFacts DEF BenchTypes
      <3> QED BY <3>2, <3>3
    <2>4. CASE Obj(b.key) \notin g.rows /\ ~ \E i \in DOMAIN g.list.keys : Obj(g.list.keys[i]) = Obj(b.key)
      BY <1>1, <2>1, <2>4 DEF inspectRow
    <2> QED BY <2>2, <2>3, <2>4
  <1>2. CASE b.key = NoKey
    <2>1. CASE b.cat # NotListed \/ g.rows = {}
      BY <1>2, <2>1 DEF inspectRow
    <2>2. CASE b.cat = NotListed /\ g.rows # {}
      <3>1. (CHOOSE o \in g.rows : TRUE) \in Objs
        BY <2>2 DEF BenchTypes
      <3>2. b.focus # NoKey => Obj(b.focus) \in Objs
        BY KeyFacts DEF BenchTypes
      <3> QED BY <1>2, <2>2, <3>1, <3>2, KeyFacts DEF inspectRow
    <2> QED BY <2>1, <2>2
  <1> QED BY <1>1, <1>2

(* r is b but for its key and list. *)
SameBut(r, b) == DOMAIN r = DOMAIN b /\ r.on = b.on /\ r.pinned = b.pinned /\ r.focus = b.focus

(* How the effects from b to n settle what is inspected *)
Settled(n, b, g, mounts) ==
  /\ n.cat = IF ~ b.pinned /\ (mounts \/ bench.pinned \/ g.list # given.list) THEN g.list ELSE b.cat
  /\ ~ b.pinned /\ n.cat # b.cat /\ b.key \in Range(n.cat.keys)
       /\ (b.cat = NotListed /\ g.rows = {} => b.key = NoKey) => n.key = b.key
  /\ b.pinned /\ bench.pinned /\ ~ mounts /\ b.focus = bench.focus => n.key = b.key

(* The effects of a commit keep the page what it is, and settle what is inspected. *)
LEMMA EffectsFacts ==
  ASSUME NEW b, NEW g, BenchTypes(b, g), NEW mounts \in BOOLEAN, b.on = TRUE, bench.pinned \in BOOLEAN,
         b.pinned => b.focus # NoKey,
         b.pinned /\ ~ mounts /\ bench.pinned /\ b.focus = bench.focus => b.key # NoKey,
         NEW n, n = BenchEffects(bench, b, g, mounts)
  PROVE  BenchRight(n, g) /\ SameBut(n, b) /\ Settled(n, b, g, mounts)
  <1> DEFINE report == ~ b.pinned /\ (mounts \/ bench.pinned \/ g.list # given.list)
             browsing == b.cat # NotListed
             pins == b.pinned /\ b.focus # NoKey /\ (mounts \/ ~ bench.pinned \/ b.focus # bench.focus)
             first == CHOOSE o \in g.rows : TRUE
             nav == IF g.list.keys = <<>> THEN NoKey
                    ELSE IF b.key \in Range(g.list.keys) THEN b.key ELSE Head(g.list.keys)
  <1>1. PICK b1 : b1 = IF report THEN handleNavKindChange(b, g.list) ELSE b
    OBVIOUS
  <1>2. PICK b2 : b2 = IF b.pinned \/ browsing THEN b1
                       ELSE IF g.rows = {} THEN [b1 EXCEPT !.key = NoKey]
                       ELSE IF b.key # NoKey THEN b1 ELSE [b1 EXCEPT !.key = Short(first)]
    OBVIOUS
  <1>3. PICK b3 : b3 = IF pins THEN [b2 EXCEPT !.key = b.focus] ELSE b2
    OBVIOUS
  <1>4. n = IF g.rows = {} \/ browsing \/ b.key # NoKey THEN b3
            ELSE [b3 EXCEPT !.key = IF b.pinned THEN b.focus ELSE Short(first)]
    BY <1>1, <1>2, <1>3 DEF BenchEffects
  <1>5. report \in BOOLEAN /\ browsing \in BOOLEAN /\ pins \in BOOLEAN
    BY DEF BenchTypes
  <1>6. g.rows # {} => Short(first) \in InspectKeys
    BY KeyFacts DEF BenchTypes
  <1>7. nav \in InspectKeys \cup {NoKey}
    <2>1. g.list.keys # <<>> => Head(g.list.keys) \in InspectKeys
      BY ListFacts DEF BenchTypes
    <2> QED BY <2>1 DEF BenchTypes
  <1>8. SameBut(b1, b) /\ b1.cat = (IF report THEN g.list ELSE b.cat) /\ b1.key = (IF report THEN nav ELSE b.key)
    <2>1. CASE report
      <3>1. b1 = [b EXCEPT !.cat = g.list, !.key = nav]
        BY <1>1, <2>1 DEF handleNavKindChange
      <3> QED BY <2>1, <3>1 DEF SameBut, BenchTypes
    <2>2. CASE ~ report
      BY <1>1, <2>2 DEF SameBut
    <2> QED BY <2>1, <2>2
  <1> DEFINE k2 == IF b.pinned \/ browsing THEN b1.key
                   ELSE IF g.rows = {} THEN NoKey ELSE IF b.key # NoKey THEN b1.key ELSE Short(first)
             k3 == IF pins THEN b.focus ELSE k2
             k4 == IF g.rows = {} \/ browsing \/ b.key # NoKey THEN k3 ELSE IF b.pinned THEN b.focus ELSE Short(first)
  <1>9. SameBut(b2, b) /\ b2.cat = b1.cat /\ b2.key = k2
    BY <1>2, <1>8 DEF SameBut, BenchTypes
  <1>10. SameBut(b3, b) /\ b3.cat = b1.cat /\ b3.key = k3
    BY <1>3, <1>9 DEF SameBut, BenchTypes
  <1>11. SameBut(n, b) /\ n.cat = b1.cat /\ n.key = k4
    BY <1>4, <1>10 DEF SameBut, BenchTypes
  <1>12. k4 \in InspectKeys \cup {NoKey}
    BY <1>6, <1>7, <1>8 DEF BenchTypes
  <1>13. b.pinned => k4 # NoKey
    <2>1. b.pinned => ~ report
      OBVIOUS
    <2> QED BY <1>8, <2>1 DEF BenchTypes
  <1>14. n.cat = (IF report THEN g.list ELSE b.cat)
    BY <1>8, <1>11
  <1>15. ~ b.pinned /\ n.cat = NotListed /\ g.rows = {} => k4 = NoKey
    <2>1. SUFFICES ASSUME ~ b.pinned, n.cat = NotListed, g.rows = {} PROVE k4 = NoKey
      OBVIOUS
    <2>2. k4 = IF browsing THEN b1.key ELSE NoKey
      BY <2>1
    <2>3. browsing => report /\ g.list = NotListed
      BY <1>14, <2>1
    <2>4. browsing => nav = NoKey
      BY <2>3 DEF NotListed
    <2> QED BY <1>8, <2>2, <2>3, <2>4
  <1>16. BenchRight(n, g)
    <2>1. BenchTypes(n, g)
      BY <1>11, <1>12 DEF BenchTypes, SameBut
    <2> QED BY <1>11, <1>13, <1>15, <2>1 DEF BenchRight, SameBut
  <1>17. ASSUME ~ b.pinned, n.cat # b.cat, b.key \in Range(n.cat.keys), b.cat = NotListed /\ g.rows = {} => b.key = NoKey
         PROVE  n.key = b.key
    <2>1. report /\ n.cat = g.list
      BY <1>14, <1>17
    <2>2. b.key \in InspectKeys /\ b.key # NoKey
      BY <1>17, <2>1, ListFacts, KeyFacts DEF BenchTypes
    <2>3. g.list.keys # <<>>
      BY <1>17, <2>1 DEF Range
    <2>4. nav = b.key
      BY <1>17, <2>1, <2>3
    <2>5. b1.key = b.key
      BY <1>8, <2>1, <2>4
    <2> QED BY <1>11, <1>17, <2>2, <2>5
  <1>18. b.pinned /\ bench.pinned /\ ~ mounts /\ b.focus = bench.focus => n.key = b.key
    BY <1>8, <1>11
  <1> QED BY <1>11, <1>14, <1>16, <1>17, <1>18 DEF Settled

(* What TabEffect makes of a panel *)
LEMMA TabEffectFacts ==
  ASSUME NEW p, DOMAIN p = {"last", "tab", "bare", "manifest"}, p.bare \subseteq {Obj(p.last)}, p.bare # {} => p.tab = "spec",
         p.tab \in Range(Tabs(p.last)), NEW body, NEW w, NEW q, q = TabEffect(p, body, w).panel
  PROVE  /\ DOMAIN q = {"last", "tab", "bare", "manifest"} /\ q.last = body /\ q.tab \in Range(Tabs(body))
         /\ q.bare \subseteq {Obj(body)} /\ (q.bare # {} => q.tab = "spec") /\ q.manifest = p.manifest
         /\ p.last = body => q.tab = p.tab
  <1> DEFINE changed == p.last # body
             wanted == changed /\ w = Obj(body) /\ KindOf[w] \in WorkloadKinds
  <1>1. PICK tab : tab = IF wanted THEN "changes"
                         ELSE IF ~ changed /\ p.tab \in Range(Tabs(body)) THEN p.tab ELSE Head(Tabs(body))
    OBVIOUS
  <1>2. q = [p EXCEPT !.last = body, !.tab = tab, !.bare = IF tab = p.tab THEN p.bare ELSE {}]
    BY <1>1 DEF TabEffect
  <1>3. /\ DOMAIN q = {"last", "tab", "bare", "manifest"} /\ q.last = body /\ q.tab = tab /\ q.manifest = p.manifest
        /\ q.bare = IF tab = p.tab THEN p.bare ELSE {}
    BY <1>2
  <1>4. tab \in Range(Tabs(body))
    BY <1>1, TabsFacts
  <1>5. changed => tab \in {"changes", "summary"}
    BY <1>1, TabsFacts
  <1>6. ~ changed => tab = p.tab
    BY <1>1
  <1>7. q.bare # {} => ~ changed
    BY <1>3, <1>5
  <1> QED BY <1>3, <1>4, <1>6, <1>7

(* A panel that becomes q for body keeps its tab if it showed body before. *)
PanelBecomes(p, q, body, row) == InspectPanelRight(q, body, row) /\ (p.last = body => q.tab = p.tab)

(* What the effects make of the panel of an inspected row *)
LEMMA PanelFacts ==
  ASSUME NEW p, NEW row, row # NoKey, NEW d, NEW body, body = BodyOf(d, row), NEW w, NEW fresh \in BOOLEAN,
         p.last # NoKey => \E old : InspectPanelRight(p, p.last, old) /\ (fresh \/ old = row),
         NEW q, q = PanelEffects(p, row, d, w, fresh).panel
  PROVE  PanelBecomes(p, q, body, row)
  <1>1. body # NoKey
    BY DEF BodyOf
  <1>2. CASE p.last = NoKey
    <2>1. PICK r : r = [NoPanel EXCEPT !.last = body]
      OBVIOUS
    <2>2. q = TabEffect(r, body, w).panel
      BY <1>2, <2>1 DEF PanelEffects
    <2>3. /\ DOMAIN r = {"last", "tab", "bare", "manifest"} /\ r.last = body /\ r.tab = "summary" /\ r.bare = {}
          /\ r.manifest = NoKey
      BY <2>1 DEF NoPanel
    <2>4. r.tab \in Range(Tabs(r.last))
      BY <2>3, TabsFacts
    <2>5. /\ DOMAIN q = {"last", "tab", "bare", "manifest"} /\ q.last = body /\ q.tab \in Range(Tabs(body))
          /\ q.bare \subseteq {Obj(body)} /\ (q.bare # {} => q.tab = "spec") /\ q.manifest = r.manifest
      BY <2>2, <2>3, <2>4, TabEffectFacts
    <2> QED BY <1>1, <1>2, <2>3, <2>5 DEF InspectPanelRight, PanelBecomes
  <1>3. CASE p.last # NoKey
    <2>1. PICK old : InspectPanelRight(p, p.last, old) /\ (fresh \/ old = row)
      BY <1>3
    <2>2. PICK r : r = [p EXCEPT !.manifest = IF fresh THEN NoKey ELSE p.manifest]
      OBVIOUS
    <2>3. q = TabEffect(r, body, w).panel
      BY <1>3, <2>2 DEF PanelEffects
    <2>4. /\ DOMAIN r = {"last", "tab", "bare", "manifest"} /\ r.last = p.last /\ r.tab = p.tab /\ r.bare = p.bare
          /\ r.manifest \in {NoKey, row}
      BY <2>1, <2>2 DEF InspectPanelRight
    <2>5. DOMAIN r = {"last", "tab", "bare", "manifest"}
      BY <2>4
    <2>6. r.bare \subseteq {Obj(r.last)} /\ (r.bare # {} => r.tab = "spec") /\ r.tab \in Range(Tabs(r.last))
      BY <2>1, <2>4 DEF InspectPanelRight
    <2>7. /\ DOMAIN q = {"last", "tab", "bare", "manifest"} /\ q.last = body /\ q.tab \in Range(Tabs(body))
          /\ q.bare \subseteq {Obj(body)} /\ (q.bare # {} => q.tab = "spec") /\ q.manifest = r.manifest
      BY ONLY <2>3, <2>5, <2>6, TabEffectFacts
    <2>8. r.last = body => q.tab = r.tab
      BY ONLY <2>3, <2>5, <2>6, TabEffectFacts
    <2> QED BY <2>4, <2>7, <2>8 DEF InspectPanelRight, PanelBecomes
  <1> QED BY <1>2, <1>3

(* Requests that were given up do not count. *)
LEMMA GiveUpFacts ==
  ASSUME NEW calls \in Seq(DetailCalls)
  PROVE  GiveUp(calls) \in Seq(DetailCalls) /\ NoneLive(GiveUp(calls)) /\ DOMAIN GiveUp(calls) = DOMAIN calls
  <1>1. PICK s : s = GiveUp(calls)
    OBVIOUS
  <1>2. DOMAIN s = DOMAIN calls /\ \A i \in DOMAIN calls : s[i] = [calls[i] EXCEPT !.live = FALSE]
    BY <1>1 DEF GiveUp
  <1>3. ASSUME NEW i \in DOMAIN calls PROVE s[i] \in DetailCalls /\ s[i].live = FALSE
    <2>1. calls[i] \in DetailCalls
      OBVIOUS
    <2> QED BY <1>2, <2>1 DEF DetailCalls
  <1>4. DOMAIN s = 1 .. Len(calls) /\ Len(calls) \in Nat
    BY <1>2
  <1>5. s \in Seq(DetailCalls)
    <2>1. s = [i \in 1 .. Len(calls) |-> s[i]]
      BY <1>1, <1>4 DEF GiveUp
    <2>2. s \in [1 .. Len(calls) -> DetailCalls]
      BY <1>2, <1>3, <1>4, <2>1
    <2> QED BY <1>4, <2>2
  <1> QED BY <1>1, <1>2, <1>3, <1>5 DEF NoneLive

(* One more request, the only one that counts *)
LEMMA AskFacts ==
  ASSUME NEW calls \in Seq(DetailCalls), NoneLive(calls), NEW row \in InspectKeys,
         NEW asks, asks = Append(calls, [key |-> row, live |-> TRUE])
  PROVE  /\ asks \in Seq(DetailCalls) /\ \E i \in DOMAIN asks : asks[i].live
         /\ \A i \in DOMAIN asks : asks[i].live => asks[i].key = row /\ \A j \in DOMAIN asks : asks[j].live => j = i
  <1>1. PICK c : c = [key |-> row, live |-> TRUE]
    OBVIOUS
  <1>2. c \in DetailCalls /\ c.live = TRUE /\ c.key = row
    BY <1>1 DEF DetailCalls
  <1>3. asks = Append(calls, c)
    BY <1>1
  <1>4. PICK n \in Nat : n = Len(calls)
    OBVIOUS
  <1>5. asks \in Seq(DetailCalls) /\ Len(asks) = n + 1 /\ (\A i \in 1 .. n : asks[i] = calls[i]) /\ asks[n + 1] = c
    BY <1>2, <1>3, <1>4, AppendProperties
  <1>6. DOMAIN asks = 1 .. n + 1 /\ DOMAIN calls = 1 .. n
    BY <1>4, <1>5
  <1>7. \A i \in DOMAIN asks : asks[i].live => i = n + 1
    BY <1>5, <1>6 DEF NoneLive
  <1> QED BY <1>2, <1>5, <1>6, <1>7

(* The same after a step to what agrees *)
LEMMA InspectInvNext ==
  ASSUME NEW b, NEW g, NEW d, NEW calls, NEW p, InspectRight(b, g, d, calls, p),
         bench' = b, given' = g, detail' = d, asked' = calls, panel' = p
  PROVE  InspectInv'
  BY DEF InspectInv

(* A commit of the page *)
LEMMA CommitFacts ==
  ASSUME InspectInv, NEW b, NEW g, BenchTypes(b, g), b.on = TRUE, b.pinned => b.focus # NoKey,
         NEW mounts \in BOOLEAN, mounts = ~ bench.on,
         b.pinned /\ ~ mounts /\ bench.pinned /\ b.focus = bench.focus => b.key # NoKey,
         BenchCommit(b, g, detail, asked, panel, wish, mounts)
  PROVE  /\ InspectInv' /\ bench' = BenchEffects(bench, b, g, mounts) /\ given' = g
         /\ panel.last # NoKey /\ panel'.last = panel.last => panel'.tab = panel.tab
         /\ panel'.last # NoKey => panel'.tab \in Range(Tabs(panel'.last))
  <1>1. BenchRight(bench, given) /\ asked \in Seq(DetailCalls)
    BY DEF InspectInv, InspectRight
  <1>2. PICK nb : nb = BenchEffects(bench, b, g, mounts)
    OBVIOUS
  <1>3. BenchRight(nb, g) /\ nb.on = TRUE
    <2>1. bench.pinned \in BOOLEAN
      BY <1>1 DEF BenchRight, BenchTypes
    <2>2. BenchRight(nb, g) /\ SameBut(nb, b)
      BY <1>2, <2>1, EffectsFacts
    <2> QED BY <2>2 DEF SameBut
  <1>4. PICK row : row = inspectRow(nb, g)
    OBVIOUS
  <1>5. row \in InspectKeys \cup {NoKey}
    BY <1>3, <1>4, RowFacts DEF BenchRight
  <1>6. PICK old : old = IF mounts THEN NoKey ELSE inspectRow(bench, given)
    OBVIOUS
  <1>7. /\ old # NoKey => DetailRight(detail, asked, old) /\ InspectPanelRight(panel, BodyOf(detail, old), old)
        /\ old = NoKey => detail = NoDetail /\ NoneLive(asked) /\ panel = NoPanel
    BY <1>6 DEF InspectInv, InspectRight
  <1>8. PICK fresh : fresh = (row # old)
    OBVIOUS
  <1>9. PICK nd : nd = IF row = NoKey THEN NoDetail ELSE IF fresh THEN [detail EXCEPT !.loading = TRUE, !.failed = FALSE] ELSE detail
    OBVIOUS
  <1>10. PICK ncalls : ncalls = IF ~ fresh THEN asked
                                ELSE IF row = NoKey THEN GiveUp(asked) ELSE Append(GiveUp(asked), [key |-> row, live |-> TRUE])
    OBVIOUS
  <1>11. PICK np : np = PanelEffects(panel, row, nd, wish, fresh).panel
    OBVIOUS
  <1>12. bench' = nb /\ given' = g /\ detail' = nd /\ asked' = ncalls /\ panel' = np
    BY <1>2, <1>4, <1>6, <1>8, <1>9, <1>10, <1>11 DEF BenchCommit
  <1>13. GiveUp(asked) \in Seq(DetailCalls) /\ NoneLive(GiveUp(asked))
    BY <1>1, GiveUpFacts
  <1>14. PICK body : body = BodyOf(nd, row)
    OBVIOUS
  <1>15. CASE row = NoKey
    <2>1. nd = NoDetail /\ NoneLive(ncalls) /\ ncalls \in Seq(DetailCalls)
      BY <1>1, <1>7, <1>8, <1>9, <1>10, <1>13, <1>15
    <2>2. np = NoPanel
      BY <1>11, <1>15 DEF PanelEffects
    <2>3. InspectRight(nb, g, nd, ncalls, np)
      BY <1>3, <1>4, <1>15, <2>1, <2>2 DEF InspectRight
    <2>4. InspectInv'
      BY <1>12, <2>3, InspectInvNext
    <2>5. panel'.last = NoKey
      BY <1>12, <2>2 DEF NoPanel
    <2> QED BY <1>2, <1>12, <2>4, <2>5
  <1>16. CASE row # NoKey
    <2>1. row \in InspectKeys
      BY <1>5, <1>16
    <2>2. DOMAIN detail = {"of", "loading", "failed"} /\ detail.of \in InspectKeys \cup {NoKey}
      BY <1>7 DEF DetailRight, NoDetail
    <2>3. ncalls \in Seq(DetailCalls) /\ DetailRight(nd, ncalls, row)
      <3>1. CASE row # old
        <4>1. nd = [detail EXCEPT !.loading = TRUE, !.failed = FALSE]
          BY <1>8, <1>9, <1>16, <3>1
        <4>2. DOMAIN nd = {"of", "loading", "failed"} /\ nd.loading = TRUE /\ nd.of = detail.of
          BY <2>2, <4>1
        <4>3. ncalls = Append(GiveUp(asked), [key |-> row, live |-> TRUE])
          BY <1>8, <1>10, <1>16, <3>1
        <4>4. /\ ncalls \in Seq(DetailCalls) /\ \E i \in DOMAIN ncalls : ncalls[i].live
              /\ \A i \in DOMAIN ncalls : ncalls[i].live => ncalls[i].key = row /\ \A j \in DOMAIN ncalls : ncalls[j].live => j = i
          BY ONLY <1>13, <2>1, <4>3, AskFacts
        <4> QED BY <2>2, <4>2, <4>4 DEF DetailRight
      <3>2. CASE row = old
        <4>1. nd = detail /\ ncalls = asked
          BY <1>8, <1>9, <1>10, <1>16, <3>2
        <4> QED BY <1>1, <1>7, <1>16, <3>2, <4>1
      <3> QED BY <3>1, <3>2
    <2>4. panel.last # NoKey => InspectPanelRight(panel, panel.last, old) /\ (fresh \/ old = row)
      <3>1. old # NoKey => panel.last = BodyOf(detail, old)
        BY <1>7 DEF InspectPanelRight
      <3>2. old = NoKey => panel.last = NoKey
        BY <1>7 DEF NoPanel
      <3> QED BY <1>7, <1>8, <3>1, <3>2
    <2>5. InspectPanelRight(np, body, row) /\ (panel.last = body => np.tab = panel.tab)
      <3>1. fresh \in BOOLEAN
        BY <1>8
      <3>2. panel.last # NoKey => \E o : InspectPanelRight(panel, panel.last, o) /\ (fresh \/ o = row)
        BY <2>4
      <3>3. PanelBecomes(panel, np, body, row)
        BY ONLY <1>11, <1>14, <1>16, <3>1, <3>2, PanelFacts
      <3> QED BY <3>3 DEF PanelBecomes
    <2>6. InspectRight(nb, g, nd, ncalls, np)
      BY <1>3, <1>4, <1>14, <1>16, <2>3, <2>5 DEF InspectRight
    <2>7. InspectInv'
      BY <1>12, <2>6, InspectInvNext
    <2> QED BY <1>2, <1>12, <2>5, <2>7 DEF InspectPanelRight
  <1> QED BY <1>15, <1>16

(* What no step does *)
SelectionStep ==
  /\ bench.on /\ bench'.on /\ bench'.cat # bench.cat /\ ~ bench.pinned /\ ~ bench'.pinned
       /\ bench.key \in Range(bench'.cat.keys) => bench'.key = bench.key
  /\ bench.pinned /\ bench'.pinned /\ bench'.focus = bench.focus /\ given' # given => bench'.key = bench.key

TabStep ==
  /\ panel'.last = panel.last /\ panel.last # NoKey /\ detail' # detail => panel'.tab = panel.tab
  /\ panel'.last # NoKey => panel'.tab \in Range(Tabs(panel'.last))

InspectKeeps == InspectInv' /\ SelectionStep /\ TabStep

(* What the invariant says, by parts *)
LEMMA InvFacts ==
  ASSUME InspectInv
  PROVE  /\ BenchRight(bench, given) /\ BenchTypes(bench, given) /\ asked \in Seq(DetailCalls) /\ bench.on \in BOOLEAN /\ bench.pinned \in BOOLEAN
         /\ inspectRow(bench, given) \in InspectKeys \cup {NoKey}
         /\ bench.on = FALSE \/ inspectRow(bench, given) = NoKey => detail = NoDetail /\ NoneLive(asked) /\ panel = NoPanel
         /\ bench.on = TRUE /\ inspectRow(bench, given) # NoKey =>
              /\ DetailRight(detail, asked, inspectRow(bench, given))
              /\ InspectPanelRight(panel, BodyOf(detail, inspectRow(bench, given)), inspectRow(bench, given))
         /\ panel.last # NoKey => panel.tab \in Range(Tabs(panel.last))
  <1>1. BenchRight(bench, given) /\ asked \in Seq(DetailCalls)
    BY DEF InspectInv, InspectRight
  <1>2. BenchTypes(bench, given) /\ bench.on \in BOOLEAN /\ bench.pinned \in BOOLEAN
    BY <1>1 DEF BenchRight, BenchTypes
  <1>3. inspectRow(bench, given) \in InspectKeys \cup {NoKey}
    BY <1>2, RowFacts
  <1>4. /\ bench.on = FALSE \/ inspectRow(bench, given) = NoKey => detail = NoDetail /\ NoneLive(asked) /\ panel = NoPanel
        /\ bench.on = TRUE /\ inspectRow(bench, given) # NoKey =>
              /\ DetailRight(detail, asked, inspectRow(bench, given))
              /\ InspectPanelRight(panel, BodyOf(detail, inspectRow(bench, given)), inspectRow(bench, given))
    BY DEF InspectInv, InspectRight
  <1>5. panel.last # NoKey => panel.tab \in Range(Tabs(panel.last))
    BY <1>2, <1>4 DEF InspectPanelRight, NoPanel
  <1> QED BY <1>1, <1>2, <1>3, <1>4, <1>5

(* A commit of the page keeps what is selected and the tab. *)
LEMMA BenchCommitKeeps ==
  ASSUME InspectInv, NEW b, NEW g, BenchTypes(b, g), b.on = TRUE, b.cat = bench.cat, b.pinned => b.focus # NoKey,
         NEW mounts \in BOOLEAN, mounts = ~ bench.on,
         b.pinned /\ ~ mounts /\ bench.pinned /\ b.focus = bench.focus => b.key # NoKey,
         g = given \/ (~ mounts /\ b = bench /\ (g.rows = given.rows \/ g.list = given.list)),
         BenchCommit(b, g, detail, asked, panel, wish, mounts)
  PROVE  InspectKeeps
  <1>1. /\ InspectInv' /\ bench' = BenchEffects(bench, b, g, mounts) /\ given' = g
        /\ panel.last # NoKey /\ panel'.last = panel.last => panel'.tab = panel.tab
        /\ panel'.last # NoKey => panel'.tab \in Range(Tabs(panel'.last))
    BY CommitFacts
  <1>2. PICK n : n = BenchEffects(bench, b, g, mounts)
    OBVIOUS
  <1>3. bench.on \in BOOLEAN /\ bench.pinned \in BOOLEAN /\ BenchRight(bench, given)
    BY InvFacts
  <1>4. /\ SameBut(n, b)
        /\ n.cat = IF ~ b.pinned /\ (mounts \/ bench.pinned \/ g.list # given.list) THEN g.list ELSE b.cat
        /\ ~ b.pinned /\ n.cat # b.cat /\ b.key \in Range(n.cat.keys)
              /\ (b.cat = NotListed /\ g.rows = {} => b.key = NoKey) => n.key = b.key
        /\ b.pinned /\ bench.pinned /\ ~ mounts /\ b.focus = bench.focus => n.key = b.key
    <2>1. SameBut(n, b) /\ Settled(n, b, g, mounts)
      BY <1>2, <1>3, EffectsFacts
    <2> QED BY <2>1 DEF Settled
  <1>5. bench' = n /\ bench'.pinned = b.pinned
    BY <1>1, <1>2, <1>4 DEF SameBut
  <1>6. ASSUME bench.on, bench'.cat # bench.cat, ~ bench.pinned, ~ bench'.pinned, bench.key \in Range(bench'.cat.keys)
        PROVE  bench'.key = bench.key
    <2>1. ~ mounts /\ ~ b.pinned
      BY <1>5, <1>6
    <2>2. g.list # given.list
      BY <1>4, <1>5, <1>6, <2>1
    <2>3. b = bench /\ g.rows = given.rows
      BY <2>2
    <2>4. bench.cat = NotListed /\ given.rows = {} => bench.key = NoKey
      BY <1>3, <1>6 DEF BenchRight
    <2> QED BY <1>4, <1>5, <1>6, <2>1, <2>3, <2>4
  <1>7. ASSUME bench.pinned, bench'.pinned, bench'.focus = bench.focus, given' # given PROVE bench'.key = bench.key
    <2>1. ~ mounts /\ b = bench
      BY <1>1, <1>7
    <2> QED BY <1>4, <1>5, <1>7, <2>1
  <1>8. SelectionStep
    BY <1>6, <1>7 DEF SelectionStep
  <1>9. TabStep
    BY <1>1 DEF TabStep
  <1> QED BY <1>1, <1>8, <1>9 DEF InspectKeeps

(* A list or matches while the page is closed *)
LEMMA GivenKeeps ==
  ASSUME InspectInv, bench.on = FALSE, NEW g, BenchTypes(bench, g), given' = g, UNCHANGED <<bench, detail, asked, panel, wish>>
  PROVE  InspectKeeps
  <1>1. BenchRight(bench, given) /\ asked \in Seq(DetailCalls) /\ detail = NoDetail /\ NoneLive(asked) /\ panel = NoPanel
    BY InvFacts
  <1>2. BenchRight(bench, g)
    BY <1>1 DEF BenchRight
  <1>3. InspectRight(bench, g, detail, asked, panel)
    BY <1>1, <1>2 DEF InspectRight
  <1>4. InspectInv'
    BY <1>3, InspectInvNext
  <1>5. SelectionStep /\ TabStep
    BY <1>1, InvFacts DEF SelectionStep, TabStep
  <1> QED BY <1>4, <1>5 DEF InspectKeeps

(* The actions *)
LEMMA ListKeeps ==
  ASSUME InspectInv, ListReported PROVE InspectKeeps
  <1>1. PICK l \in EntityLists :
          IF bench.on THEN BenchCommit(bench, [given EXCEPT !.list = l], detail, asked, panel, wish, FALSE)
          ELSE given' = [given EXCEPT !.list = l] /\ UNCHANGED <<bench, detail, asked, panel, wish>>
    BY DEF ListReported
  <1>2. PICK g : g = [given EXCEPT !.list = l]
    OBVIOUS
  <1>3. PICK no \in BOOLEAN : no = FALSE
    OBVIOUS
  <1>4. BenchRight(bench, given) /\ bench.on \in BOOLEAN
    BY InvFacts
  <1>5. BenchTypes(bench, g) /\ g.rows = given.rows
    BY <1>2, <1>4 DEF BenchRight, BenchTypes
  <1>6. CASE bench.on = TRUE
    <2>1. BenchCommit(bench, g, detail, asked, panel, wish, no)
      BY <1>1, <1>2, <1>3, <1>6
    <2>2. (bench.pinned => bench.focus # NoKey /\ bench.key # NoKey) /\ no = ~ bench.on
      BY <1>3, <1>4, <1>6 DEF BenchRight
    <2> QED BY <1>3, <1>5, <1>6, <2>1, <2>2, BenchCommitKeeps
  <1>7. CASE bench.on = FALSE
    BY <1>1, <1>2, <1>5, <1>7, GivenKeeps
  <1> QED BY <1>4, <1>6, <1>7

LEMMA MatchesKeep ==
  ASSUME InspectInv, MatchesChange PROVE InspectKeeps
  <1>1. PICK r \in InspectRows :
          IF bench.on THEN BenchCommit(bench, [given EXCEPT !.rows = r], detail, asked, panel, wish, FALSE)
          ELSE given' = [given EXCEPT !.rows = r] /\ UNCHANGED <<bench, detail, asked, panel, wish>>
    BY DEF MatchesChange
  <1>2. PICK g : g = [given EXCEPT !.rows = r]
    OBVIOUS
  <1>3. PICK no \in BOOLEAN : no = FALSE
    OBVIOUS
  <1>4. BenchRight(bench, given) /\ bench.on \in BOOLEAN
    BY InvFacts
  <1>5. BenchTypes(bench, g) /\ g.list = given.list
    BY <1>2, <1>4, InspectAssumption DEF BenchRight, BenchTypes
  <1>6. CASE bench.on = TRUE
    <2>1. BenchCommit(bench, g, detail, asked, panel, wish, no)
      BY <1>1, <1>2, <1>3, <1>6
    <2>2. (bench.pinned => bench.focus # NoKey /\ bench.key # NoKey) /\ no = ~ bench.on
      BY <1>3, <1>4, <1>6 DEF BenchRight
    <2> QED BY <1>3, <1>5, <1>6, <2>1, <2>2, BenchCommitKeeps
  <1>7. CASE bench.on = FALSE
    BY <1>1, <1>2, <1>5, <1>7, GivenKeeps
  <1> QED BY <1>4, <1>6, <1>7

LEMMA InspectKeepsIt ==
  ASSUME InspectInv, handleInspect PROVE InspectKeeps
  <1>1. PICK o \in Objs :
          BenchCommit([bench EXCEPT !.key = Full(o), !.focus = IF ~ bench.pinned /\ o \in given.rows THEN Full(o) ELSE bench.focus],
                      given, detail, asked, panel, wish, FALSE)
    BY DEF handleInspect
  <1>2. PICK b : b = [bench EXCEPT !.key = Full(o), !.focus = IF ~ bench.pinned /\ o \in given.rows THEN Full(o) ELSE bench.focus]
    OBVIOUS
  <1>3. PICK no \in BOOLEAN : no = FALSE
    OBVIOUS
  <1>4. BenchRight(bench, given) /\ BenchTypes(bench, given) /\ bench.on = TRUE
    BY InvFacts DEF handleInspect
  <1>5. Full(o) \in InspectKeys /\ Full(o) # NoKey
    BY KeyFacts
  <1>6. BenchTypes(b, given) /\ b.on = TRUE /\ b.cat = bench.cat /\ b.key # NoKey /\ (b.pinned => b.focus # NoKey)
    BY <1>2, <1>4, <1>5 DEF BenchRight, BenchTypes
  <1>7. BenchCommit(b, given, detail, asked, panel, wish, no)
    BY <1>1, <1>2, <1>3
  <1> QED BY <1>3, <1>4, <1>6, <1>7, BenchCommitKeeps

LEMMA FocusKeeps ==
  ASSUME InspectInv, handleFocus PROVE InspectKeeps
  <1>1. PICK row : row = inspectRow(bench, given)
    OBVIOUS
  <1>2. PICK b : b = [bench EXCEPT !.focus = Full(Obj(row)), !.pinned = TRUE]
    OBVIOUS
  <1>3. PICK no \in BOOLEAN : no = FALSE
    OBVIOUS
  <1>4. BenchRight(bench, given) /\ BenchTypes(bench, given) /\ bench.on = TRUE /\ row \in InspectKeys
    BY <1>1, InvFacts DEF handleFocus
  <1>5. Full(Obj(row)) \in InspectKeys /\ Full(Obj(row)) # NoKey
    BY <1>4, KeyFacts
  <1>6. BenchTypes(b, given) /\ b.on = TRUE /\ b.cat = bench.cat /\ b.focus # NoKey /\ (bench.pinned => b.key # NoKey)
    BY <1>2, <1>4, <1>5 DEF BenchRight, BenchTypes
  <1>7. BenchCommit(b, given, detail, asked, panel, wish, no)
    BY <1>1, <1>2, <1>3 DEF handleFocus
  <1> QED BY <1>3, <1>4, <1>6, <1>7, BenchCommitKeeps

LEMMA ClearKeeps ==
  ASSUME InspectInv, handleClearFocus PROVE InspectKeeps
  <1>1. PICK b : b = [bench EXCEPT !.focus = NoKey, !.pinned = FALSE]
    OBVIOUS
  <1>2. PICK no \in BOOLEAN : no = FALSE
    OBVIOUS
  <1>3. BenchTypes(bench, given) /\ bench.on = TRUE
    BY InvFacts DEF handleClearFocus
  <1>4. BenchTypes(b, given) /\ b.on = TRUE /\ b.cat = bench.cat /\ b.pinned = FALSE
    BY <1>1, <1>3 DEF BenchTypes
  <1>5. BenchCommit(b, given, detail, asked, panel, wish, no)
    BY <1>1, <1>2 DEF handleClearFocus
  <1> QED BY <1>2, <1>3, <1>4, <1>5, BenchCommitKeeps

(* The page opens, for an object that was chosen or as it was left. *)
LEMMA OpensKeep ==
  ASSUME InspectInv, bench.on = FALSE, NEW b, DOMAIN b = DOMAIN bench, b.on = TRUE, b.pinned = bench.pinned, b.focus = bench.focus,
         b.cat = bench.cat, b.key \in InspectKeys \cup {NoKey}, NEW yes \in BOOLEAN, yes = TRUE,
         BenchCommit(b, given, NoDetail, asked, NoPanel, wish, yes)
  PROVE  InspectKeeps
  <1>1. BenchRight(bench, given) /\ BenchTypes(bench, given) /\ detail = NoDetail /\ panel = NoPanel
    BY InvFacts
  <1>2. BenchTypes(b, given) /\ (b.pinned => b.focus # NoKey)
    BY <1>1 DEF BenchRight, BenchTypes
  <1>3. BenchCommit(b, given, detail, asked, panel, wish, yes)
    BY <1>1
  <1> QED BY <1>2, <1>3, BenchCommitKeeps

LEMMA BenchOpenKeeps ==
  ASSUME InspectInv, OpenResources \/ handleResourceSelect PROVE InspectKeeps
  <1>1. BenchTypes(bench, given) /\ bench.on = FALSE
    BY InvFacts DEF OpenResources, handleResourceSelect
  <1>2. PICK yes \in BOOLEAN : yes = TRUE
    OBVIOUS
  <1>3. CASE OpenResources
    <2>1. PICK b : b = [bench EXCEPT !.on = TRUE]
      OBVIOUS
    <2>2. /\ DOMAIN b = DOMAIN bench /\ b.on = TRUE /\ b.pinned = bench.pinned /\ b.focus = bench.focus
          /\ b.cat = bench.cat /\ b.key \in InspectKeys \cup {NoKey}
      BY <1>1, <2>1 DEF BenchTypes
    <2>3. BenchCommit(b, given, NoDetail, asked, NoPanel, wish, yes)
      BY <1>2, <1>3, <2>1 DEF OpenResources
    <2> QED BY <1>1, <1>2, <2>2, <2>3, OpensKeep
  <1>4. CASE handleResourceSelect
    <2>1. PICK o \in given.rows : BenchCommit([bench EXCEPT !.key = Short(o), !.on = TRUE], given, NoDetail, asked, NoPanel, wish, TRUE)
      BY <1>4 DEF handleResourceSelect
    <2>2. PICK b : b = [bench EXCEPT !.key = Short(o), !.on = TRUE]
      OBVIOUS
    <2>3. Short(o) \in InspectKeys
      BY <1>1, KeyFacts DEF BenchTypes
    <2>4. /\ DOMAIN b = DOMAIN bench /\ b.on = TRUE /\ b.pinned = bench.pinned /\ b.focus = bench.focus
          /\ b.cat = bench.cat /\ b.key \in InspectKeys \cup {NoKey}
      BY <1>1, <2>2, <2>3 DEF BenchTypes
    <2>5. BenchCommit(b, given, NoDetail, asked, NoPanel, wish, yes)
      BY <1>2, <2>1, <2>2
    <2> QED BY <1>1, <1>2, <2>4, <2>5, OpensKeep
  <1> QED BY <1>3, <1>4

LEMMA LeaveKeeps ==
  ASSUME InspectInv, LeaveResources PROVE InspectKeeps
  <1>1. BenchRight(bench, given) /\ BenchTypes(bench, given) /\ asked \in Seq(DetailCalls)
    BY InvFacts
  <1>2. PICK b : b = [bench EXCEPT !.on = FALSE, !.cat = NotListed]
    OBVIOUS
  <1>3. /\ DOMAIN b = DOMAIN bench /\ b.on = FALSE /\ b.cat = NotListed /\ b.key = bench.key /\ b.focus = bench.focus
        /\ b.pinned = bench.pinned
    BY <1>1, <1>2 DEF BenchTypes
  <1>4. BenchRight(b, given)
    BY <1>1, <1>3 DEF BenchRight, BenchTypes
  <1>5. GiveUp(asked) \in Seq(DetailCalls) /\ NoneLive(GiveUp(asked))
    BY <1>1, GiveUpFacts
  <1>6. InspectRight(b, given, NoDetail, GiveUp(asked), NoPanel)
    BY <1>3, <1>4, <1>5 DEF InspectRight
  <1>7. bench' = b /\ given' = given /\ detail' = NoDetail /\ asked' = GiveUp(asked) /\ panel' = NoPanel
    BY <1>2 DEF LeaveResources
  <1>8. InspectInv'
    BY <1>6, <1>7, InspectInvNext
  <1>9. SelectionStep /\ TabStep
    BY <1>3, <1>7 DEF SelectionStep, TabStep, NoPanel
  <1> QED BY <1>8, <1>9 DEF InspectKeeps

LEMMA ChangesKeep ==
  ASSUME InspectInv, OpenChanges PROVE InspectKeeps
  <1>1. /\ BenchRight(bench, given) /\ BenchTypes(bench, given) /\ asked \in Seq(DetailCalls) /\ bench.on = FALSE
        /\ detail = NoDetail /\ NoneLive(asked) /\ panel = NoPanel
    BY InvFacts DEF OpenChanges
  <1>2. PICK o \in Objs : bench' = [bench EXCEPT !.key = Full(o)]
    BY DEF OpenChanges
  <1>3. PICK b : b = [bench EXCEPT !.key = Full(o)]
    OBVIOUS
  <1>4. Full(o) \in InspectKeys /\ Full(o) # NoKey
    BY KeyFacts
  <1>5. /\ DOMAIN b = DOMAIN bench /\ b.on = FALSE /\ b.cat = bench.cat /\ b.key = Full(o) /\ b.focus = bench.focus
        /\ b.pinned = bench.pinned
    BY <1>1, <1>3 DEF BenchTypes
  <1>6. BenchRight(b, given)
    BY <1>1, <1>4, <1>5 DEF BenchRight, BenchTypes
  <1>7. InspectRight(b, given, detail, asked, panel)
    BY <1>1, <1>5, <1>6 DEF InspectRight
  <1>8. bench' = b /\ UNCHANGED <<given, detail, asked, panel>>
    BY <1>2, <1>3 DEF OpenChanges
  <1>9. InspectInv'
    BY <1>7, <1>8, InspectInvNext
  <1>10. SelectionStep /\ TabStep
    BY <1>1, <1>5, <1>8 DEF SelectionStep, TabStep, NoPanel
  <1> QED BY <1>9, <1>10 DEF InspectKeeps

(* Something is chosen in the panel. *)
LEMMA ChosenKeeps ==
  ASSUME InspectInv, PanelOpen, NEW p, InspectPanelRight(p, Inspected, inspectRow(bench, given)), panel' = p,
         UNCHANGED <<bench, given, detail, asked>>
  PROVE  InspectKeeps
  <1>1. InspectRight(bench, given, detail, asked, p)
    BY DEF InspectInv, InspectRight, PanelOpen, Inspected
  <1>2. InspectInv'
    BY <1>1, InspectInvNext
  <1>3. SelectionStep /\ TabStep
    BY DEF SelectionStep, TabStep, InspectPanelRight
  <1> QED BY <1>2, <1>3 DEF InspectKeeps

LEMMA ChoicesKeep ==
  ASSUME InspectInv, SelectTab \/ RevealValue \/ ToggleManifest PROVE InspectKeeps
  <1>1. PICK row : row = inspectRow(bench, given)
    OBVIOUS
  <1>2. PICK body : body = Inspected
    OBVIOUS
  <1>3. PanelOpen /\ InspectPanelRight(panel, body, row)
    BY <1>1, <1>2 DEF InspectInv, InspectRight, PanelOpen, Inspected, SelectTab, RevealValue, ToggleManifest
  <1>4. CASE SelectTab
    <2>1. PICK t \in Range(Tabs(body)) : panel' = [panel EXCEPT !.tab = t, !.bare = IF t = panel.tab THEN panel.bare ELSE {}]
      BY <1>2, <1>4 DEF SelectTab
    <2>2. PICK q : q = [panel EXCEPT !.tab = t, !.bare = IF t = panel.tab THEN panel.bare ELSE {}]
      OBVIOUS
    <2>3. /\ DOMAIN q = {"last", "tab", "bare", "manifest"} /\ q.last = panel.last /\ q.tab = t /\ q.manifest = panel.manifest
          /\ q.bare = IF t = panel.tab THEN panel.bare ELSE {}
      BY <1>3, <2>2 DEF InspectPanelRight
    <2>4. InspectPanelRight(q, body, row)
      BY <1>3, <2>3 DEF InspectPanelRight
    <2> QED BY <1>1, <1>2, <1>3, <1>4, <2>1, <2>2, <2>4, ChosenKeeps DEF SelectTab
  <1>5. CASE RevealValue
    <2>1. PICK q : q = [panel EXCEPT !.bare = IF panel.bare = {} THEN {Obj(body)} ELSE {}]
      OBVIOUS
    <2>2. /\ DOMAIN q = {"last", "tab", "bare", "manifest"} /\ q.last = panel.last /\ q.tab = panel.tab /\ q.manifest = panel.manifest
          /\ q.bare \subseteq {Obj(body)}
      BY <1>3, <2>1 DEF InspectPanelRight
    <2>3. InspectPanelRight(q, body, row)
      BY <1>3, <1>5, <2>2 DEF InspectPanelRight, RevealValue
    <2>4. panel' = q /\ UNCHANGED <<bench, given, detail, asked>>
      BY <1>2, <1>5, <2>1 DEF RevealValue
    <2> QED BY <1>1, <1>2, <1>3, <2>3, <2>4, ChosenKeeps
  <1>6. CASE ToggleManifest
    <2>1. PICK q : q = [panel EXCEPT !.manifest = IF panel.manifest = NoKey THEN row ELSE NoKey]
      OBVIOUS
    <2>2. /\ DOMAIN q = {"last", "tab", "bare", "manifest"} /\ q.last = panel.last /\ q.tab = panel.tab /\ q.bare = panel.bare
          /\ q.manifest \in {NoKey, row}
      BY <1>3, <2>1 DEF InspectPanelRight
    <2>3. InspectPanelRight(q, body, row)
      BY <1>3, <2>2 DEF InspectPanelRight
    <2>4. panel' = q /\ UNCHANGED <<bench, given, detail, asked>>
      BY <1>1, <1>6, <2>1 DEF ToggleManifest
    <2> QED BY <1>1, <1>2, <1>3, <2>3, <2>4, ChosenKeeps
  <1> QED BY <1>4, <1>5, <1>6

(* One request is answered. *)
LEMMA AnsweredFacts ==
  ASSUME NEW calls \in Seq(DetailCalls), NEW i \in DOMAIN calls, NEW rest, rest = RemoveAt(calls, i)
  PROVE  /\ rest \in Seq(DetailCalls)
         /\ \A k \in DOMAIN rest : \E m \in DOMAIN calls : m # i /\ rest[k] = calls[m] /\ (k < i => m = k) /\ (k >= i => m = k + 1)
         /\ \A m \in DOMAIN calls : m # i => \E k \in DOMAIN rest : rest[k] = calls[m]
  <1>1. PICK n \in Nat : n = Len(calls)
    OBVIOUS
  <1>2. i \in 1 .. n /\ DOMAIN calls = 1 .. n
    BY <1>1
  <1>3. /\ rest \in Seq(DetailCalls) /\ Len(rest) = n - 1
        /\ \A k \in 1 .. n - 1 : rest[k] = IF k < i THEN calls[k] ELSE calls[k + 1]
    BY <1>1, <1>2, RemoveAtFacts
  <1>4. DOMAIN rest = 1 .. n - 1
    BY <1>3
  <1>5. ASSUME NEW k \in DOMAIN rest
        PROVE  \E m \in DOMAIN calls : m # i /\ rest[k] = calls[m] /\ (k < i => m = k) /\ (k >= i => m = k + 1)
    <2>1. CASE k < i
      <3>1. k \in DOMAIN calls /\ k # i /\ rest[k] = calls[k] /\ ~ k >= i
        BY <1>2, <1>3, <1>4, <2>1
      <3> QED BY <2>1, <3>1
    <2>2. CASE k >= i
      <3>1. k + 1 \in DOMAIN calls /\ k + 1 # i /\ rest[k] = calls[k + 1] /\ ~ k < i
        BY <1>2, <1>3, <1>4, <2>2
      <3> QED BY <2>2, <3>1
    <2> QED BY <1>2, <1>4, <2>1, <2>2
  <1>6. ASSUME NEW m \in DOMAIN calls, m # i PROVE \E k \in DOMAIN rest : rest[k] = calls[m]
    <2>1. CASE m < i
      <3>1. m \in DOMAIN rest /\ rest[m] = calls[m]
        BY <1>2, <1>3, <1>4, <2>1
      <3> QED BY <3>1
    <2>2. CASE m > i
      <3>1. m - 1 \in DOMAIN rest /\ ~ (m - 1 < i) /\ (m - 1) + 1 = m
        BY <1>2, <1>4, <2>2
      <3>2. rest[m - 1] = calls[m]
        BY <1>3, <1>4, <3>1
      <3> QED BY <3>1, <3>2
    <2> QED BY <1>2, <1>6, <2>1, <2>2
  <1> QED BY <1>3, <1>5, <1>6

LEMMA ArriveKeeps ==
  ASSUME InspectInv, DetailsArrive PROVE InspectKeeps
  <1>1. PICK i \in DOMAIN asked, ok \in BOOLEAN :
          LET c == asked[i]
              d == IF ~ c.live THEN detail ELSE [of |-> IF ok THEN c.key ELSE NoKey, loading |-> FALSE, failed |-> ~ ok]
              np == PanelEffects(panel, inspectRow(bench, given), d, wish, FALSE)
          IN  /\ detail' = d /\ asked' = RemoveAt(asked, i)
              /\ IF c.live THEN panel' = np.panel /\ wish' = np.wish ELSE UNCHANGED <<panel, wish>>
              /\ UNCHANGED <<bench, given>>
    BY DEF DetailsArrive
  <1>2. PICK row : row = inspectRow(bench, given)
    OBVIOUS
  <1>3. PICK rest : rest = RemoveAt(asked, i)
    OBVIOUS
  <1>4. BenchRight(bench, given) /\ asked \in Seq(DetailCalls) /\ row \in InspectKeys \cup {NoKey}
    BY <1>2, InvFacts
  <1>5. /\ rest \in Seq(DetailCalls)
        /\ \A k \in DOMAIN rest : \E m \in DOMAIN asked : m # i /\ rest[k] = asked[m] /\ (k < i => m = k) /\ (k >= i => m = k + 1)
        /\ \A m \in DOMAIN asked : m # i => \E k \in DOMAIN rest : rest[k] = asked[m]
    BY <1>3, <1>4, AnsweredFacts
  <1>6. asked[i].live \in BOOLEAN /\ asked[i].key \in InspectKeys
    <2>1. asked[i] \in DetailCalls
      BY <1>4
    <2> QED BY <2>1 DEF DetailCalls
  <1>7. CASE asked[i].live = FALSE
    <2>1. detail' = detail /\ asked' = rest /\ panel' = panel /\ UNCHANGED <<bench, given>>
      BY <1>1, <1>3, <1>7
    <2>2. NoneLive(asked) => NoneLive(rest)
      BY <1>5 DEF NoneLive
    <2>3. ASSUME DetailRight(detail, asked, row) PROVE DetailRight(detail, rest, row)
      <3>1. (\E k \in DOMAIN rest : rest[k].live) <=> \E m \in DOMAIN asked : asked[m].live
        BY <1>5, <1>7
      <3>2. ASSUME NEW k \in DOMAIN rest, rest[k].live
            PROVE  rest[k].key = row /\ \A j \in DOMAIN rest : rest[j].live => j = k
        <4>1. PICK m \in DOMAIN asked : rest[k] = asked[m] /\ (k < i => m = k) /\ (k >= i => m = k + 1)
          BY <1>5
        <4>2. rest[k].key = row
          BY <2>3, <3>2, <4>1 DEF DetailRight
        <4>3. ASSUME NEW j \in DOMAIN rest, rest[j].live PROVE j = k
          <5>1. PICK l \in DOMAIN asked : rest[j] = asked[l] /\ (j < i => l = j) /\ (j >= i => l = j + 1)
            BY <1>5
          <5>2. l = m
            BY <2>3, <3>2, <4>1, <4>3, <5>1 DEF DetailRight
          <5>3. k \in Nat /\ j \in Nat /\ i \in Nat
            <6>1. DOMAIN rest = 1 .. Len(rest) /\ Len(rest) \in Nat
              BY <1>5
            <6>2. DOMAIN asked = 1 .. Len(asked) /\ Len(asked) \in Nat
              BY <1>4
            <6> QED BY <6>1, <6>2
          <5> QED BY <4>1, <5>1, <5>2, <5>3
        <4> QED BY <4>2, <4>3
      <3> QED BY <2>3, <3>1, <3>2 DEF DetailRight
    <2>4. InspectRight(bench, given, detail, rest, panel)
      BY <1>2, <1>5, <2>2, <2>3 DEF InspectInv, InspectRight
    <2>5. InspectInv'
      BY <2>1, <2>4, InspectInvNext
    <2>6. SelectionStep /\ TabStep
      BY <2>1, InvFacts DEF SelectionStep, TabStep
    <2> QED BY <2>5, <2>6 DEF InspectKeeps
  <1>8. CASE asked[i].live = TRUE
    <2>1. bench.on = TRUE /\ row # NoKey
      BY <1>2, <1>8, InvFacts DEF NoneLive
    <2>2. DetailRight(detail, asked, row) /\ InspectPanelRight(panel, BodyOf(detail, row), row)
      BY <1>2, <2>1, InvFacts
    <2>3. asked[i].key = row /\ \A m \in DOMAIN asked : m # i => ~ asked[m].live
      BY <1>8, <2>2 DEF DetailRight
    <2>4. NoneLive(rest)
      BY <1>5, <2>3 DEF NoneLive
    <2>5. PICK d : d = [of |-> IF ok THEN row ELSE NoKey, loading |-> FALSE, failed |-> ~ ok]
      OBVIOUS
    <2>6. DOMAIN d = {"of", "loading", "failed"} /\ d.of \in {NoKey, row} /\ d.loading = FALSE
      BY <2>5
    <2>7. DetailRight(d, rest, row)
      BY <1>4, <2>4, <2>6 DEF DetailRight, NoneLive
    <2>8. PICK same \in BOOLEAN : same = FALSE
      OBVIOUS
    <2>9. PICK q : q = PanelEffects(panel, row, d, wish, same).panel
      OBVIOUS
    <2>10. /\ detail' = d /\ asked' = rest /\ panel' = q /\ UNCHANGED <<bench, given>>
      BY <1>1, <1>2, <1>3, <1>8, <2>3, <2>5, <2>8, <2>9
    <2>11. PICK body : body = BodyOf(d, row)
      OBVIOUS
    <2>12. panel.last # NoKey => \E old : InspectPanelRight(panel, panel.last, old) /\ (same \/ old = row)
      BY <2>2 DEF InspectPanelRight
    <2>13. PanelBecomes(panel, q, body, row)
      BY ONLY <2>1, <2>8, <2>9, <2>11, <2>12, PanelFacts
    <2>14. InspectRight(bench, given, d, rest, q)
      BY <1>2, <1>4, <1>5, <2>1, <2>7, <2>11, <2>13 DEF InspectRight, PanelBecomes
    <2>15. InspectInv'
      BY <2>10, <2>14, InspectInvNext
    <2>16. SelectionStep
      BY <2>10 DEF SelectionStep
    <2>17. TabStep
      BY <2>10, <2>13 DEF TabStep, PanelBecomes, InspectPanelRight
    <2> QED BY <2>15, <2>16, <2>17 DEF InspectKeeps
  <1> QED BY <1>6, <1>7, <1>8

LEMMA InspectBegins == InspectInit => InspectInv
  <1> SUFFICES ASSUME InspectInit PROVE InspectInv
    OBVIOUS
  <1>1. BenchRight(bench, given)
    BY DEF InspectInit, BenchRight, BenchTypes
  <1>2. asked \in Seq(DetailCalls) /\ NoneLive(asked)
    BY DEF InspectInit, NoneLive
  <1> QED BY <1>1, <1>2 DEF InspectInit, InspectInv, InspectRight

LEMMA InspectSteps == InspectInv /\ [InspectNext]_inspectVars => InspectInv' /\ [SelectionStep /\ TabStep]_inspectVars
  <1> SUFFICES ASSUME InspectInv, [InspectNext]_inspectVars PROVE InspectInv' /\ [SelectionStep /\ TabStep]_inspectVars
    OBVIOUS
  <1>1. CASE UNCHANGED inspectVars
    <2>1. UNCHANGED <<bench, given, detail, asked, panel>>
      BY <1>1 DEF inspectVars
    <2>2. InspectRight(bench, given, detail, asked, panel)
      BY DEF InspectInv
    <2>3. InspectInv'
      BY <2>1, <2>2, InspectInvNext
    <2> QED BY <1>1, <2>3
  <1>2. CASE OpenResources \/ LeaveResources \/ handleResourceSelect \/ OpenChanges
    BY <1>2, BenchOpenKeeps, LeaveKeeps, ChangesKeep DEF InspectKeeps
  <1>3. CASE ListReported \/ MatchesChange
    BY <1>3, ListKeeps, MatchesKeep DEF InspectKeeps
  <1>4. CASE handleInspect \/ handleFocus \/ handleClearFocus
    BY <1>4, InspectKeepsIt, FocusKeeps, ClearKeeps DEF InspectKeeps
  <1>5. CASE DetailsArrive \/ SelectTab \/ RevealValue \/ ToggleManifest
    BY <1>5, ArriveKeeps, ChoicesKeep DEF InspectKeeps
  <1> QED BY <1>1, <1>2, <1>3, <1>4, <1>5 DEF InspectNext

(* The invariant is stronger than the two properties. *)
LEMMA InspectOwn == InspectInv => DetailOwn /\ NothingCarriedOver
  <1> SUFFICES ASSUME InspectInv PROVE DetailOwn /\ NothingCarriedOver
    OBVIOUS
  <1>1. PICK row : row = inspectRow(bench, given)
    OBVIOUS
  <1>2. bench.on \in BOOLEAN
    BY InvFacts
  <1>3. CASE bench.on = TRUE /\ row # NoKey
    <2>1. PICK body : body = BodyOf(detail, row)
      OBVIOUS
    <2>2. DetailRight(detail, asked, row) /\ InspectPanelRight(panel, body, row)
      BY <1>1, <1>3, <2>1, InvFacts
    <2>3. Inspected = body /\ (~ detail.loading => body = row)
      BY <1>1, <2>1, <2>2 DEF Inspected, BodyOf, DetailRight
    <2>4. DetailOwn
      BY <1>1, <2>2, <2>3 DEF DetailOwn, DetailRight
    <2>5. NothingCarriedOver
      BY <1>1, <2>2, <2>3 DEF NothingCarriedOver, InspectPanelRight
    <2> QED BY <2>4, <2>5
  <1>4. CASE ~ (bench.on = TRUE /\ row # NoKey)
    <2>1. detail = NoDetail /\ NoneLive(asked) /\ ~ PanelOpen
      BY <1>1, <1>2, <1>4, InvFacts DEF PanelOpen
    <2> QED BY <2>1 DEF DetailOwn, NothingCarriedOver, NoDetail, NoneLive
  <1> QED BY <1>3, <1>4

(* Whatever lists, matches, clicks, pinned focuses and late answers come in whatever
   order: details are the inspected row's unless its own are under way, no revealed
   value and no open manifest passes to another object, a list or match that changes
   keeps what is inspected, and answers keep the tab (ResourcesWorkbenchView.jsx:564,
   ComponentInspectPanel.jsx). *)
THEOREM InspectorSafe == PagesSpec => InspectHolds
  <1> DEFINE allVars == <<area, shellVars, pageVars, streamVars, patternVars, prefsVars, settingsVars, settingVars, inspectVars>>
  <1>1. PagesInit => InspectInv
    BY InspectBegins DEF PagesInit
  <1>2. [PagesNext]_allVars => [InspectNext]_inspectVars
    BY DEF PagesNext, Runs
  <1>3. InspectInv /\ [PagesNext]_allVars => InspectInv' /\ [SelectionStep /\ TabStep]_inspectVars
    BY <1>2, InspectSteps
  <1>4. PagesSpec => [](DetailOwn /\ NothingCarriedOver)
    BY <1>1, <1>3, InspectOwn, PTL DEF PagesSpec
  <1>5. [SelectionStep /\ TabStep]_inspectVars => [SelectionStep]_inspectVars /\ [TabStep]_inspectVars
    OBVIOUS
  <1>6. PagesSpec => [][SelectionStep]_inspectVars /\ [][TabStep]_inspectVars
    BY <1>1, <1>3, <1>5, PTL DEF PagesSpec
  <1>7. [][SelectionStep]_inspectVars => SelectionKept
    BY PTL DEF SelectionKept, SelectionStep
  <1>8. [][TabStep]_inspectVars => TabKept
    BY PTL DEF TabKept, TabStep
  <1> QED BY <1>4, <1>6, <1>7, <1>8, PTL DEF InspectHolds
=============================================================================
