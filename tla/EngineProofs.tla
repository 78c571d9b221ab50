----------------------------- MODULE EngineProofs -----------------------------
(***************************************************************************)
(* Proofs about what goes on in the process beside the window: the ring    *)
(* and the bus of an investigation (LiveSession), and the follows of a log *)
(* tail (LogStreamer).                                                     *)
(***************************************************************************)
EXTENDS LiveSession, LogStreamer, KeptProofs

-----------------------------------------------------------------------------
(* Min and Max are the least and the greatest of a set of numbers. *)
LEMMA MinOf ==
  ASSUME NEW T, T \subseteq Nat, T # {}
  PROVE  Min(T) \in T /\ \A y \in T : Min(T) <= y
BY NatHasMin DEF Min

(* Without its i-th element a sequence is one shorter, and what followed moves up. *)
LEMMA RemoveAtFacts ==
  ASSUME NEW S, NEW s \in Seq(S), NEW i \in 1..Len(s)
  PROVE  /\ RemoveAt(s, i) \in Seq(S) /\ Len(RemoveAt(s, i)) = Len(s) - 1
         /\ \A k \in 1..Len(s) - 1 : RemoveAt(s, i)[k] = IF k < i THEN s[k] ELSE s[k + 1]
<1> DEFINE a == SubSeq(s, 1, i - 1)
           b == SubSeq(s, i + 1, Len(s))
<1>1. Len(s) \in Nat /\ i \in Nat /\ \A k \in 1..Len(s) : s[k] \in S OBVIOUS
<1>2. /\ a \in Seq(S) /\ Len(a) = i - 1 /\ \A k \in 1..i - 1 : a[k] = s[k]
  <2>1. \A k \in 1..i - 1 : s[k] \in S BY <1>1
  <2>2. 1 \in Int /\ i - 1 \in Int BY <1>1
  <2>3. /\ a \in Seq(S) /\ Len(a) = IF 1 <= i - 1 THEN i - 1 - 1 + 1 ELSE 0
        /\ \A k \in 1..i - 1 - 1 + 1 : a[k] = s[1 + k - 1]
    BY <2>1, <2>2, SubSeqProperties
  <2>4. QED BY <2>3, <1>1
<1>3. /\ b \in Seq(S) /\ Len(b) = Len(s) - i /\ \A k \in 1..Len(s) - i : b[k] = s[i + k]
  <2>1. \A k \in i + 1..Len(s) : s[k] \in S BY <1>1
  <2>2. i + 1 \in Int /\ Len(s) \in Int BY <1>1
  <2>3. /\ b \in Seq(S) /\ Len(b) = IF i + 1 <= Len(s) THEN Len(s) - (i + 1) + 1 ELSE 0
        /\ \A k \in 1..Len(s) - (i + 1) + 1 : b[k] = s[i + 1 + k - 1]
    BY <2>1, <2>2, SubSeqProperties
  <2>4. QED BY <2>3, <1>1
<1> HIDE DEF a, b
<1>4. /\ a \o b \in Seq(S) /\ Len(a \o b) = Len(a) + Len(b)
      /\ \A k \in 1..Len(a) + Len(b) : (a \o b)[k] = IF k <= Len(a) THEN a[k] ELSE b[k - Len(a)]
  BY <1>2, <1>3, ConcatProperties
<1>5. RemoveAt(s, i) = a \o b BY DEF RemoveAt, a, b
<1>6. \A k \in 1..Len(s) - 1 : (a \o b)[k] = IF k < i THEN s[k] ELSE s[k + 1]
  <2>1. SUFFICES ASSUME NEW k \in 1..Len(s) - 1 PROVE (a \o b)[k] = IF k < i THEN s[k] ELSE s[k + 1] OBVIOUS
  <2>2. CASE k < i BY <2>2, <1>1, <1>2, <1>3, <1>4
  <2>3. CASE ~ k < i
    <3>1. k - (i - 1) \in 1..Len(s) - i /\ i + (k - (i - 1)) = k + 1 BY <2>3, <1>1
    <3>2. (a \o b)[k] = b[k - (i - 1)] BY <2>3, <1>1, <1>2, <1>3, <1>4
    <3>3. QED BY <3>1, <3>2, <1>3, <2>3
  <2>4. QED BY <2>2, <2>3
<1>7. Len(a \o b) = Len(s) - 1 BY <1>1, <1>2, <1>3, <1>4
<1>8. QED BY <1>4, <1>5, <1>6, <1>7

-----------------------------------------------------------------------------
(* The ring of an investigation. *)
Sources    == {"log", "event", "other"}
Severities == {"info", "warning", "high", "critical"}
Subjects   == {e.about : e \in EvidencePool} \cup {"HypothesisChanged", "Recovered"}
Entry      == [src : Sources, sev : Severities, about : Subjects, at : Nat \ {0}]
Ring       == [entries : Seq(Entry), added : Nat, lost : Nat \X Nat]

\* x stands for everything of its fingerprint, and is newer than y
Newer(x, y) == x.at > y.at /\ (x.src # "log" => <<x.src, x.about>> # <<y.src, y.about>>)

\* Newest first, and nothing but a log line of a subject twice.
Ordered(r) ==
  /\ r \in Ring
  /\ \A i \in 1..Len(r.entries) : r.entries[i].at <= r.added
  /\ \A i, j \in 1..Len(r.entries) : i < j => Newer(r.entries[i], r.entries[j])

\* The ring between two of its operations: a place given up is below all that is
\* kept, and until one was given up, nothing was.
RingOK(r) ==
  /\ Ordered(r) /\ Len(r.entries) <= RingSize
  /\ \A i \in 1..Len(r.entries) : Below(r.lost, Place(r.entries[i]))
  /\ Len(r.entries) < RingSize => r.lost = <<0, 0>>

(* What evict compares first is one of five ranks. *)
LEMMA WorthIsNat == \A x \in Entry : Worth(x) \in 0..4
  BY DEF Worth, Entry, Sources, Severities

(* Evidence that is more severe is worth no less. *)
LEMMA WorthMonotone ==
  ASSUME NEW x \in Entry, NEW y \in Entry, x.src = y.src, severityRank(x.sev) >= severityRank(y.sev)
  PROVE  Worth(x) >= Worth(y)
BY DEF Worth, Entry, Sources, Severities, severityRank

(* What is given up is the oldest of what is worth least, so it is below all
   that stays. *)
LEMMA EvictedOK ==
  ASSUME NEW r, Ordered(r), Len(r.entries) <= RingSize + 1,
         \A i \in 1..Len(r.entries) : i > 1 \/ Len(r.entries) <= RingSize => Below(r.lost, Place(r.entries[i])),
         Len(r.entries) < RingSize => r.lost = <<0, 0>>
  PROVE  RingOK(Evicted(r)) /\ Evicted(r).added = r.added
<1> DEFINE es == r.entries
           worths == {Worth(x) : x \in Range(es)}
           I == {i \in 1..Len(es) : Worth(es[i]) = Min(worths)}
           i == SelectLastInSeq(es, LAMBDA x : Worth(x) = Min(worths))
<1>1. es \in Seq(Entry) /\ r.added \in Nat /\ r.lost \in Nat \X Nat /\ Len(es) \in Nat /\ RingSize \in Nat
  BY LiveAssumption DEF Ordered, Ring
<1>2. CASE Len(es) <= RingSize
  <2>1. Evicted(r) = r BY <1>2 DEF Evicted
  <2>2. QED BY <2>1, <1>2 DEF RingOK
<1>3. CASE ~ Len(es) <= RingSize
  <2>1. Len(es) = RingSize + 1 BY <1>1, <1>3
  <2>2. /\ i \in 1..Len(es)
        /\ \A m \in 1..Len(es) : Worth(es[i]) <= Worth(es[m]) /\ (m > i => Worth(es[i]) # Worth(es[m]))
    <3>1. \A m \in 1..Len(es) : Worth(es[m]) \in Nat
      BY <1>1, WorthIsNat
    <3>2. worths = {Worth(es[m]) : m \in 1..Len(es)} BY <1>1 DEF Range
    <3>3. worths \subseteq Nat /\ Worth(es[1]) \in worths
      <4>1. 1 \in 1..Len(es) BY <2>1, <1>1
      <4>2. QED BY <3>1, <3>2, <4>1
    <3> HIDE DEF worths
    <3>4. Min(worths) \in worths /\ \A y \in worths : Min(worths) <= y BY <3>3, MinOf
    <3>5. I # {} /\ I \subseteq 0..Len(es)
      <4>1. PICK m \in 1..Len(es) : Worth(es[m]) = Min(worths) BY <3>2, <3>4
      <4>2. m \in I BY <4>1
      <4>3. \A l \in I : l \in 0..Len(es) BY <1>1
      <4>4. QED BY <4>2, <4>3
    <3>6. Max(I) \in I /\ \A y \in I : Max(I) >= y BY <3>5, <1>1, MaxOf
    <3>7. i = Max(I) BY <3>5 DEF SelectLastInSeq
    <3>8. i \in 1..Len(es) /\ Worth(es[i]) = Min(worths) BY <3>6, <3>7
    <3>9. \A m \in 1..Len(es) : Worth(es[i]) <= Worth(es[m]) BY <3>2, <3>4, <3>8
    <3>10. \A m \in 1..Len(es) : m > i => Worth(es[i]) # Worth(es[m])
      <4>1. SUFFICES ASSUME NEW m \in 1..Len(es), m > i, Worth(es[i]) = Worth(es[m]) PROVE FALSE OBVIOUS
      <4>2. m \in I BY <4>1, <3>8
      <4>3. i >= m BY <4>2, <3>6, <3>7
      <4>4. i \in Nat /\ m \in Nat BY <1>1, <3>8
      <4>5. QED BY <4>1, <4>3, <4>4
    <3>11. QED BY <3>8, <3>9, <3>10
  <2> DEFINE y == es[i]
             lost == IF Below(r.lost, Place(y)) THEN Place(y) ELSE r.lost
             rest == RemoveAt(es, i)
  <2>3. Evicted(r) = [entries |-> rest, added |-> r.added, lost |-> lost]
    <3>1. r = [entries |-> es, added |-> r.added, lost |-> r.lost] BY DEF Ordered, Ring
    <3>2. Evicted(r) = [r EXCEPT !.entries = rest, !.lost = lost] BY <1>3 DEF Evicted
    <3> HIDE DEF es, rest, lost
    <3>3. QED BY <3>1, <3>2
  <2> HIDE DEF i
  <2>4. /\ rest \in Seq(Entry) /\ Len(rest) = RingSize
        /\ \A k \in 1..RingSize : rest[k] = IF k < i THEN es[k] ELSE es[k + 1]
    <3>1. /\ rest \in Seq(Entry) /\ Len(rest) = Len(es) - 1
          /\ \A k \in 1..Len(es) - 1 : rest[k] = IF k < i THEN es[k] ELSE es[k + 1]
      BY <2>2, <1>1, RemoveAtFacts
    <3>2. Len(es) - 1 = RingSize BY <2>1, <1>1
    <3>3. QED BY <3>1, <3>2
  <2>5. y \in Entry /\ Place(y) \in Nat \X Nat
    <3>1. y \in Entry BY <1>1, <2>2
    <3>2. Worth(y) \in Nat /\ y.at \in Nat BY <3>1, WorthIsNat DEF Entry
    <3>3. QED BY <3>1, <3>2 DEF Place
  <2>6. \A m \in 1..Len(es) : m # i => Below(lost, Place(es[m]))
    <3>1. SUFFICES ASSUME NEW m \in 1..Len(es), m # i PROVE Below(lost, Place(es[m])) OBVIOUS
    <3> DEFINE z == es[m]
    <3>2. z \in Entry /\ Worth(z) \in Nat /\ z.at \in Nat /\ Worth(y) \in Nat /\ y.at \in Nat
      <4>1. z \in Entry /\ y \in Entry BY <1>1, <2>5
      <4> HIDE DEF z, y
      <4>2. z.at \in Nat /\ y.at \in Nat BY <4>1 DEF Entry
      <4>3. Worth(z) \in Nat /\ Worth(y) \in Nat BY <4>1, WorthIsNat
      <4>4. QED BY <4>1, <4>2, <4>3
    <3>3. Worth(y) < Worth(z) \/ (Worth(y) = Worth(z) /\ y.at < z.at)
      <4>1. CASE m > i BY <4>1, <2>2, <3>2
      <4>2. CASE m < i
        <5>1. Newer(z, y) BY <4>2, <2>2 DEF Ordered
        <5>2. QED BY <5>1, <2>2, <3>2 DEF Newer
      <4>3. QED BY <4>1, <4>2, <3>1, <2>2, <1>1
    <3>4. i > 1 => Below(r.lost, Place(y)) BY <2>2
    <3>5. m > 1 => Below(r.lost, Place(z)) OBVIOUS
    <3>6. r.lost[1] \in Nat /\ r.lost[2] \in Nat BY <1>1
    <3>7. i > 1 \/ m > 1 BY <3>1, <2>2, <1>1
    <3>8. Place(y) = <<Worth(y), y.at>> /\ Place(z) = <<Worth(z), z.at>> BY DEF Place
    <3> HIDE DEF y, z, es, i
    <3>9. Below(Place(y), Place(z)) BY <3>2, <3>3, <3>8 DEF Below
    <3>10. Below(r.lost, Place(z))
      <4>1. CASE m > 1 BY <4>1, <3>5
      <4>2. CASE i > 1
        <5>1. Below(r.lost, Place(y)) BY <4>2, <3>4
        <5>2. QED BY <5>1, <3>2, <3>3, <3>6, <3>8 DEF Below
      <4>3. QED BY <4>1, <4>2, <3>7
    <3>11. lost = Place(y) \/ lost = r.lost BY Zenon DEF lost
    <3> HIDE DEF lost
    <3>12. QED BY <3>9, <3>10, <3>11, Zenon DEF z, es
  <2>7. \A k \in 1..RingSize : \E m \in 1..Len(es) : m # i /\ rest[k] = es[m] /\ m = IF k < i THEN k ELSE k + 1
    <3>1. SUFFICES ASSUME NEW k \in 1..RingSize
                   PROVE  \E m \in 1..Len(es) : m # i /\ rest[k] = es[m] /\ m = IF k < i THEN k ELSE k + 1
      OBVIOUS
    <3>2. k \in 1..Len(es) /\ k + 1 \in 1..Len(es) BY <2>1, <1>1
    <3>3. QED BY <3>2, <2>4, <2>2, <1>1
  <2>8. \A k \in 1..RingSize : rest[k].at <= r.added /\ Below(lost, Place(rest[k])) BY <2>6, <2>7 DEF Ordered
  <2>9. \A k, l \in 1..RingSize : k < l => Newer(rest[k], rest[l])
    <3>1. SUFFICES ASSUME NEW k \in 1..RingSize, NEW l \in 1..RingSize, k < l PROVE Newer(rest[k], rest[l]) OBVIOUS
    <3>2. PICK m \in 1..Len(es) : rest[k] = es[m] /\ m = IF k < i THEN k ELSE k + 1 BY <2>7
    <3>3. PICK o \in 1..Len(es) : rest[l] = es[o] /\ o = IF l < i THEN l ELSE l + 1 BY <2>7
    <3>4. m < o BY <3>1, <3>2, <3>3, <2>2, <1>1
    <3>5. QED BY <3>2, <3>3, <3>4 DEF Ordered
  <2>10. lost \in Nat \X Nat BY <2>5, <1>1
  <2> HIDE DEF lost, rest, y
  <2> DEFINE q == [entries |-> rest, added |-> r.added, lost |-> lost]
  <2>11. q.entries = rest /\ q.added = r.added /\ q.lost = lost /\ q \in Ring BY <2>4, <2>10, <1>1 DEF Ring
  <2> HIDE DEF q
  <2>12. Ordered(q) BY <2>11, <2>4, <2>8, <2>9 DEF Ordered
  <2>13. RingOK(q) BY <2>12, <2>11, <2>4, <2>8, <1>1 DEF RingOK
  <2>14. QED BY <2>13, <2>11, <2>3 DEF q
<1>4. QED BY <1>2, <1>3

(* Adding evidence keeps the ring in order: an entry that is collapsed goes to the
   front under a severity that is no lower, and so is still above what was lost. *)
LEMMA AddedOK ==
  ASSUME NEW r, RingOK(r), NEW e, e.src \in Sources, e.sev \in Severities, e.about \in Subjects
  PROVE  RingOK(Added(r, e))
<1> DEFINE es == r.entries
           Same(x) == e.src # "log" /\ x.src = e.src /\ x.about = e.about
           I == {i \in 1..Len(es) : Same(es[i])}
           prev == SelectInSeq(es, LAMBDA x : e.src # "log" /\ x.src = e.src /\ x.about = e.about)
           rest == IF prev = 0 THEN es ELSE RemoveAt(es, prev)
           sev == IF prev # 0 /\ severityRank(es[prev].sev) > severityRank(e.sev) THEN es[prev].sev ELSE e.sev
           x == [src |-> e.src, sev |-> sev, about |-> e.about, at |-> r.added + 1]
           q == [entries |-> <<x>> \o rest, added |-> r.added + 1, lost |-> r.lost]
<1>1. es \in Seq(Entry) /\ r.added \in Nat /\ r.lost \in Nat \X Nat /\ Len(es) \in Nat /\ Len(es) <= RingSize
  BY DEF RingOK, Ordered, Ring
<1>2. prev = 0 \/ prev \in I
  <2>1. CASE I = {} BY <2>1 DEF SelectInSeq
  <2>2. CASE I # {}
    <3>1. prev = Min(I) BY <2>2 DEF SelectInSeq
    <3>2. I \subseteq Nat OBVIOUS
    <3> HIDE DEF I, prev
    <3>3. QED BY <2>2, <3>1, <3>2, MinOf
  <2>3. QED BY <2>1, <2>2
<1>3. prev = 0 => \A i \in 1..Len(es) : ~ Same(es[i])
  <2>1. SUFFICES ASSUME NEW i \in 1..Len(es), Same(es[i]), prev = 0 PROVE FALSE OBVIOUS
  <2>2. I # {} BY <2>1
  <2>3. prev = Min(I) BY <2>2 DEF SelectInSeq
  <2>4. I \subseteq Nat /\ 0 \notin I OBVIOUS
  <2> HIDE DEF I, prev
  <2>5. QED BY <2>1, <2>2, <2>3, <2>4, MinOf
<1>4. Added(r, e) = Evicted(q)
  <2>1. r = [entries |-> es, added |-> r.added, lost |-> r.lost] BY DEF RingOK, Ordered, Ring
  <2> DEFINE more == <<x>> \o rest
             next == r.added + 1
  <2>2. Added(r, e) = Evicted([r EXCEPT !.entries = more, !.added = next]) BY Zenon DEF Added
  <2>3. q = [entries |-> more, added |-> next, lost |-> r.lost] OBVIOUS
  <2> HIDE DEF es, more, next, q
  <2>4. [r EXCEPT !.entries = more, !.added = next] = [entries |-> more, added |-> next, lost |-> r.lost]
    <3>1. PICK a, b, c : r = [entries |-> a, added |-> b, lost |-> c] BY <2>1
    <3> DEFINE t == [r EXCEPT !.entries = more, !.added = next]
    <3>2. t \in [entries : {more}, added : {next}, lost : {c}] BY <3>1
    <3> HIDE DEF t
    <3>3. t = [entries |-> more, added |-> next, lost |-> c] BY <3>2
    <3>4. r.lost = c BY <3>1
    <3>5. QED BY <3>3, <3>4 DEF t
  <2>5. QED BY <2>2, <2>3, <2>4
<1> HIDE DEF prev
<1>5. prev # 0 => prev \in 1..Len(es) /\ Same(es[prev]) BY <1>2
<1>d. \A i, j \in 1..Len(es) : i # j /\ Same(es[i]) => ~ Same(es[j])
  <2>1. \A i, j \in 1..Len(es) : i < j /\ Same(es[i]) => ~ Same(es[j])
    <3>1. SUFFICES ASSUME NEW i \in 1..Len(es), NEW j \in 1..Len(es), i < j, Same(es[i]), Same(es[j]) PROVE FALSE OBVIOUS
    <3>2. Newer(es[i], es[j]) BY <3>1 DEF RingOK, Ordered
    <3>3. QED BY <3>1, <3>2 DEF Newer
  <2>2. \A i, j \in 1..Len(es) : i < j \/ j < i \/ i = j BY <1>1
  <2> HIDE DEF Same, es
  <2>3. QED BY <2>1, <2>2
<1>6. /\ rest \in Seq(Entry) /\ Len(rest) = IF prev = 0 THEN Len(es) ELSE Len(es) - 1
      /\ \A k \in 1..Len(rest) : rest[k] = es[IF prev = 0 \/ k < prev THEN k ELSE k + 1]
  <2>1. CASE prev = 0 BY <2>1, <1>1
  <2>2. CASE prev # 0 BY <2>2, <1>1, <1>5, RemoveAtFacts
  <2>3. QED BY <2>1, <2>2
<1>7. \A k \in 1..Len(rest) : \E m \in 1..Len(es) :
        rest[k] = es[m] /\ m = (IF prev = 0 \/ k < prev THEN k ELSE k + 1) /\ ~ Same(es[m])
  <2>1. SUFFICES ASSUME NEW k \in 1..Len(rest)
                 PROVE  \E m \in 1..Len(es) : rest[k] = es[m] /\ m = (IF prev = 0 \/ k < prev THEN k ELSE k + 1) /\ ~ Same(es[m])
    OBVIOUS
  <2> DEFINE m == IF prev = 0 \/ k < prev THEN k ELSE k + 1
  <2>2. m \in 1..Len(es) /\ m # prev
    <3>1. CASE prev = 0 BY <3>1, <1>6, <1>1
    <3>2. CASE prev # 0
      <4>1. k \in 1..Len(es) - 1 /\ prev \in 1..Len(es) BY <3>2, <1>6, <1>5
      <4>2. QED BY <4>1, <1>1
    <3>3. QED BY <3>1, <3>2
  <2>3. ~ Same(es[m])
    <3>1. CASE prev = 0 BY <3>1, <1>3, <2>2
    <3>2. CASE prev # 0 BY <3>2, <1>5, <1>d, <2>2
    <3>3. QED BY <3>1, <3>2
  <2>4. rest[k] = es[m] BY <1>6
  <2> HIDE DEF rest, es, Same
  <2>5. QED BY <2>2, <2>3, <2>4
<1>8. sev \in Severities /\ x \in Entry
      /\ (prev # 0 => severityRank(sev) >= severityRank(es[prev].sev))
  <2>1. prev # 0 => es[prev].sev \in Severities
    <3>1. prev # 0 => es[prev] \in Entry BY <1>5, <1>1
    <3> HIDE DEF es
    <3>2. QED BY <3>1 DEF Entry
  <2>2. sev \in Severities BY <2>1
  <2>3. prev # 0 => severityRank(sev) >= severityRank(es[prev].sev)
    BY <2>1 DEF Severities, severityRank
  <2>4. r.added + 1 \in Nat \ {0} BY <1>1
  <2> HIDE DEF sev
  <2>5. QED BY <2>2, <2>3, <2>4 DEF Entry
<1>9. x.at = r.added + 1 /\ x.src = e.src /\ x.about = e.about /\ x.sev = sev OBVIOUS
<1> HIDE DEF x, sev
<1>10. \A k \in 1..Len(rest) : Newer(x, rest[k])
  <2>1. SUFFICES ASSUME NEW k \in 1..Len(rest) PROVE Newer(x, rest[k]) OBVIOUS
  <2>2. PICK m \in 1..Len(es) : rest[k] = es[m] /\ ~ Same(es[m]) BY <1>7
  <2>3. es[m].at <= r.added /\ es[m].at \in Nat
    <3>1. es[m].at <= r.added /\ es[m] \in Entry BY <1>1 DEF RingOK, Ordered
    <3>2. QED BY <3>1 DEF Entry
  <2>4. x.at > es[m].at BY <2>3, <1>9, <1>1
  <2>5. x.src # "log" => <<x.src, x.about>> # <<es[m].src, es[m].about>> BY <2>2, <1>9
  <2>6. Newer(x, es[m]) BY <2>4, <2>5 DEF Newer
  <2> HIDE DEF rest, es
  <2>7. QED BY <2>2, <2>6
<1>11. prev # 0 => Below(r.lost, Place(x))
  <2>1. SUFFICES ASSUME prev # 0 PROVE Below(r.lost, Place(x)) OBVIOUS
  <2> DEFINE y == es[prev]
  <2>2. y \in Entry /\ y.at <= r.added /\ y.src = x.src /\ Below(r.lost, Place(y))
    BY <2>1, <1>1, <1>5, <1>9 DEF RingOK, Ordered
  <2>3. Worth(x) >= Worth(y) BY <2>1, <2>2, <1>8, <1>9, WorthMonotone
  <2>4. Worth(x) \in Nat /\ Worth(y) \in Nat /\ y.at \in Nat /\ x.at \in Nat /\ x.at > y.at
    <3>1. y.at \in Nat BY <2>2 DEF Entry
    <3>2. QED BY <3>1, <2>2, <1>8, <1>9, <1>1, WorthIsNat
  <2>5. Place(y) = <<Worth(y), y.at>> /\ Place(x) = <<Worth(x), x.at>> BY DEF Place
  <2>6. r.lost[1] \in Nat /\ r.lost[2] \in Nat BY <1>1
  <2> HIDE DEF y
  <2>7. QED BY <2>2, <2>3, <2>4, <2>5, <2>6 DEF Below
<1>12. prev = 0 /\ Len(es) < RingSize => Below(r.lost, Place(x))
  <2>1. SUFFICES ASSUME Len(es) < RingSize PROVE Below(r.lost, Place(x)) OBVIOUS
  <2>2. r.lost = <<0, 0>> BY <2>1 DEF RingOK
  <2>3. Worth(x) \in Nat /\ x.at \in Nat /\ x.at > 0 BY <1>8, <1>9, <1>1, WorthIsNat
  <2>4. QED BY <2>2, <2>3 DEF Below, Place
<1> DEFINE qs == <<x>> \o rest
<1>13. /\ qs \in Seq(Entry) /\ Len(qs) = Len(rest) + 1 /\ qs[1] = x
       /\ \A k \in 2..Len(qs) : k - 1 \in 1..Len(rest) /\ qs[k] = rest[k - 1]
  <2>1. <<x>> \in Seq(Entry) /\ Len(<<x>>) = 1 /\ <<x>>[1] = x BY <1>8
  <2>2. rest \in Seq(Entry) /\ Len(rest) \in Nat BY <1>6
  <2> HIDE DEF rest
  <2>3. /\ qs \in Seq(Entry) /\ Len(qs) = 1 + Len(rest)
        /\ \A k \in 1..1 + Len(rest) : qs[k] = IF k <= 1 THEN <<x>>[k] ELSE rest[k - 1]
    BY <2>1, <2>2, ConcatProperties
  <2> HIDE DEF qs
  <2>4. QED BY <2>1, <2>2, <2>3
<1>14. q.entries = qs /\ q.added = r.added + 1 /\ q.lost = r.lost /\ q \in Ring
  BY <1>13, <1>1 DEF Ring
<1>15. Len(rest) \in Nat /\ \A k \in 1..Len(rest) : rest[k].at <= r.added /\ Below(r.lost, Place(rest[k])) /\ rest[k] \in Entry
  <2>1. Len(rest) \in Nat BY <1>6
  <2>2. \A m \in 1..Len(es) : es[m].at <= r.added /\ Below(r.lost, Place(es[m])) /\ es[m] \in Entry
    BY <1>1 DEF RingOK, Ordered
  <2> HIDE DEF rest, es
  <2>3. QED BY <2>1, <2>2, <1>7
<1>16. \A k, l \in 1..Len(rest) : k < l => Newer(rest[k], rest[l])
  <2>1. SUFFICES ASSUME NEW k \in 1..Len(rest), NEW l \in 1..Len(rest), k < l PROVE Newer(rest[k], rest[l]) OBVIOUS
  <2>2. PICK m \in 1..Len(es) : rest[k] = es[m] /\ m = IF prev = 0 \/ k < prev THEN k ELSE k + 1 BY <1>7
  <2>3. PICK o \in 1..Len(es) : rest[l] = es[o] /\ o = IF prev = 0 \/ l < prev THEN l ELSE l + 1 BY <1>7
  <2>4. m < o
    <3>1. k \in Nat /\ l \in Nat /\ (prev = 0 \/ prev \in Nat) BY <1>15, <1>5
    <3>2. QED BY <3>1, <2>1, <2>2, <2>3
  <2>5. Newer(es[m], es[o]) BY <2>4 DEF RingOK, Ordered
  <2> HIDE DEF rest, es
  <2>6. QED BY <2>2, <2>3, <2>5
<1> HIDE DEF rest, qs, q
<1>17. Ordered(q)
  <2>1. \A i \in 1..Len(qs) : qs[i].at <= r.added + 1
    <3>1. SUFFICES ASSUME NEW i \in 1..Len(qs) PROVE qs[i].at <= r.added + 1 OBVIOUS
    <3>2. CASE i = 1 BY <3>2, <1>13, <1>9, <1>1
    <3>3. CASE i # 1
      <4>1. i \in 2..Len(qs) BY <3>3, <1>13, <1>15
      <4>2. qs[i] = rest[i - 1] /\ i - 1 \in 1..Len(rest) BY <4>1, <1>13
      <4>3. rest[i - 1].at <= r.added /\ rest[i - 1].at \in Nat BY <4>2, <1>15 DEF Entry
      <4>4. QED BY <4>2, <4>3, <1>1
    <3>4. QED BY <3>2, <3>3
  <2>2. \A i, j \in 1..Len(qs) : i < j => Newer(qs[i], qs[j])
    <3>1. SUFFICES ASSUME NEW i \in 1..Len(qs), NEW j \in 1..Len(qs), i < j PROVE Newer(qs[i], qs[j]) OBVIOUS
    <3>2. Len(qs) \in Nat BY <1>13, <1>15
    <3>3. j \in 2..Len(qs) BY <3>1, <3>2
    <3>4. qs[j] = rest[j - 1] /\ j - 1 \in 1..Len(rest) BY <3>3, <1>13
    <3>5. CASE i = 1 BY <3>4, <3>5, <1>10, <1>13
    <3>6. CASE i # 1
      <4>1. i \in 2..Len(qs) BY <3>6, <3>2
      <4>2. qs[i] = rest[i - 1] /\ i - 1 \in 1..Len(rest) BY <4>1, <1>13
      <4>3. i - 1 < j - 1 BY <3>1, <3>2
      <4>4. QED BY <3>4, <4>2, <4>3, <1>16
    <3>7. QED BY <3>5, <3>6
  <2>3. QED BY <2>1, <2>2, <1>14 DEF Ordered
<1>18. Len(qs) \in Nat /\ Len(qs) <= RingSize + 1 /\ (Len(qs) <= RingSize => prev # 0 \/ Len(es) < RingSize)
       /\ (Len(qs) < RingSize => Len(es) < RingSize)
  <2>1. RingSize \in Nat BY LiveAssumption
  <2>2. CASE prev = 0 BY <2>1, <2>2, <1>1, <1>6, <1>13
  <2>3. CASE prev # 0 BY <2>1, <2>3, <1>1, <1>6, <1>13
  <2>4. QED BY <2>2, <2>3
<1>19. \A i \in 1..Len(qs) : i > 1 \/ Len(qs) <= RingSize => Below(r.lost, Place(qs[i]))
  <2>1. SUFFICES ASSUME NEW i \in 1..Len(qs), i > 1 \/ Len(qs) <= RingSize PROVE Below(r.lost, Place(qs[i])) OBVIOUS
  <2>2. CASE i = 1
    <3>1. Len(qs) <= RingSize BY <2>1, <2>2
    <3>2. Below(r.lost, Place(x)) BY <3>1, <1>18, <1>11, <1>12
    <3>3. QED BY <3>2, <2>2, <1>13
  <2>3. CASE i # 1
    <3>1. i \in 2..Len(qs) BY <2>3, <1>18
    <3>2. qs[i] = rest[i - 1] /\ i - 1 \in 1..Len(rest) BY <3>1, <1>13
    <3>3. QED BY <3>2, <1>15
  <2>4. QED BY <2>2, <2>3
<1>20. Len(qs) < RingSize => r.lost = <<0, 0>> BY <1>18 DEF RingOK
<1>21. RingOK(Evicted(q)) BY <1>14, <1>17, <1>18, <1>19, <1>20, EvictedOK
<1>22. QED BY <1>4, <1>21

(* So does what the reducer notes by itself. *)
LEMMA NotedOK ==
  ASSUME NEW r, RingOK(r), NEW about \in {"HypothesisChanged", "Recovered"}, NEW sev \in Severities
  PROVE  RingOK(Noted(r, about, sev))
<1> DEFINE e == [src |-> "other", sev |-> sev, about |-> about]
<1>1. e.src \in Sources /\ e.sev \in Severities /\ e.about \in Subjects BY DEF Sources, Subjects
<1> HIDE DEF e
<1>2. RingOK(Added(r, e)) BY <1>1, AddedOK
<1>3. QED BY <1>2 DEF Noted, e

(* So does the note that recompute may leave at its end. *)
LEMMA RecomputedOK ==
  ASSUME NEW r, RingOK(r), NEW q \in Recomputed(r)
  PROVE  RingOK(q)
<1>1. RingOK(Noted(r, "HypothesisChanged", "warning")) BY NotedOK DEF Severities
<1>2. QED BY <1>1 DEF Recomputed

(* Clearing logs leaves a part of the ring in its order, and room. *)
LEMMA WithoutLogsOK ==
  ASSUME NEW r, RingOK(r), NEW drop
  PROVE  RingOK(WithoutLogs(r, drop))
<1> DEFINE es == r.entries
           Q == {x \in Range(es) : x.src = "log" => x.about \notin drop}
           kept == Keeping(es, Q)
           q == [entries |-> kept, added |-> r.added, lost |-> <<0, 0>>]
<1>1. es \in Seq(Entry) /\ r.added \in Nat /\ Len(es) \in Nat /\ Len(es) <= RingSize /\ RingSize \in Nat
  BY LiveAssumption DEF RingOK, Ordered, Ring
<1>2. WithoutLogs(r, drop) = q
  <2>1. WithoutLogs(r, drop) = [r EXCEPT !.entries = kept, !.lost = <<0, 0>>] BY Zenon DEF WithoutLogs
  <2> HIDE DEF kept
  <2>2. PICK a, b, c : r = [entries |-> a, added |-> b, lost |-> c] BY DEF RingOK, Ordered, Ring
  <2> DEFINE t == [r EXCEPT !.entries = kept, !.lost = <<0, 0>>]
  <2>3. t \in [entries : {kept}, added : {b}, lost : {<<0, 0>>}] BY <2>2
  <2> HIDE DEF t
  <2>4. t = [entries |-> kept, added |-> b, lost |-> <<0, 0>>] BY <2>3
  <2>5. r.added = b BY <2>2
  <2>6. QED BY <2>1, <2>4, <2>5 DEF t
<1> HIDE DEF Q, kept
<1>3. /\ kept \in Seq(Entry) /\ Len(kept) <= Len(es)
      /\ \E h \in [1..Len(kept) -> 1..Len(es)] :
           /\ \A k \in 1..Len(kept) : kept[k] = es[h[k]]
           /\ \A k, l \in 1..Len(kept) : k < l => h[k] < h[l]
  <2> HIDE DEF es
  <2>1. /\ Keeping(es, Q) \in Seq(Entry) /\ Len(Keeping(es, Q)) <= Len(es)
        /\ \E h \in [1..Len(Keeping(es, Q)) -> 1..Len(es)] :
             /\ \A k \in 1..Len(Keeping(es, Q)) : Keeping(es, Q)[k] = es[h[k]] /\ es[h[k]] \in Q
             /\ \A k, l \in 1..Len(Keeping(es, Q)) : k < l => h[k] < h[l]
             /\ \A i \in 1..Len(es) : es[i] \in Q => \E k \in 1..Len(Keeping(es, Q)) : h[k] = i
    BY <1>1, KeepingFacts
  <2>2. Keeping(es, Q) = kept BY DEF kept
  <2>3. QED BY <2>1, <2>2
<1>4. PICK h \in [1..Len(kept) -> 1..Len(es)] :
        /\ \A k \in 1..Len(kept) : kept[k] = es[h[k]]
        /\ \A k, l \in 1..Len(kept) : k < l => h[k] < h[l]
  BY <1>3
<1>5. q.entries = kept /\ q.added = r.added /\ q.lost = <<0, 0>> /\ q \in Ring
  BY <1>1, <1>3 DEF Ring
<1> HIDE DEF q
<1>6. Ordered(q)
  <2>1. \A k \in 1..Len(kept) : kept[k].at <= r.added
    <3>1. \A i \in 1..Len(es) : es[i].at <= r.added BY DEF RingOK, Ordered
    <3> HIDE DEF es
    <3>2. QED BY <3>1, <1>4
  <2>2. \A k, l \in 1..Len(kept) : k < l => Newer(kept[k], kept[l])
    <3>1. \A i, j \in 1..Len(es) : i < j => Newer(es[i], es[j]) BY DEF RingOK, Ordered
    <3> HIDE DEF es
    <3>2. SUFFICES ASSUME NEW k \in 1..Len(kept), NEW l \in 1..Len(kept), k < l PROVE Newer(kept[k], kept[l]) OBVIOUS
    <3>3. h[k] \in 1..Len(es) /\ h[l] \in 1..Len(es) /\ h[k] < h[l] BY <3>2, <1>4
    <3>4. QED BY <3>1, <3>3, <1>4
  <2>3. QED BY <2>1, <2>2, <1>5 DEF Ordered
<1>7. \A k \in 1..Len(kept) : Below(<<0, 0>>, Place(kept[k]))
  <2>1. SUFFICES ASSUME NEW k \in 1..Len(kept) PROVE Below(<<0, 0>>, Place(kept[k])) OBVIOUS
  <2>2. kept[k] \in Entry BY <1>3
  <2>3. Worth(kept[k]) \in Nat /\ kept[k].at \in Nat \ {0} BY <2>2, WorthIsNat DEF Entry
  <2>4. QED BY <2>3 DEF Below, Place
<1>8. Len(kept) <= RingSize BY <1>1, <1>3
<1>9. RingOK(q) BY <1>5, <1>6, <1>7, <1>8 DEF RingOK
<1>10. QED BY <1>2, <1>9

-----------------------------------------------------------------------------
(* The session. *)
Sent == [of : EvidencePool, n : Nat]

\* The types that the steps need, sequences as such.
LiveTypes ==
  /\ bus \in Seq(Sent)
  /\ publisher \in [pc : {"none", "full", "again"}, of : EvidencePool \cup {NoEvidence}]
  /\ publisher.pc # "none" => publisher.of \in EvidencePool
  /\ published \in 0..MaxEvidence /\ delivered \in Nat
  /\ inHand \in EvidencePool \cup {NoEvidence}
  /\ cluster \in DOMAIN ClusterHealth /\ snapshot \in DOMAIN ClusterHealth /\ scopePods \in DOMAIN ClusterHealth
  /\ refresher \in [Refreshers -> [pc : {"idle", "collect", "apply", "scope", "set"}, v : DOMAIN ClusterHealth]]
  /\ autoRefresh \in BOOLEAN /\ refreshFails \in 0..MaxRefreshFails
  /\ session \in {"none", "live", "cancelled", "closed", "stopped"}

\* What is on the bus was published after what was taken; in the middle of a
\* publication, before it, and an emptied bus has room.
BusOK ==
  /\ Len(bus) <= BusSize /\ delivered <= published
  /\ \A i \in 1..Len(bus) : bus[i].n > delivered /\ bus[i].n <= published
  /\ \A i, j \in 1..Len(bus) : j < i => bus[j].n < bus[i].n
  /\ (publisher.pc = "none" /\ session \in {"live", "cancelled"} /\ published > 0) =>
       IF bus = <<>> THEN delivered = published ELSE bus[Len(bus)].n = published
  /\ publisher.pc # "none" =>
       /\ session \in {"live", "cancelled"} /\ delivered < published
       /\ \A i \in 1..Len(bus) : bus[i].n < published
  /\ publisher.pc = "again" => Len(bus) < BusSize
  /\ session = "none" => published = 0

\* The inductive invariant of the live session.
LiveInv == LiveTypes /\ BusOK /\ RingOK(ring)

(* An investigation that was not started has an empty bus and an empty ring. *)
LEMMA LiveInitInv == LiveInit => LiveInv
<1>1. SUFFICES ASSUME LiveInit PROVE LiveInv OBVIOUS
<1>2. LiveTypes
  <2>1. Resting \in [pc : {"idle", "collect", "apply", "scope", "set"}, v : DOMAIN ClusterHealth]
    BY LiveAssumption DEF Resting
  <2>2. <<>> \in Seq(Sent) BY EmptySeq
  <2>3. refresher \in [Refreshers -> [pc : {"idle", "collect", "apply", "scope", "set"}, v : DOMAIN ClusterHealth]]
    BY <1>1, <2>1 DEF LiveInit
  <2>4. 0 \in 0..MaxEvidence /\ 0 \in 0..MaxRefreshFails BY LiveAssumption
  <2>5. publisher = [pc |-> "none", of |-> NoEvidence] BY <1>1 DEF LiveInit
  <2>6. /\ bus = <<>> /\ published = 0 /\ inHand = NoEvidence /\ delivered = 0 /\ cluster = 0 /\ snapshot = 0
        /\ scopePods = 0 /\ autoRefresh = FALSE /\ session = "none" /\ refreshFails = 0 /\ 0 \in DOMAIN ClusterHealth
    BY <1>1, LiveAssumption DEF LiveInit
  <2>7. QED BY <2>2, <2>3, <2>4, <2>5, <2>6 DEF LiveTypes
<1>3. BusOK BY <1>1, LiveAssumption DEF LiveInit, BusOK
<1>4. RingOK(ring)
  <2>1. ring.entries = <<>> /\ ring.added = 0 /\ ring.lost = <<0, 0>> /\ ring \in Ring
    <3>1. <<>> \in Seq(Entry) BY EmptySeq
    <3>2. QED BY <1>1, <3>1 DEF LiveInit, Ring
  <2>2. QED BY <2>1, LiveAssumption DEF RingOK, Ordered
<1>5. QED BY <1>2, <1>3, <1>4 DEF LiveInv

(* Every evidence published is evidence the ring can take. *)
LEMMA PoolIsEvidence ==
  \A e \in EvidencePool : e.src \in Sources /\ e.sev \in Severities /\ e.about \in Subjects
BY LiveAssumption DEF Sources, Severities, Subjects

(* Every step leaves the ring as it was, or is one of its operations. *)
LEMMA RingStep ==
  ASSUME LiveTypes, RingOK(ring), [LiveNext]_liveVars
  PROVE  RingOK(ring')
<1>1. CASE UNCHANGED ring BY <1>1
<1>2. CASE ApplyEvent
  <2>1. inHand \in EvidencePool BY <1>2 DEF ApplyEvent, LiveTypes
  <2>2. RingOK(Added(ring, inHand)) BY <2>1, PoolIsEvidence, AddedOK
  <2>3. ring' \in Recomputed(Added(ring, inHand)) BY <1>2 DEF ApplyEvent
  <2>4. QED BY <2>2, <2>3, RecomputedOK
<1>3. CASE ClearLogs
  <2>1. PICK drop : ring' \in Recomputed(WithoutLogs(ring, drop)) BY <1>3, Zenon DEF ClearLogs
  <2>2. QED BY <2>1, WithoutLogsOK, RecomputedOK
<1>4. ASSUME NEW x \in Refreshers, ApplySnapshot(x) PROVE RingOK(ring')
  <2>1. PICK r \in Recomputed(ring) : ring' = r \/ ring' = Noted(r, "Recovered", "info")
    BY <1>4, Zenon DEF ApplySnapshot
  <2>2. RingOK(r) BY RecomputedOK
  <2>3. RingOK(Noted(r, "Recovered", "info")) BY <2>2, NotedOK DEF Severities
  <2>4. QED BY <2>1, <2>2, <2>3
<1>5. QED
  <2>1. ASSUME NEW e \in EvidencePool, Publish(e) PROVE UNCHANGED ring BY <2>1 DEF Publish
  <2>2. PublishDrops \/ PublishAgain \/ ConsumerTakes => UNCHANGED ring BY DEF PublishDrops, PublishAgain, ConsumerTakes
  <2>3. ASSUME NEW x \in Refreshers,
               RefreshBegins(x) \/ Collect(x) \/ CollectFails(x) \/ ReadScope(x) \/ SetScope(x)
        PROVE  UNCHANGED ring
    BY <2>3 DEF RefreshBegins, Collect, CollectFails, ReadScope, SetScope
  <2>4. StartLive \/ SetAutoRefresh \/ ClusterChanges \/ StopSession => UNCHANGED ring
    BY DEF StartLive, SetAutoRefresh, ClusterChanges, StopSession
  <2>5. UNCHANGED liveVars => UNCHANGED ring BY DEF liveVars
  <2>6. QED BY <1>1, <1>2, <1>3, <1>4, <2>1, <2>2, <2>3, <2>4, <2>5 DEF LiveNext, FlowNext, RefreshNext

(* A structural change only ever starts a refresh. *)
LEMMA NoteTypes ==
  ASSUME LiveTypes, NEW e, NoteStructuralChange(e)
  PROVE  refresher' \in [Refreshers -> [pc : {"idle", "collect", "apply", "scope", "set"}, v : DOMAIN ClusterHealth]]
BY DEF NoteStructuralChange, LiveTypes, Refreshers

(* Every step keeps the types of the live session. *)
LEMMA TypesStep ==
  ASSUME LiveTypes, [LiveNext]_liveVars
  PROVE  LiveTypes'
<1> DEFINE Phases == [pc : {"idle", "collect", "apply", "scope", "set"}, v : DOMAIN ClusterHealth]
<1>t. /\ bus \in Seq(Sent)
      /\ publisher \in [pc : {"none", "full", "again"}, of : EvidencePool \cup {NoEvidence}]
      /\ publisher.pc # "none" => publisher.of \in EvidencePool
      /\ published \in 0..MaxEvidence /\ delivered \in Nat /\ MaxEvidence \in Nat
      /\ inHand \in EvidencePool \cup {NoEvidence}
      /\ cluster \in DOMAIN ClusterHealth /\ snapshot \in DOMAIN ClusterHealth /\ scopePods \in DOMAIN ClusterHealth
      /\ refresher \in [Refreshers -> Phases]
      /\ autoRefresh \in BOOLEAN /\ refreshFails \in 0..MaxRefreshFails /\ MaxRefreshFails \in Nat
      /\ session \in {"none", "live", "cancelled", "closed", "stopped"}
  BY LiveAssumption DEF LiveTypes
<1>1. ASSUME NEW e \in EvidencePool, Publish(e) PROVE LiveTypes'
  <2>1. published' \in 1..MaxEvidence /\ published' = published + 1 BY <1>1, <1>t DEF Publish
  <2>2. [of |-> e, n |-> published'] \in Sent BY <2>1 DEF Sent
  <2>3. Append(bus, [of |-> e, n |-> published']) \in Seq(Sent) BY <2>2, <1>t, AppendProperties
  <2>4. bus' \in Seq(Sent) BY <2>3, <1>1, <1>t, Zenon DEF Publish
  <2>5. refresher' \in [Refreshers -> Phases] BY <1>1, <1>t, NoteTypes DEF Publish
  <2>6. publisher' = publisher \/ publisher' = [pc |-> "full", of |-> e] BY <1>1, Zenon DEF Publish
  <2>8. /\ publisher' \in [pc : {"none", "full", "again"}, of : EvidencePool \cup {NoEvidence}]
        /\ publisher'.pc # "none" => publisher'.of \in EvidencePool
    BY <2>6, <1>t
  <2>9. QED BY <2>1, <2>4, <2>5, <2>8, <1>1, <1>t DEF Publish, LiveTypes, restVars
<1>2. CASE PublishDrops
  <2>1. bus' \in Seq(Sent) BY <1>2, <1>t, HeadTailProperties DEF PublishDrops
  <2>2. /\ publisher' \in [pc : {"none", "full", "again"}, of : EvidencePool \cup {NoEvidence}]
        /\ publisher'.pc # "none" => publisher'.of \in EvidencePool
    BY <1>2, <1>t DEF PublishDrops
  <2>3. QED BY <2>1, <2>2, <1>2, <1>t DEF PublishDrops, LiveTypes, restVars
<1>3. CASE PublishAgain
  <2>1. [of |-> publisher.of, n |-> published] \in Sent BY <1>3, <1>t DEF PublishAgain, Sent
  <2>2. Append(bus, [of |-> publisher.of, n |-> published]) \in Seq(Sent) BY <2>1, <1>t, AppendProperties
  <2>3. bus' \in Seq(Sent) BY <2>2, <1>3, <1>t, Zenon DEF PublishAgain
  <2>4. refresher' \in [Refreshers -> Phases] BY <1>3, NoteTypes DEF PublishAgain
  <2>5. /\ publisher' \in [pc : {"none", "full", "again"}, of : EvidencePool \cup {NoEvidence}]
        /\ publisher'.pc # "none" => publisher'.of \in EvidencePool
    BY <1>3, <1>t DEF PublishAgain
  <2>6. QED BY <2>3, <2>4, <2>5, <1>3, <1>t DEF PublishAgain, LiveTypes, restVars
<1>4. CASE ConsumerTakes
  <2>1. Head(bus) \in Sent /\ Tail(bus) \in Seq(Sent) BY <1>4, <1>t, HeadTailProperties DEF ConsumerTakes
  <2>2. Head(bus).of \in EvidencePool /\ Head(bus).n \in Nat BY <2>1 DEF Sent
  <2>3. QED BY <2>1, <2>2, <1>4, <1>t DEF ConsumerTakes, LiveTypes, restVars
<1>5. CASE ApplyEvent BY <1>5, <1>t DEF ApplyEvent, LiveTypes, restVars
<1>6. CASE ClearLogs BY <1>6, <1>t DEF ClearLogs, LiveTypes, restVars, flowVars
<1>8. ASSUME NEW x \in Refreshers, RefreshBegins(x) \/ Collect(x) \/ CollectFails(x) PROVE LiveTypes'
  <2>1. refresher' \in [Refreshers -> Phases]
    <3>1. CASE RefreshBegins(x) BY <3>1, <1>t DEF RefreshBegins
    <3>2. CASE Collect(x) BY <3>2, <1>t DEF Collect
    <3>3. CASE CollectFails(x)
      <4>1. Resting \in Phases BY LiveAssumption DEF Resting
      <4>2. refresher' = [refresher EXCEPT ![x] = Resting] BY <3>3 DEF CollectFails
      <4> HIDE DEF Phases
      <4>3. QED BY <4>1, <4>2, <1>t
    <3>4. QED BY <1>8, <3>1, <3>2, <3>3
  <2>2. QED BY <2>1, <1>8, <1>t DEF RefreshBegins, Collect, CollectFails, LiveTypes, restVars, flowVars
<1>9. ASSUME NEW x \in Refreshers, ApplySnapshot(x) PROVE LiveTypes'
  <2>1. refresher' \in [Refreshers -> Phases] BY <1>9, <1>t DEF ApplySnapshot
  <2>2. snapshot' \in DOMAIN ClusterHealth
    <3>1. refresher[x].v \in DOMAIN ClusterHealth BY <1>t
    <3>2. snapshot' = refresher[x].v BY <1>9 DEF ApplySnapshot
    <3>3. QED BY <3>1, <3>2
  <2>3. QED BY <2>1, <2>2, <1>9, <1>t DEF ApplySnapshot, LiveTypes, flowVars
<1>10. ASSUME NEW x \in Refreshers, ReadScope(x) \/ SetScope(x) PROVE LiveTypes'
  <2>1. refresher' \in [Refreshers -> Phases]
    BY <1>10, <1>t, LiveAssumption DEF ReadScope, SetScope, Resting
  <2>2. scopePods' \in DOMAIN ClusterHealth BY <1>10, <1>t DEF ReadScope, SetScope, restVars
  <2>3. QED BY <2>1, <2>2, <1>10, <1>t DEF ReadScope, SetScope, LiveTypes, restVars, flowVars
<1>11. CASE StartLive BY <1>11, <1>t DEF StartLive, LiveTypes, flowVars
<1>12. CASE SetAutoRefresh BY <1>12, <1>t DEF SetAutoRefresh, LiveTypes, flowVars
<1>13. CASE ClusterChanges BY <1>13, <1>t DEF ClusterChanges, LiveTypes, flowVars
<1>14. CASE StopSession BY <1>14, <1>t DEF StopSession, LiveTypes, flowVars
<1>15. CASE UNCHANGED liveVars BY <1>15, <1>t DEF liveVars, LiveTypes, flowVars, restVars
<1>16. QED
  BY <1>1, <1>2, <1>3, <1>4, <1>5, <1>6, <1>8, <1>9, <1>10, <1>11, <1>12, <1>13, <1>14, <1>15
  DEF LiveNext, FlowNext, RefreshNext

(* The bus: whatever the consumer takes while a full bus drops its oldest, order
   and the newest are kept. *)
LEMMA BusStep ==
  ASSUME LiveTypes, BusOK, [LiveNext]_liveVars
  PROVE  BusOK'
<1>t. /\ bus \in Seq(Sent) /\ published \in Nat /\ delivered \in Nat /\ BusSize \in Nat \ {0} /\ Len(bus) \in Nat
      /\ \A i \in 1..Len(bus) : bus[i].n \in Nat
      /\ publisher.pc \in {"none", "full", "again"}
      /\ session \in {"none", "live", "cancelled", "closed", "stopped"}
  <2>1. \A i \in 1..Len(bus) : bus[i] \in Sent BY DEF LiveTypes
  <2>2. QED BY <2>1, LiveAssumption DEF LiveTypes, Sent
<1>b. /\ Len(bus) <= BusSize /\ delivered <= published
      /\ \A i \in 1..Len(bus) : bus[i].n > delivered /\ bus[i].n <= published
      /\ \A i, j \in 1..Len(bus) : j < i => bus[j].n < bus[i].n
  BY DEF BusOK
<1>1. ASSUME NEW e \in EvidencePool, Publish(e) PROVE BusOK'
  <2>1. published' = published + 1 /\ publisher.pc = "none" /\ delivered' = delivered /\ session' = session
        /\ session \notin {"none", "stopped"}
    BY <1>1 DEF Publish, restVars
  <2>2. CASE session = "closed" /\ UNCHANGED <<bus, publisher>>
    BY <2>1, <2>2, <1>t, <1>b DEF BusOK
  <2>3. CASE Len(bus) < BusSize /\ bus' = Append(bus, [of |-> e, n |-> published']) /\ UNCHANGED publisher
    <3>1. /\ Len(bus') = Len(bus) + 1 /\ bus'[Len(bus) + 1].n = published + 1
          /\ \A i \in 1..Len(bus) : bus'[i] = bus[i]
      BY <2>1, <2>3, <1>t, AppendProperties
    <3>2. bus' # <<>> BY <3>1, <1>t
    <3>3. \A i \in 1..Len(bus') : i \in 1..Len(bus) \/ i = Len(bus) + 1 BY <3>1, <1>t
    <3>4. \A i \in 1..Len(bus') : bus'[i].n > delivered' /\ bus'[i].n <= published'
      BY <3>1, <3>3, <2>1, <1>t, <1>b
    <3>5. \A i, j \in 1..Len(bus') : j < i => bus'[j].n < bus'[i].n
      <4>1. SUFFICES ASSUME NEW i \in 1..Len(bus'), NEW j \in 1..Len(bus'), j < i PROVE bus'[j].n < bus'[i].n OBVIOUS
      <4>2. j \in 1..Len(bus) BY <4>1, <3>1, <1>t
      <4>3. CASE i \in 1..Len(bus) BY <4>1, <4>2, <4>3, <3>1, <1>b
      <4>4. CASE i = Len(bus) + 1 BY <4>2, <4>4, <3>1, <1>b, <1>t
      <4>5. QED BY <4>3, <4>4, <3>3
    <3>6. Len(bus') <= BusSize /\ delivered' <= published' BY <3>1, <2>1, <2>3, <1>t, <1>b
    <3>7. bus'[Len(bus')].n = published' BY <3>1, <2>1, <1>t
    <3>8. QED BY <3>2, <3>4, <3>5, <3>6, <3>7, <2>1, <2>3 DEF BusOK
  <2>4. CASE session # "closed" /\ Len(bus) = BusSize /\ publisher' = [pc |-> "full", of |-> e] /\ UNCHANGED bus
    <3>1. publisher'.pc = "full" /\ bus' = bus BY <2>4
    <3>2. session' \in {"live", "cancelled"} BY <2>1, <2>4, <1>t
    <3>3. delivered' < published' /\ \A i \in 1..Len(bus) : bus[i].n < published' BY <2>1, <1>t, <1>b
    <3>4. QED BY <3>1, <3>2, <3>3, <2>1, <1>b, <1>t DEF BusOK
  <2>5. QED BY <1>1, <2>2, <2>3, <2>4, Zenon DEF Publish
<1>2. CASE PublishDrops
  <2>1. publisher.pc = "full" /\ publisher'.pc = "again" /\ published' = published /\ delivered' = delivered
        /\ session' = session /\ session \in {"live", "cancelled"} /\ delivered < published
        /\ \A i \in 1..Len(bus) : bus[i].n < published
    BY <1>2 DEF PublishDrops, restVars, BusOK, LiveTypes
  <2>2. CASE bus = <<>>
    <3>1. bus' = <<>> /\ Len(bus') = 0 BY <2>2, <1>2 DEF PublishDrops
    <3>2. QED BY <3>1, <2>1, <1>t, <1>b DEF BusOK
  <2>3. CASE bus # <<>>
    <3>1. /\ Len(bus') = Len(bus) - 1 /\ Len(bus') \in Nat /\ \A i \in 1..Len(bus') : bus'[i] = bus[i + 1] /\ i + 1 \in 1..Len(bus)
      BY <2>3, <1>2, <1>t, HeadTailProperties DEF PublishDrops
    <3>2. \A i \in 1..Len(bus') : bus'[i].n > delivered' /\ bus'[i].n <= published' /\ bus'[i].n < published'
      BY <3>1, <2>1, <1>b
    <3>3. \A i, j \in 1..Len(bus') : j < i => bus'[j].n < bus'[i].n
      <4>1. SUFFICES ASSUME NEW i \in 1..Len(bus'), NEW j \in 1..Len(bus'), j < i PROVE bus'[j].n < bus'[i].n OBVIOUS
      <4>2. j + 1 < i + 1 BY <4>1, <3>1
      <4>3. QED BY <4>2, <3>1, <1>b
    <3>4. QED BY <3>1, <3>2, <3>3, <2>1, <1>t, <1>b DEF BusOK
  <2>4. QED BY <2>2, <2>3
<1>3. CASE PublishAgain
  <2>1. publisher.pc = "again" /\ publisher'.pc = "none" /\ published' = published /\ delivered' = delivered
        /\ session' = session /\ session \in {"live", "cancelled"} /\ delivered < published /\ Len(bus) < BusSize
        /\ \A i \in 1..Len(bus) : bus[i].n < published
    BY <1>3 DEF PublishAgain, restVars, BusOK
  <2>2. bus' = Append(bus, [of |-> publisher.of, n |-> published]) BY <2>1, <1>3 DEF PublishAgain
  <2>3. /\ Len(bus') = Len(bus) + 1 /\ bus'[Len(bus) + 1].n = published
        /\ \A i \in 1..Len(bus) : bus'[i] = bus[i]
    BY <2>2, <1>t, AppendProperties
  <2>4. \A i \in 1..Len(bus') : i \in 1..Len(bus) \/ i = Len(bus) + 1 BY <2>3, <1>t
  <2>5. \A i \in 1..Len(bus') : bus'[i].n > delivered' /\ bus'[i].n <= published'
    BY <2>3, <2>4, <2>1, <1>t, <1>b
  <2>6. \A i, j \in 1..Len(bus') : j < i => bus'[j].n < bus'[i].n
    <3>1. SUFFICES ASSUME NEW i \in 1..Len(bus'), NEW j \in 1..Len(bus'), j < i PROVE bus'[j].n < bus'[i].n OBVIOUS
    <3>2. j \in 1..Len(bus) BY <3>1, <2>3, <1>t
    <3>3. CASE i \in 1..Len(bus) BY <3>1, <3>2, <3>3, <2>3, <1>b
    <3>4. CASE i = Len(bus) + 1 BY <3>2, <3>4, <2>3, <2>1
    <3>5. QED BY <3>3, <3>4, <2>4
  <2>7. Len(bus') <= BusSize /\ bus' # <<>> /\ bus'[Len(bus')].n = published' BY <2>3, <2>1, <1>t
  <2>8. QED BY <2>1, <2>5, <2>6, <2>7, <1>b, <1>t DEF BusOK
<1>4. CASE ConsumerTakes
  <2>1. bus # <<>> /\ delivered' = Head(bus).n /\ bus' = Tail(bus) /\ publisher' = publisher /\ published' = published
        /\ session' = session
    BY <1>4 DEF ConsumerTakes, restVars
  <2>2. /\ Len(bus') = Len(bus) - 1 /\ Len(bus') \in Nat /\ delivered' = bus[1].n /\ Len(bus) >= 1
        /\ \A i \in 1..Len(bus') : bus'[i] = bus[i + 1] /\ i + 1 \in 1..Len(bus)
    BY <2>1, <1>t, HeadTailProperties
  <2>3. 1 \in 1..Len(bus) BY <2>2, <1>t
  <2>4. \A i \in 1..Len(bus') : bus'[i].n > delivered' /\ bus'[i].n <= published'
    <3>1. SUFFICES ASSUME NEW i \in 1..Len(bus') PROVE bus'[i].n > delivered' /\ bus'[i].n <= published' OBVIOUS
    <3>2. 1 < i + 1 BY <2>2
    <3>3. QED BY <3>2, <2>1, <2>2, <2>3, <1>b, <1>t
  <2>5. \A i, j \in 1..Len(bus') : j < i => bus'[j].n < bus'[i].n
    <3>1. SUFFICES ASSUME NEW i \in 1..Len(bus'), NEW j \in 1..Len(bus'), j < i PROVE bus'[j].n < bus'[i].n OBVIOUS
    <3>2. j + 1 < i + 1 BY <3>1, <2>2
    <3>3. QED BY <3>2, <2>2, <1>b
  <2>6. delivered' <= published' /\ Len(bus') <= BusSize BY <2>1, <2>2, <2>3, <1>b, <1>t
  <2>7. (publisher.pc = "none" /\ session \in {"live", "cancelled"} /\ published > 0) =>
          IF bus' = <<>> THEN delivered' = published ELSE bus'[Len(bus')].n = published
    <3>1. SUFFICES ASSUME publisher.pc = "none" /\ session \in {"live", "cancelled"} /\ published > 0
                   PROVE  IF bus' = <<>> THEN delivered' = published ELSE bus'[Len(bus')].n = published
      OBVIOUS
    <3>2. bus[Len(bus)].n = published BY <3>1, <2>1 DEF BusOK
    <3>3. CASE bus' = <<>>
      <4>1. Len(bus') = 0 BY <3>3, EmptySeq
      <4>2. Len(bus) = 1 BY <4>1, <2>2, <1>t
      <4>3. QED BY <4>2, <3>2, <3>3, <2>2
    <3>4. CASE bus' # <<>>
      <4>1. Len(bus') # 0 BY <3>4, <2>1, <1>t, HeadTailProperties, EmptySeq
      <4>2. QED BY <4>1, <3>2, <3>4, <2>2, <1>t
    <3>5. QED BY <3>3, <3>4
  <2>8. publisher.pc # "none" => /\ session \in {"live", "cancelled"} /\ delivered' < published
                                 /\ \A i \in 1..Len(bus') : bus'[i].n < published
    BY <2>2, <2>3 DEF BusOK
  <2>9. publisher.pc = "again" => Len(bus') < BusSize BY <2>2, <1>b, <1>t
  <2>10. QED BY <2>1, <2>4, <2>5, <2>6, <2>7, <2>8, <2>9 DEF BusOK
<1>5. ASSUME UNCHANGED flowVars, UNCHANGED session PROVE BusOK'
  BY <1>5 DEF flowVars, BusOK
<1>6. CASE StartLive
  BY <1>6, <1>t, <1>b DEF StartLive, flowVars, BusOK
<1>7. CASE StopSession
  BY <1>7, <1>t, <1>b DEF StopSession, flowVars, BusOK
<1>8. CASE ApplyEvent
  BY <1>8 DEF ApplyEvent, restVars, BusOK
<1>9. QED
  <2>1. CASE ClearLogs BY <2>1, <1>5 DEF ClearLogs, restVars
  <2>2. ASSUME NEW x \in Refreshers,
               RefreshBegins(x) \/ Collect(x) \/ CollectFails(x) \/ ApplySnapshot(x) \/ ReadScope(x) \/ SetScope(x)
        PROVE  BusOK'
    <3>1. UNCHANGED flowVars /\ UNCHANGED session
      BY <2>2 DEF RefreshBegins, Collect, CollectFails, ApplySnapshot, ReadScope, SetScope, restVars
    <3>2. QED BY <3>1, <1>5
  <2>3. CASE SetAutoRefresh BY <2>3, <1>5 DEF SetAutoRefresh
  <2>4. CASE ClusterChanges BY <2>4, <1>5 DEF ClusterChanges
  <2>5. CASE UNCHANGED liveVars BY <2>5, <1>5 DEF liveVars, restVars
  <2>6. QED
    BY <1>1, <1>2, <1>3, <1>4, <1>6, <1>7, <1>8, <2>1, <2>2, <2>3, <2>4, <2>5 DEF LiveNext, FlowNext, RefreshNext

(* What is proved of the session says what is checked of it. *)
LEMMA LiveInvHolds == LiveInv => EvidenceHolds
<1>1. SUFFICES ASSUME LiveInv PROVE EvidenceHolds OBVIOUS
<1>t. /\ bus \in Seq(Sent) /\ DOMAIN bus = 1..Len(bus) /\ Len(bus) \in Nat
      /\ \A i \in 1..Len(bus) : bus[i].of \in EvidencePool /\ bus[i].n \in Nat
      /\ published \in Nat /\ delivered \in Nat
  <2>1. bus \in Seq(Sent) BY <1>1 DEF LiveInv, LiveTypes
  <2>2. DOMAIN bus = 1..Len(bus) /\ Len(bus) \in Nat BY <2>1, LenProperties
  <2>3. \A i \in 1..Len(bus) : bus[i] \in Sent BY <2>1
  <2>4. published \in Nat /\ delivered \in Nat BY <1>1, LiveAssumption DEF LiveInv, LiveTypes
  <2>5. QED BY <2>1, <2>2, <2>3, <2>4 DEF Sent
<1>2. LiveTypeOK
  <2>1. \A i \in DOMAIN bus : bus[i].of \in EvidencePool /\ bus[i].n \in 1..published
    BY <1>1, <1>t DEF LiveInv, BusOK
  <2>2. delivered \in 0..published BY <1>1, <1>t DEF LiveInv, BusOK
  <2>3. DOMAIN refresher = Refreshers BY <1>1 DEF LiveInv, LiveTypes
  <2>4. publisher.of \in EvidencePool \cup {NoEvidence} BY <1>1 DEF LiveInv, LiveTypes
  <2>5. QED BY <1>1, <2>1, <2>2, <2>3, <2>4 DEF LiveInv, LiveTypes, LiveTypeOK
<1>3. BusTrue
  <2>1. \A i \in DOMAIN bus : bus[i].n > delivered /\ \A j \in 1..i - 1 : bus[j].n < bus[i].n
    <3>1. SUFFICES ASSUME NEW i \in 1..Len(bus) PROVE bus[i].n > delivered /\ \A j \in 1..i - 1 : bus[j].n < bus[i].n
      BY <1>t
    <3>2. \A j \in 1..i - 1 : j \in 1..Len(bus) /\ j < i BY <1>t
    <3>3. QED BY <3>2, <1>1 DEF LiveInv, BusOK
  <2>2. Last(bus) = bus[Len(bus)] BY DEF Last
  <2>3. QED BY <1>1, <2>1, <2>2 DEF LiveInv, BusOK, BusTrue
<1>4. RingTrue
  <2>1. RingOK(ring) BY <1>1 DEF LiveInv
  <2>2. ring.entries \in Seq(Entry) BY <2>1 DEF RingOK, Ordered, Ring
  <2>3. DOMAIN ring.entries = 1..Len(ring.entries) BY <2>2, LenProperties
  <2>4. QED BY <2>1, <2>3 DEF RingOK, RingTrue, Ordered, Newer
<1>5. QED BY <1>2, <1>3, <1>4 DEF EvidenceHolds

(* What an investigation has collected is in order, with the newest, and is the
   best of what was collected, whatever a full bus and a full ring drop and
   however refreshes and clears fall between (bus.go:25, ringbuffer.go:108). *)
THEOREM EvidenceTheorem == LiveSpec => []EvidenceHolds
<1>1. LiveInv /\ [LiveNext]_liveVars => LiveInv' BY TypesStep, BusStep, RingStep DEF LiveInv
<1>2. QED BY <1>1, LiveInitInv, LiveInvHolds, PTL DEF LiveSpec

-----------------------------------------------------------------------------
(* The log follows of a tail. *)


(* A part of a line without repetitions has none. *)
LEMMA SubLine ==
  ASSUME NEW S, NEW s \in Seq(S), IsInjective(s), NEW m \in 1..Len(s) + 1
  PROVE  /\ SubSeq(s, m, Len(s)) \in Seq(S) /\ Len(SubSeq(s, m, Len(s))) = Len(s) - m + 1
         /\ IsInjective(SubSeq(s, m, Len(s)))
         /\ Range(SubSeq(s, m, Len(s))) = {s[i] : i \in m..Len(s)}
<1> DEFINE r == SubSeq(s, m, Len(s))
<1>1. Len(s) \in Nat /\ m \in Nat /\ m >= 1 /\ m <= Len(s) + 1 /\ DOMAIN s = 1..Len(s) BY LenProperties
<1>2. \A i \in m..Len(s) : i \in 1..Len(s) /\ s[i] \in S BY <1>1
<1>3. /\ r \in Seq(S) /\ Len(r) = (IF m <= Len(s) THEN Len(s) - m + 1 ELSE 0)
      /\ \A i \in 1..Len(s) - m + 1 : r[i] = s[m + i - 1]
  BY <1>1, <1>2, SubSeqProperties
<1> HIDE DEF r
<1>4. Len(r) = Len(s) - m + 1 BY <1>1, <1>3
<1>5. DOMAIN r = 1..Len(r) BY <1>3, LenProperties
<1>6. IsInjective(r)
  <2>1. SUFFICES ASSUME NEW k \in 1..Len(r), NEW l \in 1..Len(r), r[k] = r[l] PROVE k = l BY <1>5 DEF IsInjective
  <2>2. r[k] = s[m + k - 1] /\ r[l] = s[m + l - 1] BY <1>3, <1>4
  <2>3. m + k - 1 \in 1..Len(s) /\ m + l - 1 \in 1..Len(s) BY <1>1, <1>4
  <2>4. m + k - 1 = m + l - 1 BY <2>1, <2>2, <2>3, <1>1 DEF IsInjective
  <2>5. QED BY <2>4, <1>1, <1>4
<1>7. Range(r) = {s[i] : i \in m..Len(s)}
  <2>1. ASSUME NEW x \in Range(r) PROVE x \in {s[i] : i \in m..Len(s)}
    <3>1. PICK k \in 1..Len(r) : x = r[k] BY <1>5 DEF Range
    <3>2. m + k - 1 \in m..Len(s) /\ x = s[m + k - 1] BY <3>1, <1>1, <1>3, <1>4
    <3>3. QED BY <3>2
  <2>2. ASSUME NEW i \in m..Len(s) PROVE s[i] \in Range(r)
    <3>1. i - m + 1 \in 1..Len(r) /\ m + (i - m + 1) - 1 = i BY <1>1, <1>4
    <3>2. s[i] = r[i - m + 1] BY <3>1, <1>3, <1>4
    <3>3. QED BY <3>1, <3>2, <1>5 DEF Range
  <2>3. QED BY <2>1, <2>2
<1>8. QED BY <1>3, <1>4, <1>6, <1>7 DEF r

(* One more at the end of a line, that does not wait yet. *)
LEMMA AppendLine ==
  ASSUME NEW S, NEW s \in Seq(S), IsInjective(s), NEW t \in S, t \notin Range(s)
  PROVE  /\ Append(s, t) \in Seq(S) /\ Len(Append(s, t)) = Len(s) + 1 /\ Append(s, t)[Len(s) + 1] = t
         /\ IsInjective(Append(s, t)) /\ Range(Append(s, t)) = Range(s) \cup {t}
<1> DEFINE r == Append(s, t)
<1>1. /\ r \in Seq(S) /\ Len(r) = Len(s) + 1 /\ r[Len(s) + 1] = t /\ Len(s) \in Nat
      /\ \A i \in 1..Len(s) : r[i] = s[i]
  BY AppendProperties
<1>2. DOMAIN r = 1..Len(s) + 1 /\ DOMAIN s = 1..Len(s) BY <1>1, LenProperties
<1> HIDE DEF r
<1>3. \A i \in 1..Len(s) + 1 : i \in 1..Len(s) \/ i = Len(s) + 1 BY <1>1
<1>4. \A i \in 1..Len(s) : r[i] # t BY <1>1, <1>2 DEF Range
<1>5. IsInjective(r)
  <2>1. SUFFICES ASSUME NEW k \in 1..Len(s) + 1, NEW l \in 1..Len(s) + 1, r[k] = r[l] PROVE k = l
    BY <1>2 DEF IsInjective
  <2>2. CASE k \in 1..Len(s) /\ l \in 1..Len(s) BY <2>1, <2>2, <1>1, <1>2 DEF IsInjective
  <2>3. QED BY <2>1, <2>2, <1>1, <1>3, <1>4
<1>6. Range(r) = Range(s) \cup {t}
  <2>1. Range(r) = {r[i] : i \in 1..Len(s) + 1} /\ Range(s) = {s[i] : i \in 1..Len(s)} BY <1>2 DEF Range
  <2>2. Len(s) + 1 \in 1..Len(s) + 1 /\ \A i \in 1..Len(s) : i \in 1..Len(s) + 1 BY <1>1
  <2>3. QED BY <2>1, <2>2, <1>1, <1>3
<1>7. QED BY <1>1, <1>5, <1>6 DEF r

(* A line that is cut keeps its end. *)
LEMMA CappedFacts ==
  ASSUME NEW line \in Seq(Targets), IsInjective(line), line # <<>>
  PROVE  /\ Capped(line) \in Seq(Targets) /\ IsInjective(Capped(line)) /\ Range(Capped(line)) \subseteq Range(line)
         /\ Len(Capped(line)) <= MaxLogRequests * pendingMultiplier
         /\ line[Len(line)] \in Range(Capped(line))
<1> DEFINE max == MaxLogRequests * pendingMultiplier
<1>1. max \in Nat \ {0}
  <2>1. MaxLogRequests \in Nat /\ MaxLogRequests >= 1 /\ pendingMultiplier \in Nat /\ pendingMultiplier >= 1
    BY TailAssumption
  <2>2. QED BY <2>1
<1>2. Len(line) \in Nat \ {0} /\ DOMAIN line = 1..Len(line) BY EmptySeq, LenProperties
<1> HIDE DEF max
<1>3. CASE Len(line) > max
  <2>1. Capped(line) = SubSeq(line, Len(line) - max + 1, Len(line)) BY <1>3 DEF Capped, max
  <2>2. Len(line) - max + 1 \in 1..Len(line) + 1 /\ Len(line) - (Len(line) - max + 1) + 1 = max
        /\ Len(line) \in Len(line) - max + 1..Len(line) /\ \A i \in Len(line) - max + 1..Len(line) : i \in 1..Len(line)
    BY <1>1, <1>2, <1>3
  <2> DEFINE m == Len(line) - max + 1
  <2> HIDE DEF m
  <2>3. /\ SubSeq(line, m, Len(line)) \in Seq(Targets) /\ Len(SubSeq(line, m, Len(line))) = max
        /\ IsInjective(SubSeq(line, m, Len(line)))
        /\ Range(SubSeq(line, m, Len(line))) = {line[i] : i \in m..Len(line)}
    <3>1. m \in 1..Len(line) + 1 /\ Len(line) - m + 1 = max BY <2>2 DEF m
    <3>2. QED BY <3>1, SubLine
  <2>4. Capped(line) = SubSeq(line, m, Len(line)) BY <2>1 DEF m
  <2>5. Range(Capped(line)) \subseteq Range(line) /\ line[Len(line)] \in Range(Capped(line))
    <3>1. Len(line) \in m..Len(line) /\ \A i \in m..Len(line) : i \in 1..Len(line) BY <2>2 DEF m
    <3>2. Range(Capped(line)) = {line[i] : i \in m..Len(line)} BY <2>3, <2>4
    <3>3. Range(line) = {line[i] : i \in 1..Len(line)} BY <1>2 DEF Range
    <3>4. QED BY <3>1, <3>2, <3>3
  <2>6. Len(Capped(line)) <= max BY <2>3, <2>4, <1>1
  <2>7. QED BY <2>3, <2>4, <2>5, <2>6 DEF max
<1>4. CASE ~ Len(line) > max
  <2>1. Capped(line) = line BY <1>4 DEF Capped, max
  <2>2. Len(line) <= max BY <1>1, <1>2, <1>4
  <2>3. line[Len(line)] \in Range(line) BY <1>2 DEF Range
  <2>4. QED BY <2>1, <2>2, <2>3 DEF max
<1>5. QED BY <1>3, <1>4

\* The watch goroutine: the shape of its record, and what it asks for is wanted.
WatcherTypes ==
  /\ watcher = [pc |-> watcher.pc, of |-> watcher.of, rest |-> watcher.rest, pod |-> watcher.pod,
                want |-> watcher.want, todo |-> watcher.todo]
  /\ watcher.pc \in {"work", "list", "watch", "backoff", "done"} /\ watcher.of \in {"start", "list", "event"}
  /\ DOMAIN watcher.rest \subseteq TailPods /\ watcher.rest \in [DOMAIN watcher.rest -> SUBSET TailContainers]
  /\ watcher.pod \in TailPods \cup {NoPod}
  /\ watcher.want \subseteq TailContainers /\ watcher.todo \subseteq watcher.want

PodEvents == [pod : TailPods, want : SUBSET TailContainers]

\* The types that the steps need; the active streams are finitely many.
TailTypes ==
  /\ TailTypeOK /\ WatcherTypes
  /\ active \in [DOMAIN active -> {"following", "ending"}] /\ IsFiniteSet(DOMAIN active)
  /\ feed \in Seq(PodEvents)

\* A pod is being synced only while the watch works, and before a tail starts
\* nothing is known.
WatcherOK ==
  /\ watcher.pod # NoPod => watcher.pc = "work"
  /\ watcher.pod = NoPod => watcher.want = {} /\ watcher.todo = {}
  /\ tail = "none" => watcher.pod = NoPod /\ watcher.pc = "done" /\ \A p \in TailPods : known[p] = {}

\* t is followed or waits, or is one of the two exceptions.
Followed(t) == t \in missed \/ t \in Range(pending) \/ (t \in DOMAIN active /\ active[t] = "following")

\* What ensure was called for of the pod that is being synced.
SyncFollowed ==
  tail = "open" /\ watcher.pod # NoPod => \A c \in watcher.want \ watcher.todo : Followed(<<watcher.pod, c>>)

\* The inductive invariant of a tail.
TailInv == TailTypes /\ WatcherOK /\ SlotsTrue /\ KnownFollowed /\ OnlyKnown /\ SyncFollowed

(* Before start nothing is followed, waits or is known. *)
LEMMA TailInitInv == TailInit => TailInv
<1>1. SUFFICES ASSUME TailInit PROVE TailInv OBVIOUS
<1>2. DOMAIN <<>> = {} /\ <<>> \in Seq(Targets) /\ Range(<<>>) = {} /\ IsInjective(<<>>) /\ Len(<<>>) = 0
      /\ Cardinality({}) = 0 /\ IsFiniteSet({})
  BY FS_EmptySet, EmptySeq DEF Range, IsInjective
<1>3. /\ watcher = [pc |-> "done", of |-> "event", rest |-> <<>>, pod |-> NoPod, want |-> {}, todo |-> {}]
      /\ tail = "none" /\ feed = <<>> /\ active = <<>> /\ slots = 0 /\ pending = <<>> /\ missed = {} /\ podSteps = 0
      /\ pods \in [TailPods -> SUBSET TailContainers] /\ known = [p \in TailPods |-> {}]
  BY <1>1 DEF TailInit, Resume, WatcherAt
<1>4. 0 \in 0..MaxLogRequests /\ 0 \in 0..MaxPodSteps /\ 0 <= MaxLogRequests * pendingMultiplier
  BY TailAssumption
<1>5. <<>> \in [{} -> SUBSET TailContainers] /\ <<>> \in [{} -> {"following", "ending"}] BY <1>2
<1>6. TailTypes BY <1>2, <1>3, <1>4, <1>5 DEF TailTypes, TailTypeOK, WatcherTypes
<1>7. WatcherOK BY <1>3 DEF WatcherOK
<1>8. SlotsTrue BY <1>2, <1>3, <1>4 DEF SlotsTrue
<1>9. KnownFollowed /\ SyncFollowed BY <1>3 DEF KnownFollowed, SyncFollowed
<1>10. OnlyKnown BY <1>2, <1>3 DEF OnlyKnown
<1>11. QED BY <1>6, <1>7, <1>8, <1>9, <1>10 DEF TailInv

(* A step of the watch's sync of a pod: what was followed stays so, and at most
   the target that was asked for comes to be. *)
LEMMA EnsureStep ==
  ASSUME TailInv, Ensure
  PROVE  TailInv'
<1>1. PICK c \in watcher.todo :
        LET t == <<watcher.pod, c>> IN
        /\ watcher' = [watcher EXCEPT !.todo = @ \ {c}]
        /\ \/ /\ t \in DOMAIN active \/ t \in Range(pending)
              /\ missed' = IF t \in DOMAIN active /\ active[t] = "ending" THEN missed \cup {t} ELSE missed
              /\ UNCHANGED <<active, slots, pending>>
           \/ /\ t \notin DOMAIN active /\ t \notin Range(pending)
              /\ slots < MaxLogRequests
              /\ active' = Started(active, t) /\ slots' = slots + 1
              /\ missed' = missed \ {t}
              /\ UNCHANGED pending
           \/ /\ t \notin DOMAIN active /\ t \notin Range(pending)
              /\ slots = MaxLogRequests
              /\ pending' = Capped(Append(pending, t))
              /\ missed' = (missed \ {t}) \cup (Range(pending) \ Range(pending'))
              /\ UNCHANGED <<active, slots>>
        /\ UNCHANGED <<pods, feed, tail, known, podSteps>>
  BY DEF Ensure
<1>t. /\ TailTypeOK /\ WatcherTypes /\ WatcherOK /\ SlotsTrue /\ KnownFollowed /\ OnlyKnown /\ SyncFollowed
      /\ active \in [DOMAIN active -> {"following", "ending"}] /\ IsFiniteSet(DOMAIN active)
      /\ feed \in Seq(PodEvents)
  BY DEF TailInv, TailTypes
<1>2. watcher.pod \in TailPods /\ watcher.pod # NoPod /\ c \in TailContainers /\ <<watcher.pod, c>> \in Targets /\ c \in watcher.want
  BY <1>t, TailAssumption DEF WatcherTypes, WatcherOK, Targets
<1>p. PICK t \in Targets : t = <<watcher.pod, c>> BY <1>2
<1>3. /\ watcher'.pc = watcher.pc /\ watcher'.of = watcher.of /\ watcher'.rest = watcher.rest
      /\ watcher'.pod = watcher.pod /\ watcher'.want = watcher.want /\ watcher'.todo = watcher.todo \ {c}
      /\ WatcherTypes'
  BY <1>1, <1>t DEF WatcherTypes
<1>4. UNCHANGED <<pods, feed, tail, known, podSteps>> BY <1>1
<1>n. /\ slots \in 0..MaxLogRequests /\ MaxLogRequests \in Nat /\ slots = Cardinality(DOMAIN active)
      /\ pending \in Seq(Targets) /\ IsInjective(pending) /\ Range(pending) \cap DOMAIN active = {}
      /\ Len(pending) <= MaxLogRequests * pendingMultiplier /\ DOMAIN active \subseteq Targets
      /\ missed \subseteq Targets /\ (pending # <<>> => slots = MaxLogRequests)
      /\ Range(pending) \subseteq Targets
  <2>1. pending \in Seq(Targets) BY <1>t DEF TailTypeOK
  <2>2. Range(pending) \subseteq Targets BY <2>1 DEF Range
  <2>3. QED BY <1>t, <2>1, <2>2, TailAssumption DEF TailTypeOK, SlotsTrue
<1>5. /\ active' \in [DOMAIN active' -> {"following", "ending"}] /\ IsFiniteSet(DOMAIN active') /\ DOMAIN active' \subseteq Targets
      /\ pending' \in Seq(Targets) /\ missed' \subseteq Targets /\ slots' \in 0..MaxLogRequests /\ SlotsTrue'
      /\ \A u : Followed(u) => Followed(u)'
      /\ Followed(t)'
      /\ \A u : u \in Range(pending') \/ (u \in DOMAIN active' /\ active'[u] = "following") =>
                  u \in Range(pending) \/ (u \in DOMAIN active /\ active[u] = "following") \/ u = t
  <2>1. CASE /\ t \in DOMAIN active \/ t \in Range(pending)
             /\ missed' = IF t \in DOMAIN active /\ active[t] = "ending" THEN missed \cup {t} ELSE missed
             /\ UNCHANGED <<active, slots, pending>>
    <3>1. active' = active /\ pending' = pending /\ slots' = slots /\ missed \subseteq missed' /\ missed' \subseteq missed \cup {t}
      BY <2>1
    <3>2. \A u : Followed(u) => Followed(u)' BY <3>1 DEF Followed
    <3>3. Followed(t)'
      <4>1. CASE t \in Range(pending) BY <4>1, <3>1 DEF Followed
      <4>2. CASE t \in DOMAIN active
        <5>1. active[t] \in {"following", "ending"} BY <4>2, <1>t
        <5>2. active[t] = "ending" => t \in missed' BY <4>2, <2>1
        <5>3. QED BY <5>1, <5>2, <4>2, <3>1 DEF Followed
      <4>3. QED BY <2>1, <4>1, <4>2
    <3>4. SlotsTrue' BY <3>1, <1>t DEF SlotsTrue
    <3>5. missed' \subseteq Targets BY <3>1, <1>n, <1>2
    <3>6. QED BY <3>1, <3>2, <3>3, <3>4, <3>5, <1>n, <1>t
  <2>2. CASE /\ t \notin DOMAIN active /\ t \notin Range(pending)
             /\ slots < MaxLogRequests
             /\ active' = Started(active, t) /\ slots' = slots + 1
             /\ missed' = missed \ {t}
             /\ UNCHANGED pending
    <3>1. /\ DOMAIN active' = DOMAIN active \cup {t} /\ active'[t] = "following"
          /\ \A u \in DOMAIN active : active'[u] = active[u]
          /\ active' \in [DOMAIN active' -> {"following", "ending"}]
      BY <2>2, <1>t DEF Started
    <3>2. IsFiniteSet(DOMAIN active') /\ slots' = Cardinality(DOMAIN active')
      BY <3>1, <2>2, <1>t, <1>n, FS_AddElement
    <3>3. pending = <<>> BY <2>2, <1>n
    <3>4. slots' \in 0..MaxLogRequests BY <2>2, <1>n
    <3>5. SlotsTrue' BY <3>1, <3>2, <3>3, <2>2, <1>n DEF SlotsTrue
    <3>6. Followed(t)' /\ \A u : Followed(u) => Followed(u)' BY <3>1, <2>2 DEF Followed
    <3>7. \A u : u \in Range(pending') \/ (u \in DOMAIN active' /\ active'[u] = "following") =>
                   u \in Range(pending) \/ (u \in DOMAIN active /\ active[u] = "following") \/ u = t
      BY <3>1, <2>2
    <3>8. pending' \in Seq(Targets) /\ missed' \subseteq Targets /\ DOMAIN active' \subseteq Targets BY <3>1, <2>2, <1>n, <1>2
    <3>9. QED BY <3>1, <3>2, <3>4, <3>5, <3>6, <3>7, <3>8
  <2>3. CASE /\ t \notin DOMAIN active /\ t \notin Range(pending)
             /\ slots = MaxLogRequests
             /\ pending' = Capped(Append(pending, t))
             /\ missed' = (missed \ {t}) \cup (Range(pending) \ Range(pending'))
             /\ UNCHANGED <<active, slots>>
    <3> DEFINE line == Append(pending, t)
    <3>1. /\ line \in Seq(Targets) /\ Len(line) = Len(pending) + 1 /\ line[Len(pending) + 1] = t
          /\ IsInjective(line) /\ Range(line) = Range(pending) \cup {t}
      BY <2>3, <1>n, <1>2, AppendLine
    <3>2. line # <<>> BY <1>n, <1>2, AppendProperties
    <3>3. pending' = Capped(line) BY <2>3
    <3> HIDE DEF line
    <3>4. /\ pending' \in Seq(Targets) /\ IsInjective(pending') /\ Range(pending') \subseteq Range(pending) \cup {t}
          /\ Len(pending') <= MaxLogRequests * pendingMultiplier /\ t \in Range(pending')
      BY <3>1, <3>2, <3>3, CappedFacts
    <3>5. SlotsTrue' BY <3>4, <2>3, <1>n DEF SlotsTrue
    <3>6. Followed(t)' /\ \A u : Followed(u) => Followed(u)' BY <3>4, <2>3 DEF Followed
    <3>7. \A u : u \in Range(pending') \/ (u \in DOMAIN active' /\ active'[u] = "following") =>
                   u \in Range(pending) \/ (u \in DOMAIN active /\ active[u] = "following") \/ u = t
      BY <3>4, <2>3
    <3>8. /\ missed' \subseteq Targets /\ DOMAIN active' \subseteq Targets /\ slots' \in 0..MaxLogRequests
          /\ active' \in [DOMAIN active' -> {"following", "ending"}] /\ IsFiniteSet(DOMAIN active')
      BY <2>3, <1>n, <1>t
    <3>9. QED BY <3>4, <3>5, <3>6, <3>7, <3>8
  <2>4. QED BY <1>1, <1>p, <2>1, <2>2, <2>3
<1>6. TailTypes' BY <1>t, <1>3, <1>4, <1>5 DEF TailTypes, TailTypeOK
<1>7. WatcherOK' BY <1>t, <1>2, <1>3, <1>4 DEF WatcherOK
<1>8. KnownFollowed' BY <1>t, <1>4, <1>5 DEF KnownFollowed, Followed
<1>9. OnlyKnown'
  <2>1. t[1] = watcher.pod /\ t[2] = c BY <1>p
  <2>2. QED BY <2>1, <1>t, <1>2, <1>3, <1>4, <1>5 DEF OnlyKnown
<1>10. SyncFollowed'
  <2>1. SUFFICES ASSUME tail = "open", NEW d \in watcher.want \ (watcher.todo \ {c}) PROVE Followed(<<watcher.pod, d>>)'
    BY <1>3, <1>4 DEF SyncFollowed
  <2>2. CASE d = c BY <2>2, <1>5, <1>p, <1>3
  <2>3. CASE d # c
    <3>1. d \in watcher.want \ watcher.todo BY <2>1, <2>3
    <3>2. Followed(<<watcher.pod, d>>) BY <3>1, <2>1, <1>t, <1>2 DEF SyncFollowed
    <3>3. PICK u : u = <<watcher.pod, d>> OBVIOUS
    <3>4. QED BY <3>2, <3>3, <1>3, <1>5
  <2>4. QED BY <2>2, <2>3
<1>11. QED BY <1>5, <1>6, <1>7, <1>8, <1>9, <1>10 DEF TailInv

(* The end of a sync: what the pod does not want any more neither is followed nor
   waits, and what it wants was asked for. *)
LEMMA TrimStep ==
  ASSUME TailInv, Trim
  PROVE  TailInv'
<1>t. /\ TailTypeOK /\ WatcherTypes /\ WatcherOK /\ SlotsTrue /\ KnownFollowed /\ OnlyKnown /\ SyncFollowed
      /\ active \in [DOMAIN active -> {"following", "ending"}] /\ IsFiniteSet(DOMAIN active)
      /\ feed \in Seq(PodEvents)
  BY DEF TailInv, TailTypes
<1>1. PICK p \in TailPods, w \in SUBSET TailContainers : p = watcher.pod /\ w = watcher.want
  BY <1>t DEF Trim, WatcherTypes
<1>2. PICK gone : gone = Unwanted(p, w) OBVIOUS
<1>3. /\ p # NoPod /\ watcher.todo = {}
      /\ active' = [t \in DOMAIN active |-> IF t \in gone THEN "ending" ELSE active[t]]
      /\ pending' = Keeping(pending, Targets \ gone)
      /\ missed' = missed \ gone /\ known' = [known EXCEPT ![p] = w]
      /\ watcher' = [watcher EXCEPT !.pod = NoPod, !.want = {}]
      /\ UNCHANGED <<pods, feed, slots, tail, podSteps>>
  BY <1>1, <1>2 DEF Trim
<1>4. gone \subseteq Targets /\ \A u \in Targets : u \in gone <=> u[1] = p /\ u[2] \notin w
  BY <1>2 DEF Unwanted
<1>n. /\ pending \in Seq(Targets) /\ IsInjective(pending) /\ Range(pending) \cap DOMAIN active = {} /\ Len(pending) \in Nat
      /\ Len(pending) <= MaxLogRequests * pendingMultiplier /\ MaxLogRequests * pendingMultiplier \in Nat
      /\ missed \subseteq Targets /\ known \in [TailPods -> SUBSET TailContainers]
      /\ DOMAIN active \subseteq Targets /\ Range(pending) \subseteq Targets
  <2>1. pending \in Seq(Targets) BY <1>t DEF TailTypeOK
  <2>2. Range(pending) \subseteq Targets /\ Len(pending) \in Nat BY <2>1 DEF Range
  <2>3. MaxLogRequests * pendingMultiplier \in Nat BY TailAssumption
  <2>4. QED BY <1>t, <2>1, <2>2, <2>3 DEF TailTypeOK, SlotsTrue
<1>5. /\ DOMAIN active' = DOMAIN active /\ active' \in [DOMAIN active' -> {"following", "ending"}]
      /\ \A u \in DOMAIN active : active'[u] = IF u \in gone THEN "ending" ELSE active[u]
  BY <1>3, <1>t
<1>6. /\ pending' \in Seq(Targets) /\ Len(pending') <= Len(pending) /\ Len(pending') \in Nat
      /\ IsInjective(pending') /\ Range(pending') = Range(pending) \cap (Targets \ gone)
  <2>1. /\ Keeping(pending, Targets \ gone) \in Seq(Targets) /\ Len(Keeping(pending, Targets \ gone)) <= Len(pending)
        /\ IsInjective(Keeping(pending, Targets \ gone))
        /\ Range(Keeping(pending, Targets \ gone)) = Range(pending) \cap (Targets \ gone)
    BY <1>n, KeepingLine
  <2>2. QED BY <1>3, <2>1, LenProperties
<1>7. /\ watcher'.pod = NoPod /\ watcher'.want = {} /\ watcher'.todo = {} /\ WatcherTypes'
  BY <1>3, <1>t DEF WatcherTypes
<1>8. known' \in [TailPods -> SUBSET TailContainers] /\ known'[p] = w /\ \A q \in TailPods : q # p => known'[q] = known[q]
  BY <1>3, <1>n
<1>9. TailTypes'
  <2>1. TailTypeOK' BY <1>t, <1>3, <1>n, <1>5, <1>6, <1>8 DEF TailTypeOK
  <2>2. QED BY <2>1, <1>t, <1>3, <1>5, <1>7 DEF TailTypes
<1>10. WatcherOK'
  <2>1. tail # "none" BY <1>t, <1>1, <1>3 DEF WatcherOK
  <2>2. QED BY <2>1, <1>3, <1>7 DEF WatcherOK
<1>11. SlotsTrue'
  <2>1. pending' # <<>> => pending # <<>> BY <1>6, <1>n, EmptySeq
  <2>2. Len(pending') <= MaxLogRequests * pendingMultiplier BY <1>6, <1>n
  <2>3. QED BY <2>1, <2>2, <1>t, <1>3, <1>n, <1>5, <1>6 DEF SlotsTrue
<1>12. \A u \in Targets : u \notin gone /\ Followed(u) => Followed(u)'
  BY <1>3, <1>5, <1>6 DEF Followed
<1>13. KnownFollowed'
  <2>1. SUFFICES ASSUME tail = "open", NEW q \in TailPods, NEW c \in known'[q] PROVE Followed(<<q, c>>)'
    BY <1>3 DEF KnownFollowed, Followed
  <2>2. PICK u : u = <<q, c>> OBVIOUS
  <2>3. u \in Targets /\ u[1] = q /\ u[2] = c BY <2>2, <1>8 DEF Targets
  <2>4. CASE q = p
    <3>1. c \in watcher.want \ watcher.todo BY <2>1, <2>4, <1>1, <1>3, <1>8
    <3>2. Followed(<<watcher.pod, c>>) BY <3>1, <2>1, <1>t, <1>1, <1>3 DEF SyncFollowed
    <3>3. Followed(u) /\ u \notin gone BY <3>2, <2>2, <2>3, <2>4, <2>1, <1>1, <1>4, <1>8
    <3>4. QED BY <3>3, <2>2, <2>3, <1>12
  <2>5. CASE q # p
    <3>1. c \in known[q] BY <2>1, <2>5, <1>8
    <3>2. Followed(u) BY <3>1, <2>1, <2>2, <1>t DEF KnownFollowed, Followed
    <3>3. u \notin gone BY <2>3, <2>5, <1>4
    <3>4. QED BY <3>2, <3>3, <2>2, <2>3, <1>12
  <2>6. QED BY <2>4, <2>5
<1>14. OnlyKnown'
  <2>1. SUFFICES ASSUME NEW u \in Targets, u \in Range(pending') \/ (u \in DOMAIN active' /\ active'[u] = "following")
                 PROVE  u[2] \in known'[u[1]]
    BY DEF OnlyKnown
  <2>2. u \notin gone BY <2>1, <1>5, <1>6
  <2>3. u \in Range(pending) \/ (u \in DOMAIN active /\ active[u] = "following") BY <2>1, <2>2, <1>5, <1>6
  <2>4. u[2] \in known[u[1]] \/ (p = u[1] /\ u[2] \in w) BY <2>3, <1>t, <1>1 DEF OnlyKnown
  <2>5. u[1] \in TailPods BY DEF Targets
  <2>6. QED BY <2>2, <2>4, <2>5, <1>4, <1>8
<1>15. SyncFollowed' BY <1>7 DEF SyncFollowed
<1>16. QED BY <1>9, <1>10, <1>11, <1>13, <1>14, <1>15 DEF TailInv

(* The slot of a stream that ends goes to the first in line; nobody in line is
   active, so that is the first of all. *)
LEMMA StreamEndsStep ==
  ASSUME TailInv, NEW t \in Targets, StreamEnds(t)
  PROVE  TailInv'
<1>t. /\ TailTypeOK /\ WatcherTypes /\ WatcherOK /\ SlotsTrue /\ KnownFollowed /\ OnlyKnown /\ SyncFollowed
      /\ active \in [DOMAIN active -> {"following", "ending"}] /\ IsFiniteSet(DOMAIN active)
      /\ feed \in Seq(PodEvents)
  BY DEF TailInv, TailTypes
<1>n. /\ slots \in Nat /\ slots <= MaxLogRequests /\ MaxLogRequests \in Nat /\ slots = Cardinality(DOMAIN active)
      /\ pending \in Seq(Targets) /\ IsInjective(pending) /\ Range(pending) \cap DOMAIN active = {}
      /\ Len(pending) \in Nat /\ DOMAIN pending = 1..Len(pending)
      /\ Len(pending) <= MaxLogRequests * pendingMultiplier /\ MaxLogRequests * pendingMultiplier \in Nat
      /\ missed \subseteq Targets /\ (pending # <<>> => slots = MaxLogRequests)
      /\ DOMAIN active \subseteq Targets /\ Range(pending) \subseteq Targets
  <2>1. pending \in Seq(Targets) BY <1>t DEF TailTypeOK
  <2>2. Range(pending) \subseteq Targets /\ Len(pending) \in Nat /\ DOMAIN pending = 1..Len(pending) BY <2>1, LenProperties DEF Range
  <2>3. MaxLogRequests * pendingMultiplier \in Nat /\ MaxLogRequests \in Nat BY TailAssumption
  <2>4. QED BY <1>t, <2>1, <2>2, <2>3 DEF TailTypeOK, SlotsTrue
<1>1. PICK left : left = [s \in DOMAIN active \ {t} |-> active[s]] OBVIOUS
<1>2. /\ t \in DOMAIN active /\ (active[t] = "ending" \/ tail # "open")
      /\ UNCHANGED <<pods, feed, watcher, tail, known, missed, podSteps>>
  BY DEF StreamEnds
<1>3. /\ DOMAIN left = DOMAIN active \ {t} /\ \A u \in DOMAIN left : left[u] = active[u]
      /\ left \in [DOMAIN left -> {"following", "ending"}]
      /\ IsFiniteSet(DOMAIN left) /\ Cardinality(DOMAIN left) = slots - 1
  BY <1>1, <1>2, <1>n, <1>t, FS_RemoveElement
<1>4. /\ pending = <<>> /\ active' = left /\ slots' = slots - 1 /\ pending' = <<>>
      \/ /\ pending # <<>> /\ active' = Started(left, pending[1]) /\ slots' = slots
         /\ pending' = SubSeq(pending, 2, Len(pending))
  <2> DEFINE next == {i \in DOMAIN pending : pending[i] \notin DOMAIN left}
             i == CHOOSE i \in next : \A j \in next : i <= j
  <2>1. next = 1..Len(pending)
    <3>1. \A k \in 1..Len(pending) : pending[k] \in Range(pending) BY <1>n DEF Range
    <3>2. \A k \in 1..Len(pending) : pending[k] \notin DOMAIN left BY <3>1, <1>n, <1>3
    <3>3. QED BY <3>2, <1>n
  <2>2. \/ next = {} /\ active' = left /\ slots' = slots - 1 /\ pending' = <<>>
        \/ next # {} /\ active' = Started(left, pending[i]) /\ slots' = slots /\ pending' = SubSeq(pending, i + 1, Len(pending))
    BY <1>1, Zenon DEF StreamEnds
  <2> HIDE DEF next
  <2>3. pending = <<>> <=> next = {}
    <3>1. pending = <<>> <=> Len(pending) = 0 BY <1>n, EmptySeq
    <3>2. ASSUME Len(pending) = 0 PROVE next = {} BY <3>2, <2>1
    <3>3. ASSUME Len(pending) # 0 PROVE next # {}
      <4>1. 1 <= Len(pending) BY <3>3, <1>n
      <4>2. 1 \in next BY <4>1, <2>1, <1>n
      <4>3. QED BY <4>2
    <3>4. QED BY <3>1, <3>2, <3>3
  <2>4. next # {} => i = 1
    <3>1. SUFFICES ASSUME next # {} PROVE i = 1 OBVIOUS
    <3>2. 1 \in next /\ \A j \in next : 1 <= j BY <3>1, <2>1, <1>n
    <3>3. \A j \in next : j \in Nat BY <2>1
    <3>4. i \in next /\ \A j \in next : i <= j BY <3>2
    <3> HIDE DEF i
    <3>5. QED BY <3>2, <3>3, <3>4
  <2> HIDE DEF i
  <2>5. QED BY <2>2, <2>3, <2>4
<1>5. /\ active' \in [DOMAIN active' -> {"following", "ending"}] /\ IsFiniteSet(DOMAIN active') /\ DOMAIN active' \subseteq Targets
      /\ pending' \in Seq(Targets) /\ slots' \in 0..MaxLogRequests /\ SlotsTrue'
      /\ \A u : u # t /\ Followed(u) => Followed(u)'
      /\ \A u : u \in Range(pending') \/ (u \in DOMAIN active' /\ active'[u] = "following") =>
                  u \in Range(pending) \/ (u \in DOMAIN active /\ active[u] = "following")
  <2>1. CASE pending = <<>> /\ active' = left /\ slots' = slots - 1 /\ pending' = <<>>
    <3>1. Range(pending') = {} /\ IsInjective(pending') /\ pending' \in Seq(Targets) /\ Range(pending) = {}
      BY <2>1, EmptySeq DEF Range, IsInjective
    <3>2. slots' = Cardinality(DOMAIN active') /\ slots' \in 0..MaxLogRequests
      <4>1. slots # 0 BY <1>2, <1>t, <1>n, FS_EmptySet
      <4>2. QED BY <4>1, <2>1, <1>3, <1>n
    <3>3. SlotsTrue' BY <3>1, <3>2, <2>1, <1>n, EmptySeq DEF SlotsTrue
    <3>4. \A u : u # t /\ Followed(u) => Followed(u)' BY <3>1, <2>1, <1>2, <1>3 DEF Followed
    <3>5. \A u : u \in Range(pending') \/ (u \in DOMAIN active' /\ active'[u] = "following") =>
                  u \in Range(pending) \/ (u \in DOMAIN active /\ active[u] = "following")
      BY <3>1, <2>1, <1>3
    <3>6. QED BY <3>1, <3>2, <3>3, <3>4, <3>5, <2>1, <1>3, <1>n
  <2>2. CASE /\ pending # <<>> /\ active' = Started(left, pending[1]) /\ slots' = slots
             /\ pending' = SubSeq(pending, 2, Len(pending))
    <3>1. Len(pending) >= 1 /\ 1 \in 1..Len(pending) /\ 2 \in 1..Len(pending) + 1
      BY <2>2, <1>n, EmptySeq
    <3>2. PICK f \in Targets : f = pending[1] BY <3>1, <1>n
    <3>3. f \in Range(pending) /\ f \notin DOMAIN active BY <3>1, <3>2, <1>n DEF Range
    <3>4. /\ DOMAIN active' = DOMAIN left \cup {f} /\ active'[f] = "following"
          /\ \A u \in DOMAIN left : active'[u] = left[u]
          /\ active' \in [DOMAIN active' -> {"following", "ending"}]
      BY <2>2, <3>2, <3>3, <1>3 DEF Started
    <3>5. /\ pending' \in Seq(Targets) /\ Len(pending') = Len(pending) - 2 + 1 /\ IsInjective(pending')
          /\ Range(pending') = {pending[i] : i \in 2..Len(pending)}
      BY <2>2, <3>1, <1>n, SubLine
    <3>6. Range(pending') = Range(pending) \ {f}
      <4>1. Range(pending) = {pending[i] : i \in 1..Len(pending)} BY <1>n DEF Range
      <4>2. \A i \in 2..Len(pending) : i \in 1..Len(pending) /\ pending[i] # f
        BY <3>1, <3>2, <1>n DEF IsInjective
      <4>3. \A i \in 1..Len(pending) : i \in 2..Len(pending) \/ i = 1 BY <1>n
      <4>4. QED BY <4>1, <4>2, <4>3, <3>5, <3>2
    <3>7. IsFiniteSet(DOMAIN active') /\ slots' = Cardinality(DOMAIN active') /\ slots' \in 0..MaxLogRequests
      <4>1. f \notin DOMAIN left BY <3>3, <1>3
      <4>2. IsFiniteSet(DOMAIN active') /\ Cardinality(DOMAIN active') = Cardinality(DOMAIN left) + 1
        BY <4>1, <3>4, <1>3, FS_AddElement
      <4>3. QED BY <4>2, <2>2, <1>3, <1>n
    <3>8. SlotsTrue'
      <4>1. Len(pending') <= MaxLogRequests * pendingMultiplier BY <3>5, <1>n
      <4>2. Range(pending') \cap DOMAIN active' = {} BY <3>4, <3>6, <1>3, <1>n
      <4>3. slots' = MaxLogRequests BY <2>2, <1>n
      <4>4. QED BY <4>1, <4>2, <4>3, <3>5, <3>7 DEF SlotsTrue
    <3>9. \A u : u # t /\ Followed(u) => Followed(u)' BY <3>4, <3>6, <1>2, <1>3 DEF Followed
    <3>10. \A u : u \in Range(pending') \/ (u \in DOMAIN active' /\ active'[u] = "following") =>
                  u \in Range(pending) \/ (u \in DOMAIN active /\ active[u] = "following")
      BY <3>3, <3>4, <3>6, <1>3
    <3>11. DOMAIN active' \subseteq Targets BY <3>4, <1>3, <1>n
    <3>12. QED BY <3>4, <3>5, <3>7, <3>8, <3>9, <3>10, <3>11
  <2>3. QED BY <1>4, <2>1, <2>2
<1>6. tail = "open" /\ Followed(t) => Followed(t)'
  <2>1. SUFFICES ASSUME tail = "open", Followed(t) PROVE t \in missed' BY DEF Followed
  <2>2. active[t] = "ending" /\ t \notin Range(pending) BY <2>1, <1>2, <1>n
  <2>3. QED BY <2>1, <2>2, <1>2 DEF Followed
<1>7. TailTypes' BY <1>t, <1>2, <1>5 DEF TailTypes, TailTypeOK, WatcherTypes
<1>8. WatcherOK' BY <1>t, <1>2 DEF WatcherOK
<1>9. KnownFollowed'
  <2>1. SUFFICES ASSUME tail = "open", NEW q \in TailPods, NEW c \in known[q] PROVE Followed(<<q, c>>)'
    BY <1>2 DEF KnownFollowed, Followed
  <2>2. PICK u : u = <<q, c>> OBVIOUS
  <2>3. Followed(u) BY <2>1, <2>2, <1>t DEF KnownFollowed, Followed
  <2>4. QED BY <2>1, <2>2, <2>3, <1>5, <1>6
<1>10. OnlyKnown' BY <1>t, <1>2, <1>5 DEF OnlyKnown
<1>11. SyncFollowed'
  <2>1. SUFFICES ASSUME tail = "open", watcher.pod # NoPod, NEW d \in watcher.want \ watcher.todo
                 PROVE  Followed(<<watcher.pod, d>>)'
    BY <1>2 DEF SyncFollowed
  <2>2. PICK u : u = <<watcher.pod, d>> OBVIOUS
  <2>3. Followed(u) BY <2>1, <2>2, <1>t DEF SyncFollowed
  <2>4. Followed(u)' BY <2>1, <2>3, <1>5, <1>6
  <2>5. QED BY <2>2, <2>4, <1>2
<1>12. QED BY <1>5, <1>7, <1>8, <1>9, <1>10, <1>11 DEF TailInv

(* The watcher as it is between two pods, whatever it does next. *)
LEMMA WatcherAtTypes ==
  ASSUME NEW pc \in {"work", "list", "watch", "backoff", "done"}, NEW of \in {"start", "list", "event"},
         NEW rest, DOMAIN rest \subseteq TailPods, rest \in [DOMAIN rest -> SUBSET TailContainers],
         watcher' = WatcherAt(pc, of, rest)
  PROVE  /\ WatcherTypes' /\ watcher'.pod = NoPod /\ watcher'.want = {} /\ watcher'.todo = {} /\ watcher'.pc = pc
<1>1. watcher' = [pc |-> pc, of |-> of, rest |-> rest, pod |-> NoPod, want |-> {}, todo |-> {}] BY DEF WatcherAt
<1>2. /\ watcher'.pc = pc /\ watcher'.of = of /\ watcher'.rest = rest /\ watcher'.pod = NoPod
      /\ watcher'.want = {} /\ watcher'.todo = {}
  BY <1>1
<1>3. QED BY <1>1, <1>2 DEF WatcherTypes

(* The same where nothing is left to work off. *)
LEMMA ResumeTypes ==
  ASSUME NEW pc \in {"work", "list", "watch", "backoff", "done"}, watcher' = Resume(pc)
  PROVE  /\ WatcherTypes' /\ watcher'.pod = NoPod /\ watcher'.want = {} /\ watcher'.todo = {} /\ watcher'.pc = pc
<1>1. DOMAIN <<>> \subseteq TailPods /\ <<>> \in [DOMAIN <<>> -> SUBSET TailContainers]
  <2>1. DOMAIN <<>> = {} OBVIOUS
  <2>2. QED BY <2>1
<1>2. watcher' = WatcherAt(pc, "event", <<>>) BY DEF Resume
<1>3. PICK rest : rest = <<>> OBVIOUS
<1>4. QED BY <1>1, <1>2, <1>3, WatcherAtTypes

(* A step that touches no stream and no waiter, and begins the sync of a pod at
   most, upsets nothing. *)
LEMMA CalmStep ==
  ASSUME TailInv, TailTypes', WatcherOK',
         UNCHANGED <<active, slots, pending, known, missed>>,
         watcher' = watcher \/ (watcher.pod = NoPod /\ watcher'.todo = watcher'.want),
         tail' = "open" => tail \in {"none", "open"}
  PROVE  TailInv'
<1>1. WatcherOK /\ SlotsTrue /\ KnownFollowed /\ OnlyKnown /\ SyncFollowed BY DEF TailInv
<1>2. SlotsTrue' BY <1>1 DEF SlotsTrue
<1>3. KnownFollowed' BY <1>1 DEF KnownFollowed, WatcherOK
<1>4. OnlyKnown'
  <2>1. NoPod \notin TailPods /\ \A t \in Targets : t[1] \in TailPods BY TailAssumption DEF Targets
  <2>2. CASE watcher' = watcher BY <2>2, <1>1 DEF OnlyKnown
  <2>3. CASE watcher.pod = NoPod BY <2>1, <2>3, <1>1 DEF OnlyKnown
  <2>4. QED BY <2>2, <2>3
<1>5. \A t : Followed(t)' <=> Followed(t) BY DEF Followed
<1>6. SyncFollowed'
  <2>1. CASE watcher' = watcher BY <2>1, <1>1, <1>5 DEF SyncFollowed, WatcherOK
  <2>2. CASE watcher'.todo = watcher'.want BY <2>2 DEF SyncFollowed
  <2>3. QED BY <2>1, <2>2
<1>7. QED BY <1>2, <1>3, <1>4, <1>6 DEF TailInv

(* The steps of the watch between two pods. *)
LEMMA BetweenPodsStep ==
  ASSUME TailInv, StartTail \/ WorkDone \/ ListPods \/ HandlePodEvent \/ WatchFails \/ BackoffOver \/ WatcherStops
  PROVE  TailInv'
<1>t. TailTypes /\ WatcherOK /\ TailTypeOK /\ WatcherTypes BY DEF TailInv, TailTypes
<1>n. podSteps \in Nat /\ MaxPodSteps \in Nat /\ podSteps <= MaxPodSteps /\ (podSteps < MaxPodSteps => podSteps + 1 \in 0..MaxPodSteps)
  BY <1>t, TailAssumption DEF TailTypeOK
<1>1. UNCHANGED <<pods, active, slots, pending, known, missed>>
  BY DEF StartTail, WorkDone, ListPods, HandlePodEvent, WatchFails, BackoffOver, WatcherStops
<1>2. podSteps' \in 0..MaxPodSteps
  BY <1>n, <1>t DEF StartTail, WorkDone, ListPods, HandlePodEvent, WatchFails, BackoffOver, WatcherStops, TailTypeOK
<1>3. feed' \in Seq(PodEvents)
  <2>1. feed \in Seq(PodEvents) BY <1>t DEF TailTypes
  <2>2. <<>> \in Seq(PodEvents) OBVIOUS
  <2>3. feed # <<>> => Tail(feed) \in Seq(PodEvents) BY <2>1
  <2>4. feed' = feed \/ feed' = <<>> \/ (feed # <<>> /\ feed' = Tail(feed))
    BY DEF StartTail, WorkDone, ListPods, HandlePodEvent, WatchFails, BackoffOver, WatcherStops
  <2>5. QED BY <2>1, <2>2, <2>3, <2>4
<1>4. tail' # "none" /\ (tail' = "open" => tail \in {"none", "open"}) /\ watcher.pod = NoPod
  <2>1. tail = "none" => watcher.pc = "done" /\ watcher.pod = NoPod BY <1>t DEF WatcherOK
  <2>2. watcher.pc # "work" => watcher.pod = NoPod BY <1>t DEF WatcherOK
  <2>3. CASE StartTail BY <2>1, <2>3 DEF StartTail
  <2>4. CASE WorkDone BY <2>1, <2>4 DEF WorkDone
  <2>5. CASE ListPods BY <2>1, <2>2, <2>5 DEF ListPods
  <2>6. CASE HandlePodEvent BY <2>1, <2>2, <2>6 DEF HandlePodEvent
  <2>7. CASE WatchFails BY <2>1, <2>2, <2>7 DEF WatchFails
  <2>8. CASE BackoffOver BY <2>1, <2>2, <2>8 DEF BackoffOver
  <2>9. CASE WatcherStops BY <2>1, <2>2, <2>9 DEF WatcherStops
  <2>10. QED BY <2>3, <2>4, <2>5, <2>6, <2>7, <2>8, <2>9
<1>5. WatcherTypes' /\ watcher'.pod = NoPod /\ watcher'.want = {} /\ watcher'.todo = {}
  <2>1. CASE \E shot \in [TailPods -> SUBSET TailContainers] :
               \/ watcher' = WatcherAt("work", "start", shot)
               \/ watcher' = WatcherAt("work", "list", shot)
    BY <2>1, WatcherAtTypes
  <2>2. CASE HandlePodEvent
    <3>1. feed \in Seq(PodEvents) /\ feed # <<>> BY <2>2, <1>t DEF TailTypes, HandlePodEvent
    <3>2. PICK e \in PodEvents : e = Head(feed) BY <3>1
    <3>3. PICK rest : rest = [p \in {e.pod} |-> e.want] OBVIOUS
    <3>4. e.pod \in TailPods /\ e.want \in SUBSET TailContainers BY <3>2 DEF PodEvents
    <3>5. DOMAIN rest \subseteq TailPods /\ rest \in [DOMAIN rest -> SUBSET TailContainers] BY <3>3, <3>4
    <3>6. watcher' = WatcherAt("work", "event", rest) BY <2>2, <3>2, <3>3 DEF HandlePodEvent
    <3>7. QED BY <3>5, <3>6, WatcherAtTypes
  <2>3. CASE \E pc \in {"list", "watch", "backoff", "done"} : watcher' = Resume(pc) BY <2>3, ResumeTypes
  <2>4. pods \in [TailPods -> SUBSET TailContainers] BY <1>t DEF TailTypeOK
  <2>5. QED
    BY <2>1, <2>2, <2>3, <2>4 DEF StartTail, WorkDone, ListPods, WatchFails, BackoffOver, WatcherStops
<1>6. TailTypes' BY <1>t, <1>1, <1>2, <1>3, <1>5 DEF TailTypes, TailTypeOK
<1>7. WatcherOK' BY <1>4, <1>5 DEF WatcherOK
<1>8. QED BY <1>1, <1>4, <1>5, <1>6, <1>7, CalmStep

(* The next pod: none of its containers was asked for yet. *)
LEMMA TakePodStep ==
  ASSUME TailInv, TakePod
  PROVE  TailInv'
<1>t. TailTypes /\ WatcherOK /\ TailTypeOK /\ WatcherTypes BY DEF TailInv, TailTypes
<1>1. PICK p \in DOMAIN watcher.rest :
        watcher' = [watcher EXCEPT !.pod = p, !.want = watcher.rest[p], !.todo = watcher.rest[p],
                                   !.rest = [q \in DOMAIN @ \ {p} |-> @[q]]]
  BY DEF TakePod
<1>2. watcher.pc = "work" /\ watcher.pod = NoPod
      /\ UNCHANGED <<pods, feed, active, slots, pending, tail, known, missed, podSteps>>
  BY DEF TakePod
<1>3. PICK left : left = [q \in DOMAIN watcher.rest \ {p} |-> watcher.rest[q]] OBVIOUS
<1>4. p \in TailPods /\ watcher.rest[p] \subseteq TailContainers
      /\ DOMAIN left \subseteq TailPods /\ left \in [DOMAIN left -> SUBSET TailContainers]
  BY <1>1, <1>3, <1>t DEF WatcherTypes
<1>5. watcher' = [pc |-> watcher.pc, of |-> watcher.of, rest |-> left, pod |-> p,
                  want |-> watcher.rest[p], todo |-> watcher.rest[p]]
  BY <1>1, <1>3, <1>t DEF WatcherTypes
<1>6. /\ watcher'.pc = "work" /\ watcher'.of = watcher.of /\ watcher'.rest = left /\ watcher'.pod = p
      /\ watcher'.want = watcher.rest[p] /\ watcher'.todo = watcher.rest[p]
  BY <1>5, <1>2
<1>7. WatcherTypes'
  <2>1. watcher' = [pc |-> watcher'.pc, of |-> watcher'.of, rest |-> watcher'.rest, pod |-> watcher'.pod,
                    want |-> watcher'.want, todo |-> watcher'.todo]
    BY <1>5, <1>6, <1>2
  <2>2. QED BY <2>1, <1>6, <1>4, <1>t DEF WatcherTypes
<1>8. TailTypes' BY <1>t, <1>2, <1>7 DEF TailTypes, TailTypeOK
<1>9. WatcherOK'
  <2>1. p # NoPod /\ tail # "none" BY <1>4, <1>2, <1>t, TailAssumption DEF WatcherOK
  <2>2. QED BY <2>1, <1>2, <1>6 DEF WatcherOK
<1>10. QED BY <1>2, <1>6, <1>8, <1>9, CalmStep

(* stop and its return, a change of the cluster, and a step of another component. *)
LEMMA OutsideStep ==
  ASSUME TailInv, StopTail \/ TailReturns \/ PodChanges \/ UNCHANGED tailVars
  PROVE  TailInv'
<1>t. TailTypes /\ WatcherOK /\ TailTypeOK /\ WatcherTypes BY DEF TailInv, TailTypes
<1>1. UNCHANGED <<watcher, active, slots, pending, known, missed>> BY DEF StopTail, TailReturns, PodChanges, tailVars
<1>2. tail' = "open" => tail = "open" BY DEF StopTail, TailReturns, PodChanges, tailVars
<1>3. tail' = "none" => tail = "none" BY DEF StopTail, TailReturns, PodChanges, tailVars
<1>4. podSteps' \in 0..MaxPodSteps
  <2>1. podSteps \in Nat /\ MaxPodSteps \in Nat /\ podSteps <= MaxPodSteps BY <1>t, TailAssumption DEF TailTypeOK
  <2>2. podSteps' = podSteps \/ (podSteps < MaxPodSteps /\ podSteps' = podSteps + 1)
    BY DEF StopTail, TailReturns, PodChanges, tailVars
  <2>3. QED BY <2>1, <2>2
<1>5. pods' \in [TailPods -> SUBSET TailContainers] /\ feed' \in Seq(PodEvents)
  <2>1. pods \in [TailPods -> SUBSET TailContainers] /\ feed \in Seq(PodEvents) BY <1>t DEF TailTypes, TailTypeOK
  <2>2. CASE pods' = pods /\ feed' = feed BY <2>1, <2>2
  <2>3. CASE PodChanges
    <3>1. PICK p \in TailPods, want \in SUBSET TailContainers :
            /\ pods' = [pods EXCEPT ![p] = want]
            /\ feed' = feed \/ feed' = Append(feed, [pod |-> p, want |-> want])
      BY <2>3 DEF PodChanges
    <3>2. [pod |-> p, want |-> want] \in PodEvents BY DEF PodEvents
    <3>3. PICK e \in PodEvents : e = [pod |-> p, want |-> want] BY <3>2
    <3>4. Append(feed, e) \in Seq(PodEvents) BY <2>1
    <3>5. QED BY <2>1, <3>1, <3>3, <3>4
  <2>4. QED BY <2>2, <2>3 DEF StopTail, TailReturns, tailVars
<1>6. TailTypes' BY <1>t, <1>1, <1>4, <1>5 DEF TailTypes, TailTypeOK, WatcherTypes
<1>7. WatcherOK' BY <1>t, <1>1, <1>3 DEF WatcherOK
<1>8. QED BY <1>1, <1>2, <1>6, <1>7, CalmStep

(* The follows of a tail are those of the pods its watch knows, as many at a
   time as there are slots, for any pods, containers, limit of streams and length
   of the line (log_streamer.go:162): however the ends of streams meet changes of
   pods, relists and a full line. *)
THEOREM FollowsTheorem == TailSpec => []FollowsHold
<1>1. TailInit => TailInv BY TailInitInv
<1>2. TailInv /\ [TailNext]_tailVars => TailInv'
  <2>1. SUFFICES ASSUME TailInv, [TailNext]_tailVars PROVE TailInv' OBVIOUS
  <2>2. CASE Ensure BY <2>1, <2>2, EnsureStep
  <2>3. CASE Trim BY <2>1, <2>3, TrimStep
  <2>4. CASE \E t \in Targets : StreamEnds(t) BY <2>1, <2>4, StreamEndsStep
  <2>5. CASE StartTail \/ WorkDone \/ ListPods \/ HandlePodEvent \/ WatchFails \/ BackoffOver \/ WatcherStops
    BY <2>1, <2>5, BetweenPodsStep
  <2>6. CASE TakePod BY <2>1, <2>6, TakePodStep
  <2>7. CASE StopTail \/ TailReturns \/ PodChanges \/ UNCHANGED tailVars BY <2>1, <2>7, OutsideStep
  <2>8. QED BY <2>1, <2>2, <2>3, <2>4, <2>5, <2>6, <2>7 DEF TailNext, WatcherNext
<1>3. TailInv => FollowsHold BY DEF TailInv, TailTypes, FollowsHold
<1>4. QED BY <1>1, <1>2, <1>3, PTL DEF TailSpec
=============================================================================
