----------------------------- MODULE ListsProofs ----------------------------
(***************************************************************************)
(* Proofs about what a window lists and tells of one object: the matched   *)
(* components with the focus kept on one of them, the tables of resources, *)
(* the sections of the inspector and the chain of a pinned focus.          *)
(***************************************************************************)
EXTENDS MCLists, KeptProofs, FiniteSetTheorems


-----------------------------------------------------------------------------
(* The matched components *)

(* A finite set of numbered things has a greatest. *)
LEMMA GreatestOf ==
  ASSUME NEW S, IsFiniteSet(S), S # {}, NEW f \in [S -> Int]
  PROVE  \E r \in S : \A s \in S : f[r] >= f[s]
<1> DEFINE Above(r) == {s \in S : f[s] > f[r]}
           U == {Cardinality(Above(r)) : r \in S}
<1>1. \A r \in S : IsFiniteSet(Above(r)) /\ Cardinality(Above(r)) \in Nat
  <2> TAKE r \in S
  <2>1. Above(r) \in SUBSET S OBVIOUS
  <2>2. IsFiniteSet(Above(r)) BY <2>1, FS_Subset
  <2> QED BY <2>2, FS_CardinalityType
<1>2. U \subseteq Nat /\ U # {} BY <1>1
<1>3. PICK n \in U : \A m \in U : n <= m BY <1>2, NatHasMin
<1>4. PICK r \in S : n = Cardinality(Above(r)) BY <1>3
<1>5. \A s \in S : f[r] >= f[s]
  <2> SUFFICES ASSUME NEW s \in S, f[s] > f[r] PROVE FALSE BY DEF Above
  <2>1. Above(s) \in SUBSET Above(r) BY DEF Above
  <2>2. s \in Above(r) /\ s \notin Above(s) BY DEF Above
  <2>3. Cardinality(Above(s)) <= Cardinality(Above(r)) /\ Cardinality(Above(s)) # Cardinality(Above(r))
    BY <1>1, <2>1, <2>2, FS_Subset
  <2>4. n <= Cardinality(Above(s)) BY <1>3
  <2>5. Cardinality(Above(s)) \in Nat /\ Cardinality(Above(r)) \in Nat BY <1>1
  <2> HIDE DEF Above
  <2> QED BY <1>4, <2>3, <2>4, <2>5
<1> QED BY <1>5

Verdicts == {"critical", "degraded", "healthy"}

(* The verdict on one pod names what is wrong with it, if anything is. *)
LEMMA PodFactsOf ==
  ASSUME NEW p
  PROVE  LET s == podStatus(p)
         IN  /\ s.status \in Verdicts
             /\ s.status = "healthy" => p.ready \/ p.phase = "succeeded"
             /\ s.status # "healthy" => s.signal # "none" /\ p.phase # "succeeded"
             /\ s.status = "degraded" /\ s.signal = "not ready" => ~p.ready /\ ~Terminal(p)
             /\ ~Terminal(p) /\ p.ready => s.status = "healthy"
             /\ p.phase = "failed" => s.status = "critical"
BY DEF podStatus, Terminal, Verdicts

(* The worst of some pods is the verdict on one of them, or they are all well. *)
LEMMA WorstFacts ==
  ASSUME NEW pods
  PROVE  LET w == worstPodStatus(pods)
         IN  /\ w.status \in Verdicts
             /\ \A p \in pods : StatusRank(w.status) <= StatusRank(podStatus(p).status)
             /\ w.status # "healthy" => \E p \in pods : w = podStatus(p)
             /\ w.status = "healthy" => w.signal = "none" /\ \A p \in pods : podStatus(p).status = "healthy"
<1> DEFINE worse == {podStatus(p) : p \in {q \in pods : podStatus(q).status # "healthy"}}
           U == {StatusRank(w.status) : w \in worse}
           w == worstPodStatus(pods)
<1>1. \A p \in pods : podStatus(p).status \in Verdicts BY PodFactsOf
<1>2. CASE worse = {}
  <2>1. \A p \in pods : podStatus(p).status = "healthy" BY <1>2
  <2>2. w = [status |-> "healthy", signal |-> "none"] BY <1>2 DEF worstPodStatus
  <2> QED BY <2>1, <2>2 DEF Verdicts, StatusRank
<1>3. CASE worse # {}
  <2>1. U \subseteq Nat /\ U # {} BY <1>3 DEF StatusRank
  <2>2. PICK n \in U : \A m \in U : n <= m BY <2>1, NatHasMin
  <2>3. \E x \in worse : \A v \in worse : StatusRank(x.status) <= StatusRank(v.status) BY <2>2
  <2>4. w = CHOOSE x \in worse : \A v \in worse : StatusRank(x.status) <= StatusRank(v.status) BY <1>3 DEF worstPodStatus
  <2>5. w \in worse /\ \A v \in worse : StatusRank(w.status) <= StatusRank(v.status) BY <2>3, <2>4
  <2>6. w.status \in {"critical", "degraded"} BY <1>1, <2>5 DEF Verdicts
  <2>7. \A p \in pods : StatusRank(w.status) <= StatusRank(podStatus(p).status)
    <3> TAKE p \in pods
    <3>1. CASE podStatus(p).status = "healthy" BY <2>6, <3>1 DEF StatusRank
    <3>2. CASE podStatus(p).status # "healthy" BY <2>5, <3>2
    <3> QED BY <3>1, <3>2
  <2> QED BY <2>5, <2>6, <2>7 DEF Verdicts
<1> QED BY <1>2, <1>3

(* Pods that are all ready are as many as those of them that are. *)
LEMMA AllReady ==
  ASSUME NEW op, IsFiniteSet(op), Cardinality({p \in op : p.ready}) = Cardinality(op)
  PROVE  \A p \in op : p.ready
<1>1. {p \in op : p.ready} \in SUBSET op OBVIOUS
<1>2. op = {p \in op : p.ready} BY <1>1, FS_Subset
<1> QED BY <1>2

(* What reconcileWorkloadHealth makes of a verdict: it stays, or the live pods are all
   ready and it was that some were not. *)
LEMMA ReconcileFacts ==
  ASSUME NEW row, NEW wl, NEW pods, IsFiniteSet(pods)
  PROVE  LET h == reconcileWorkloadHealth(row, wl, pods)
         IN  \/ h = row
             \/ /\ h = [status |-> "healthy", signal |-> "none"]
                /\ row.status = "degraded" /\ row.signal = "not ready"
                /\ \A p \in pods : ~Terminal(p) => p.ready
                /\ \E p \in pods : ~Terminal(p)
<1> DEFINE op == {p \in pods : ~Terminal(p)}
           enough == \E w \in wl : /\ Cardinality({p \in op : p.ready}) = Cardinality(op)
                                    /\ \/ Cardinality({p \in op : p.ready}) >= w.replicas
                                       \/ Cardinality({p \in op : p.ready}) >= w.ready /\ w.ready >= w.replicas
           h == reconcileWorkloadHealth(row, wl, pods)
<1>1. h = IF wl = {} \/ row.status # "degraded" \/ row.signal # "not ready" \/ op = {} THEN row
          ELSE IF enough THEN [status |-> "healthy", signal |-> "none"] ELSE row
  BY DEF reconcileWorkloadHealth
<1>2. IsFiniteSet(op)
  <2>1. op \in SUBSET pods OBVIOUS
  <2> QED BY <2>1, FS_Subset
<1>3. enough => \A p \in op : p.ready
  BY <1>2, AllReady
<1>4. h = row \/ (h = [status |-> "healthy", signal |-> "none"] /\ row.status = "degraded" /\ row.signal = "not ready"
                 /\ op # {} /\ enough)
  <2> HIDE DEF op, enough, h
  <2> QED BY <1>1
<1> QED BY <1>3, <1>4

(* The health of a match, before the replica counts are reconciled with the pods: *)
(* no better than its worst pod, and explained when it is not well. *)
Verdict(row, ref, pods) ==
  /\ row.status \in Verdicts
  /\ row.status # "healthy" => row.signal # "none"
  /\ ref.kind # "Service" => StatusRank(row.status) <= StatusRank(worstPodStatus(pods).status)
  /\ ref.kind # "Service" /\ row.status = "healthy" => \A p \in pods : p.ready \/ p.phase = "succeeded"

LEMMA HealthFacts ==
  ASSUME NEW ref, NEW v, IsFiniteSet(v.pods)
  PROVE  Verdict(HealthOf(ref, v), ref, podsForHealth(ref, v.pods))
<1> DEFINE wl == {w \in v.loads : w.kind = ref.kind /\ w.name = ref.name}
           related == podsForHealth(ref, v.pods)
           worst == worstPodStatus(related)
           svc == IF ref.kind = "Service" THEN {s \in v.services : s.name = ref.name} ELSE {}
           ok == [status |-> "healthy", signal |-> "none"]
           bad == [status |-> "degraded", signal |-> "not ready"]
           afterLoad == IF \E w \in wl : w.ready < w.replicas THEN bad ELSE ok
           afterPods == IF related # {} /\ StatusRank(worst.status) < StatusRank(afterLoad.status) THEN worst
                        ELSE IF afterLoad.signal = "none" /\ \E p \in related : ~p.ready THEN bad ELSE afterLoad
           afterSvc == IF \E s \in svc : s.total > 0 /\ s.ready < s.total
                       THEN [status |-> "degraded", signal |-> IF afterPods.signal = "none" THEN "not ready" ELSE afterPods.signal]
                       ELSE afterPods
           afterPod == IF ref.kind = "Pod" /\ Cardinality(related) = 1
                       THEN podStatus(CHOOSE p \in related : TRUE) ELSE afterSvc
<1>1. HealthOf(ref, v) = reconcileWorkloadHealth(afterPod, wl, related)
  BY DEF HealthOf
<1>2. IsFiniteSet(related)
  <2>1. related \in SUBSET v.pods BY DEF podsForHealth, podsForMatch
  <2> QED BY <2>1, FS_Subset
<1>3. afterLoad \in {ok, bad}
  <2> HIDE DEF ok, bad, wl
  <2> QED OBVIOUS
<1> HIDE DEF related, wl, afterLoad, svc
<1>4. Verdict(afterPods, ref, related)
  <2>1. /\ worst.status \in Verdicts
        /\ \A p \in related : StatusRank(worst.status) <= StatusRank(podStatus(p).status)
        /\ worst.status # "healthy" => \E p \in related : worst = podStatus(p)
        /\ worst.status = "healthy" => worst.signal = "none" /\ \A p \in related : podStatus(p).status = "healthy"
    BY WorstFacts
  <2>2. \A p \in related :
           /\ podStatus(p).status = "healthy" => p.ready \/ p.phase = "succeeded"
           /\ podStatus(p).status # "healthy" => podStatus(p).signal # "none"
    BY PodFactsOf
  <2>3. worst.status # "healthy" => worst.signal # "none" BY <2>1, <2>2
  <2> HIDE DEF worst
  <2>4. /\ ok.status = "healthy" /\ ok.signal = "none" /\ bad.status = "degraded" /\ bad.signal = "not ready"
        /\ ok # bad
    OBVIOUS
  <2>5. /\ StatusRank("critical") = 0 /\ StatusRank("degraded") = 1 /\ StatusRank("healthy") = 2
    BY DEF StatusRank
  <2>6. related = {} => worst.status = "healthy" BY <2>1
  <2>7. /\ StatusRank(worst.status) = IF worst.status = "critical" THEN 0 ELSE IF worst.status = "degraded" THEN 1 ELSE 2
        /\ afterLoad = ok => StatusRank(afterLoad.status) = 2
        /\ afterLoad = bad => StatusRank(afterLoad.status) = 1
    <3>1. worst.status = "critical" \/ worst.status = "degraded" \/ worst.status = "healthy" BY <2>1 DEF Verdicts
    <3>2. /\ worst.status = "critical" => StatusRank(worst.status) = StatusRank("critical")
          /\ worst.status = "degraded" => StatusRank(worst.status) = StatusRank("degraded")
          /\ worst.status = "healthy" => StatusRank(worst.status) = StatusRank("healthy")
          /\ afterLoad = ok => StatusRank(afterLoad.status) = StatusRank("healthy")
          /\ afterLoad = bad => StatusRank(afterLoad.status) = StatusRank("degraded")
      BY <2>4
    <3> QED BY <2>5, <3>1, <3>2
  <2> HIDE DEF worst, ok, bad
  <2>8. CASE related # {} /\ StatusRank(worst.status) < StatusRank(afterLoad.status)
    <3>1. afterPods = worst BY <2>8
    <3>2. StatusRank(worst.status) < 2
      <4>1. CASE afterLoad = ok BY <2>8, <2>7, <4>1
      <4>2. CASE afterLoad = bad BY <2>8, <2>7, <4>2
      <4> QED BY <1>3, <4>1, <4>2
    <3>3. worst.status # "healthy" BY <2>5, <3>2
    <3>4. StatusRank(worst.status) <= StatusRank(worst.status) BY <2>1, <2>5 DEF Verdicts
    <3> HIDE DEF afterPods
    <3> QED BY <2>1, <2>3, <3>1, <3>3, <3>4 DEF Verdict, worst
  <2>9. CASE ~(related # {} /\ StatusRank(worst.status) < StatusRank(afterLoad.status))
    <3>1. CASE afterLoad = ok
      <4>1. worst.status = "healthy" BY <2>1, <2>6, <2>9, <2>7, <3>1 DEF Verdicts
      <4>2. afterPods = bad \/ (afterPods = ok /\ \A p \in related : p.ready) BY <2>4, <2>9, <3>1
      <4>3. afterPods.status \in {"healthy", "degraded"} /\ (afterPods.status # "healthy" => afterPods.signal # "none")
            /\ (afterPods.status = "healthy" => \A p \in related : p.ready)
        BY <2>4, <4>2
      <4>4. StatusRank(afterPods.status) <= StatusRank(worst.status)
        BY <2>5, <4>1, <4>3
      <4> HIDE DEF afterPods
      <4> QED BY <4>3, <4>4 DEF Verdict, Verdicts, worst
    <3>2. CASE afterLoad = bad
      <4>1. StatusRank(worst.status) >= 1 BY <2>6, <2>9, <2>7, <3>2
      <4>2. afterPods = bad BY <2>4, <2>9, <3>2
      <4>3. afterPods.status = "degraded" /\ afterPods.signal # "none" BY <2>4, <4>2
      <4>4. StatusRank(worst.status) \in Int BY <2>1, <2>5 DEF Verdicts
      <4>5. StatusRank(afterPods.status) <= StatusRank(worst.status)
        BY <2>5, <4>1, <4>3, <4>4
      <4> HIDE DEF afterPods
      <4> QED BY <4>3, <4>5 DEF Verdict, Verdicts, worst
    <3> QED BY <1>3, <3>1, <3>2
  <2> QED BY <2>8, <2>9
<1> HIDE DEF afterPods
<1>5. Verdict(afterSvc, ref, related)
  <2>1. CASE svc = {} BY <1>4, <2>1
  <2>2. CASE svc # {}
    <3>1. ref.kind = "Service" BY <2>2 DEF svc
    <3>2. afterSvc = afterPods \/ (afterSvc.status = "degraded" /\ afterSvc.signal # "none") OBVIOUS
    <3> QED BY <1>4, <3>1, <3>2 DEF Verdict, Verdicts
  <2> QED BY <2>1, <2>2
<1> HIDE DEF afterSvc
<1>6. Verdict(afterPod, ref, related)
  <2>1. CASE ref.kind = "Pod" /\ Cardinality(related) = 1
    <3>1. PICK q : related = {q} BY <1>2, <2>1, FS_Singleton
    <3>2. afterPod = podStatus(q) BY <2>1, <3>1
    <3>3. worst.status \in Verdicts /\ (worst.status # "healthy" => worst = podStatus(q))
          /\ (worst.status = "healthy" => podStatus(q).status = "healthy")
      BY <3>1, WorstFacts
    <3>4. StatusRank(podStatus(q).status) <= StatusRank(worst.status) BY <3>3 DEF StatusRank
    <3>5. /\ podStatus(q).status \in Verdicts
          /\ podStatus(q).status = "healthy" => q.ready \/ q.phase = "succeeded"
          /\ podStatus(q).status # "healthy" => podStatus(q).signal # "none"
      BY PodFactsOf
    <3> HIDE DEF afterPod
    <3> QED BY <3>1, <3>2, <3>4, <3>5 DEF Verdict
  <2>2. CASE ~(ref.kind = "Pod" /\ Cardinality(related) = 1) BY <1>5, <2>2
  <2> QED BY <2>1, <2>2
<1> HIDE DEF afterPod
<1>7. Verdict(HealthOf(ref, v), ref, related)
  <2>1. CASE HealthOf(ref, v) = afterPod BY <1>6, <2>1
  <2>2. CASE HealthOf(ref, v) # afterPod
    <3>1. /\ HealthOf(ref, v) = [status |-> "healthy", signal |-> "none"]
          /\ afterPod.status = "degraded"
          /\ \A p \in related : ~Terminal(p) => p.ready
      BY <1>1, <1>2, <2>2, ReconcileFacts
    <3>2. ref.kind # "Service" => \A p \in related : podStatus(p).status # "critical"
      <4>1. ref.kind # "Service" => StatusRank("degraded") <= StatusRank(worst.status) BY <1>6, <3>1 DEF Verdict
      <4>2. worst.status \in Verdicts /\ \A p \in related : StatusRank(worst.status) <= StatusRank(podStatus(p).status)
        BY WorstFacts
      <4> QED BY <4>1, <4>2 DEF StatusRank, Verdicts
    <3>3. ref.kind # "Service" => \A p \in related : podStatus(p).status = "healthy"
      <4> SUFFICES ASSUME ref.kind # "Service", NEW p \in related PROVE podStatus(p).status = "healthy" OBVIOUS
      <4>1. CASE ~Terminal(p) BY <3>1, <4>1, PodFactsOf
      <4>2. CASE p.phase = "failed" BY <3>2, <4>2, PodFactsOf
      <4>3. CASE p.phase = "succeeded" BY <4>3, PodFactsOf
      <4> QED BY <4>1, <4>2, <4>3 DEF Terminal
    <3>4. ref.kind # "Service" => worst.status = "healthy"
      BY <3>3, WorstFacts
    <3>5. ref.kind # "Service" => \A p \in related : p.ready \/ p.phase = "succeeded"
      BY <3>3, PodFactsOf
    <3>6. StatusRank("healthy") <= StatusRank("healthy") BY DEF StatusRank
    <3> QED BY <3>1, <3>4, <3>5, <3>6 DEF Verdict, Verdicts
  <2> QED BY <2>1, <2>2
<1> QED BY <1>7 DEF related

(* The rows of a view: one for each match, in its order of badness and score. *)
LEMMA RowFacts ==
  ASSUME NEW v, v.refs \subseteq MatchRefs, IsFiniteSet(v.refs), IsFiniteSet(v.pods)
  PROVE  LET rows == deriveMatchRows(v)
         IN  /\ IsFiniteSet(rows) /\ (rows = {} <=> v.refs = {})
             /\ \A r \in rows : /\ r.key = <<r.kind, r.name>> /\ r.kind \notin {"deploy", "svc"}
                                /\ r.score \in Int /\ r.status \in Verdicts
             /\ \A r, s \in rows : r.kind = s.kind /\ r.name = s.name => r = s
<1> DEFINE MatchRow(x) == [key |-> matchKey(x), kind |-> x.kind, name |-> x.name, ns |-> NoSpace, score |-> x.score,
                           status |-> HealthOf(x, v).status, signal |-> HealthOf(x, v).signal]
           rows == deriveMatchRows(v)
           f == [x \in v.refs |-> MatchRow(x)]
<1>1. rows = {MatchRow(x) : x \in v.refs} BY DEF deriveMatchRows
<1>2. \A x \in v.refs : /\ MatchRow(x).key = <<x.kind, x.name>> /\ MatchRow(x).kind = x.kind /\ MatchRow(x).name = x.name
                        /\ MatchRow(x).score = x.score /\ MatchRow(x).status = HealthOf(x, v).status
  BY DEF matchKey
<1>3. \A x \in v.refs : HealthOf(x, v).status \in Verdicts BY HealthFacts DEF Verdict
<1> HIDE DEF MatchRow, rows
<1>4. IsFiniteSet(rows)
  <2>1. f \in Surjection(v.refs, rows) BY <1>1 DEF Surjection
  <2> QED BY <2>1, FS_Surjection
<1>5. \A r \in rows : \E x \in v.refs : r = MatchRow(x) BY <1>1
<1>6. rows = {} <=> v.refs = {} BY <1>1
<1>7. ASSUME NEW r \in rows PROVE /\ r.key = <<r.kind, r.name>> /\ r.kind \notin {"deploy", "svc"}
                                  /\ r.score \in Int /\ r.status \in Verdicts
  <2>1. PICK x \in v.refs : r = MatchRow(x) BY <1>5
  <2> QED BY <1>2, <1>3, <2>1, MatchAssumption
<1>8. ASSUME NEW r \in rows, NEW s \in rows, r.kind = s.kind, r.name = s.name PROVE r = s
  <2>1. PICK x \in v.refs : r = MatchRow(x) BY <1>5
  <2>2. PICK y \in v.refs : s = MatchRow(y) BY <1>5
  <2>3. x.kind = y.kind /\ x.name = y.name BY <1>2, <1>8, <2>1, <2>2
  <2>4. x = y BY <2>3, MatchAssumption
  <2> QED BY <2>1, <2>2, <2>4
<1> QED BY <1>4, <1>6, <1>7, <1>8 DEF rows

(* Rows that can be put in order: finitely many, with a verdict and a score. *)
Ranked(rows) == IsFiniteSet(rows) /\ \A r \in rows : r.score \in Int /\ r.status \in Verdicts

(* There is a best-scored row, and a row that is as bad as any. *)
LEMMA PickFacts ==
  ASSUME NEW rows, rows # {}, Ranked(rows)
  PROVE  /\ \E r \in rows : \A s \in rows : r.score >= s.score
         /\ pickWorstRow(rows) \in rows
         /\ \A s \in rows : StatusRank(pickWorstRow(rows).status) <= StatusRank(s.status)
<1> DEFINE U == {StatusRank(r.status) : r \in rows}
           w == pickWorstRow(rows)
<1>1. \A T \in SUBSET rows : T # {} => \E r \in T : \A s \in T : r.score >= s.score
  <2> SUFFICES ASSUME NEW T \in SUBSET rows, T # {} PROVE \E r \in T : \A s \in T : r.score >= s.score OBVIOUS
  <2> DEFINE f == [r \in T |-> r.score]
  <2>1. IsFiniteSet(T) BY FS_Subset DEF Ranked
  <2>2. f \in [T -> Int] BY DEF Ranked
  <2>3. \E r \in T : \A s \in T : f[r] >= f[s] BY <2>1, <2>2, GreatestOf
  <2> QED BY <2>3
<1>2. U \subseteq Nat /\ U # {} BY DEF StatusRank
<1>3. PICK n \in U : \A m \in U : n <= m BY <1>2, NatHasMin
<1> DEFINE T == {r \in rows : StatusRank(r.status) = n}
<1>4. \A r \in rows : StatusRank(r.status) \in Nat /\ n <= StatusRank(r.status) BY <1>2, <1>3
<1>5. T # {} /\ T \in SUBSET rows BY <1>3
<1> HIDE DEF U
<1>6. PICK r \in T : \A s \in T : r.score >= s.score BY <1>1, <1>5
<1>7. \A s \in rows : \/ StatusRank(r.status) < StatusRank(s.status)
                      \/ StatusRank(r.status) = StatusRank(s.status) /\ r.score >= s.score
  <2> TAKE s \in rows
  <2>1. StatusRank(r.status) = n BY <1>6
  <2>2. StatusRank(s.status) \in Nat /\ n \in Nat /\ n <= StatusRank(s.status) BY <1>4, <2>1
  <2>3. CASE StatusRank(s.status) = n BY <1>6, <2>1, <2>3
  <2>4. CASE StatusRank(s.status) # n BY <2>1, <2>2, <2>4
  <2> QED BY <2>3, <2>4
<1>8. /\ w \in rows
      /\ \A s \in rows : \/ StatusRank(w.status) < StatusRank(s.status)
                         \/ StatusRank(w.status) = StatusRank(s.status) /\ w.score >= s.score
  BY <1>6, <1>7 DEF pickWorstRow
<1>9. \A s \in rows : StatusRank(w.status) <= StatusRank(s.status)
  <2> TAKE s \in rows
  <2>1. StatusRank(s.status) \in Nat /\ StatusRank(w.status) \in Nat BY <1>4, <1>8
  <2> HIDE DEF w
  <2> QED BY <1>8, <2>1
<1> QED BY <1>1, <1>8, <1>9

LEMMA WorstIsFirst ==
  ASSUME NEW v, v.refs \subseteq MatchRefs, IsFiniteSet(v.refs), IsFiniteSet(v.pods),
         deriveMatchRows(v) # {}
  PROVE  LET rows == deriveMatchRows(v)
         IN  /\ \E r \in rows : r.key = pickDefaultFocus(rows) /\ \A s \in rows : StatusRank(r.status) <= StatusRank(s.status)
             /\ scopeHealthRows(rows) # {} => \A r \in scopeHealthRows(rows) : StatusRank(scopeStatus(rows)) <= StatusRank(r.status)
<1> DEFINE rows == deriveMatchRows(v)
           w == pickWorstRow(rows)
           best == CHOOSE r \in rows : \A s \in rows : r.score >= s.score
<1>1. Ranked(rows) /\ rows # {} BY RowFacts DEF Ranked
<1> HIDE DEF rows
<1>2. /\ \E r \in rows : \A s \in rows : r.score >= s.score
      /\ w \in rows /\ \A s \in rows : StatusRank(w.status) <= StatusRank(s.status)
  BY <1>1, PickFacts
<1>3. \E r \in rows : r.key = pickDefaultFocus(rows) /\ \A s \in rows : StatusRank(r.status) <= StatusRank(s.status)
  <2>1. CASE w.status # "healthy" BY <1>2, <2>1 DEF pickDefaultFocus
  <2>2. CASE w.status = "healthy"
    <3>1. best \in rows BY <1>2
    <3>2. pickDefaultFocus(rows) = best.key BY <2>2 DEF pickDefaultFocus
    <3>3. \A s \in rows : s.status = "healthy"
      <4> TAKE s \in rows
      <4>1. StatusRank("healthy") <= StatusRank(s.status) BY <1>2, <2>2
      <4>2. s.status \in Verdicts BY <1>1 DEF Ranked
      <4>3. StatusRank("critical") = 0 /\ StatusRank("degraded") = 1 /\ StatusRank("healthy") = 2 BY DEF StatusRank
      <4> QED BY <4>1, <4>2, <4>3 DEF Verdicts
    <3>4. \A s \in rows : StatusRank(best.status) <= StatusRank(s.status)
      <4>1. best.status = "healthy" BY <3>1, <3>3
      <4> HIDE DEF best
      <4>2. StatusRank("healthy") <= StatusRank("healthy") BY DEF StatusRank
      <4> QED BY <3>3, <4>1, <4>2
    <3> QED BY <3>1, <3>2, <3>4
  <2> QED BY <2>1, <2>2
<1>4. ASSUME scopeHealthRows(rows) # {}
      PROVE  \A r \in scopeHealthRows(rows) : StatusRank(scopeStatus(rows)) <= StatusRank(r.status)
  <2> DEFINE pool == scopeHealthRows(rows)
  <2>1. pool \in SUBSET rows BY DEF scopeHealthRows
  <2>2. Ranked(pool)
    <3>1. IsFiniteSet(pool) BY <1>1, <2>1, FS_Subset DEF Ranked
    <3> QED BY <1>1, <2>1, <3>1 DEF Ranked
  <2>3. \A r \in pool : StatusRank(pickWorstRow(pool).status) <= StatusRank(r.status) BY <1>4, <2>2, PickFacts
  <2>4. scopeStatus(rows) = pickWorstRow(pool).status BY <1>4 DEF scopeStatus
  <2> QED BY <2>3, <2>4
<1> QED BY <1>3, <1>4 DEF rows

(* A kind of the API, whose key is read back as it was built. *)
LEMMA KeyFacts ==
  ASSUME NEW kind, NEW name, NEW ns, kind \notin {"deploy", "svc"}
  PROVE  LET k == buildInspectKey(kind, name, ns)
         IN  /\ k = (IF ns # NoSpace /\ kind \notin ClusterScoped THEN <<kind, ns, name>> ELSE <<kind, name>>)
             /\ k # <<>>
             /\ parseInspectKey(k) = [kind |-> kind, name |-> name,
                                     ns |-> IF ns # NoSpace /\ kind \notin ClusterScoped THEN ns ELSE NoSpace]
             /\ canonicalInspectKey(k, ns) = k
<1> DEFINE k == buildInspectKey(kind, name, ns)
           full == ns # NoSpace /\ kind \notin ClusterScoped
           p == parseInspectKey(k)
<1>1. normalizeInspectKind(kind) = kind BY DEF normalizeInspectKind
<1>2. k = IF full THEN <<kind, ns, name>> ELSE <<kind, name>> BY <1>1 DEF buildInspectKey
<1>3. k # <<>> /\ p = [kind |-> kind, name |-> name, ns |-> IF full THEN ns ELSE NoSpace]
  <2>1. CASE full
    <3>1. k = <<kind, ns, name>> BY <1>2, <2>1
    <3>2. Len(k) = 3 /\ k[1] = kind /\ k[2] = ns /\ k[3] = name /\ k # <<>> BY <3>1
    <3> HIDE DEF k
    <3> QED BY <1>1, <2>1, <3>2 DEF parseInspectKey
  <2>2. CASE ~full
    <3>1. k = <<kind, name>> BY <1>2, <2>2
    <3>2. Len(k) = 2 /\ k[1] = kind /\ k[2] = name /\ k # <<>> BY <3>1
    <3> HIDE DEF k
    <3> QED BY <1>1, <2>2, <3>2 DEF parseInspectKey
  <2> QED BY <2>1, <2>2
<1> HIDE DEF k, p
<1>4. p.kind = kind /\ p.name = name /\ p.ns = IF full THEN ns ELSE NoSpace BY <1>3
<1>5. canonicalInspectKey(k, ns) = k
  <2>1. canonicalInspectKey(k, ns) = buildInspectKey(p.kind, p.name, IF p.ns = NoSpace THEN ns ELSE p.ns)
    BY DEF canonicalInspectKey, p
  <2>2. (IF p.ns = NoSpace THEN ns ELSE p.ns) = ns BY <1>4
  <2> QED BY <1>4, <2>1, <2>2 DEF k
<1> QED BY <1>2, <1>3, <1>5 DEF k, p

(* A key made canonical is the key of the same object in the namespace given, whether or
   not it named the namespace. *)
LEMMA CanonicalFacts ==
  ASSUME NEW kind, NEW name, NEW ns, kind \notin {"deploy", "svc"}
  PROVE  /\ canonicalInspectKey(buildInspectKey(kind, name, ns), ns) = buildInspectKey(kind, name, ns)
         /\ canonicalInspectKey(<<kind, name>>, ns) = buildInspectKey(kind, name, ns)
<1>1. buildInspectKey(kind, name, NoSpace) = <<kind, name>> BY KeyFacts
<1>2. parseInspectKey(<<kind, name>>) = [kind |-> kind, name |-> name, ns |-> NoSpace] BY <1>1, KeyFacts
<1>3. canonicalInspectKey(<<kind, name>>, ns) = buildInspectKey(kind, name, ns) BY <1>2 DEF canonicalInspectKey
<1> QED BY <1>3, KeyFacts

(* A row has the key that is looked for exactly when it is of the same kind and name. *)
LEMMA SameKey ==
  ASSUME NEW kind, NEW name, NEW ns, kind \notin {"deploy", "svc"},
         NEW k, NEW n, k \notin {"deploy", "svc"}
  PROVE  rowKeysMatch(<<k, n>>, buildInspectKey(kind, name, ns)) <=> k = kind /\ n = name
<1> DEFINE a == <<k, n>>
           b == buildInspectKey(kind, name, ns)
<1>1. buildInspectKey(k, n, NoSpace) = a BY KeyFacts
<1>2. parseInspectKey(a) = [kind |-> k, name |-> n, ns |-> NoSpace] /\ a # <<>> BY <1>1, KeyFacts
<1>3. parseInspectKey(b).kind = kind /\ parseInspectKey(b).name = name /\ b # <<>> BY KeyFacts
<1> HIDE DEF a, b
<1>4. a = b => k = kind /\ n = name BY <1>2, <1>3
<1>5. rowKeysMatch(a, b) <=> k = kind /\ n = name BY <1>2, <1>3, <1>4 DEF rowKeysMatch
<1> QED BY <1>5 DEF a, b

KeyMatchFacts(ref, ns) ==
  LET k == buildInspectKey(ref.kind, ref.name, ns)
  IN  /\ parseInspectKey(k).kind = ref.kind /\ parseInspectKey(k).name = ref.name
      /\ canonicalInspectKey(k, ns) = k
      /\ rowKeysMatch(k, matchKey(ref))

LEMMA KeysAreFaithful ==
  ASSUME NEW ref, ref.kind \notin {"deploy", "svc"}, NEW ns
  PROVE  KeyMatchFacts(ref, ns)
<1> DEFINE a == matchKey(ref)
           k == buildInspectKey(ref.kind, ref.name, ns)
<1>1. buildInspectKey(ref.kind, ref.name, NoSpace) = a BY KeyFacts DEF matchKey
<1>2. parseInspectKey(a).kind = ref.kind /\ parseInspectKey(a).name = ref.name /\ parseInspectKey(a).ns = NoSpace /\ a # <<>>
  BY <1>1, KeyFacts
<1>3. parseInspectKey(k).kind = ref.kind /\ parseInspectKey(k).name = ref.name /\ k # <<>> /\ canonicalInspectKey(k, ns) = k
  BY KeyFacts
<1> HIDE DEF a, k
<1>4. rowKeysMatch(k, a) BY <1>2, <1>3 DEF rowKeysMatch
<1> QED BY <1>3, <1>4 DEF KeyMatchFacts, a, k

(* What is known and where the focus is: the key of the object it was set on, in some
   namespace or in none. *)
FocusRight ==
  /\ DOMAIN focus = {"key", "pinned"} /\ focus.pinned \in BOOLEAN
  /\ focus.key = <<>> => ~focus.pinned
  /\ focus.key # <<>> =>
       \E kind, name, ns : /\ kind \notin {"deploy", "svc"} /\ meant = <<kind, name>>
                          /\ focus.key = buildInspectKey(kind, name, ns)

FoundRight ==
  /\ DOMAIN found = {"refs", "loads", "pods", "services"}
  /\ found.refs \subseteq MatchRefs /\ IsFiniteSet(found.refs) /\ IsFiniteSet(found.pods)

MatchInv == FocusRight /\ FoundRight

LEMMA FocusIsKept ==
  ASSUME MatchInv
  PROVE  FocusKept
<1> DEFINE rows == deriveMatchRows(found)
<1>1. /\ IsFiniteSet(rows)
      /\ \A r \in rows : r.key = <<r.kind, r.name>> /\ r.kind \notin {"deploy", "svc"}
      /\ \A r, s \in rows : r.kind = s.kind /\ r.name = s.name => r = s
  BY RowFacts DEF MatchInv, FoundRight
<1> HIDE DEF rows
<1>2. CASE focus.key = <<>>
  <2>1. findRowByKey(rows, focus.key) = {} BY <1>2 DEF findRowByKey, rowKeysMatch
  <2>2. focusRow = {} BY <1>2, <2>1 DEF focusRow, rows
  <2>3. ~focus.pinned BY <1>2 DEF MatchInv, FocusRight
  <2>4. Cardinality({}) = 0 BY FS_EmptySet
  <2> QED BY <1>2, <2>2, <2>3, <2>4 DEF FocusKept
<1>3. CASE focus.key # <<>>
  <2>1. PICK kind, name, ns : /\ kind \notin {"deploy", "svc"} /\ meant = <<kind, name>>
                              /\ focus.key = buildInspectKey(kind, name, ns)
    BY <1>3 DEF MatchInv, FocusRight
  <2> DEFINE hit == findRowByKey(rows, focus.key)
             p == parseInspectKey(focus.key)
  <2>2. \A r \in hit : r \in rows /\ r.kind = kind /\ r.name = name
    <3> TAKE r \in hit
    <3>1. r \in rows /\ rowKeysMatch(r.key, focus.key) BY DEF findRowByKey
    <3>2. rowKeysMatch(<<r.kind, r.name>>, buildInspectKey(kind, name, ns)) BY <1>1, <2>1, <3>1
    <3> QED BY <1>1, <2>1, <3>1, <3>2, SameKey
  <2>3. p.kind = kind /\ p.name = name BY <2>1, KeyFacts
  <2>4. \A x : synthesizeInspectRow(p, x).kind = kind /\ synthesizeInspectRow(p, x).name = name
    BY <2>3 DEF synthesizeInspectRow
  <2>5. synthesizeFocusRow(focus.key, nsNow).kind = kind /\ synthesizeFocusRow(focus.key, nsNow).name = name
    BY <2>4 DEF synthesizeFocusRow
  <2>6. \A r, s \in hit : r = s BY <1>1, <2>2
  <2> HIDE DEF hit, p
  <2>7. focusRow = IF hit # {} THEN hit ELSE IF focus.pinned THEN {synthesizeFocusRow(focus.key, nsNow)} ELSE {}
    BY <1>3 DEF focusRow, hit, rows
  <2>8. \A r \in focusRow : <<r.kind, r.name>> = meant BY <2>1, <2>2, <2>5, <2>7
  <2>9. \A r \in inspectRowForKey(focus.key, found, rows, nsNow) : <<r.kind, r.name>> = meant
    <3>1. inspectRowForKey(focus.key, found, rows, nsNow) \subseteq
            IF hit # {} THEN hit ELSE {synthesizeInspectRow(p, nsNow), synthesizeInspectRow(p, p.ns)}
      BY DEF inspectRowForKey, hit, p
    <3> QED BY <2>1, <2>2, <2>4, <3>1
  <2>10. Cardinality(focusRow) <= 1
    <3>1. focusRow = {} \/ \E r : focusRow = {r}
      <4>1. hit # {} => \E r : hit = {r} BY <2>6
      <4> QED BY <2>7, <4>1
    <3>2. Cardinality({}) = 0 /\ \A r : Cardinality({r}) = 1 BY FS_EmptySet, FS_Singleton
    <3>3. CASE focusRow = {} BY <3>2, <3>3
    <3>4. CASE \E r : focusRow = {r}
      <4>1. PICK r : focusRow = {r} BY <3>4
      <4>2. Cardinality(focusRow) = 1 BY ONLY <3>2, <4>1
      <4> QED BY ONLY <4>2
    <3> QED BY <3>1, <3>3, <3>4
  <2>11. focus.pinned => focusRow # {} BY <2>7
  <2> QED BY <2>8, <2>9, <2>10, <2>11 DEF FocusKept, rows
<1> QED BY <1>2, <1>3

LEMMA MatchInvSuffices ==
  ASSUME MatchInv
  PROVE  MatchesTrue
<1>1. FocusKept BY FocusIsKept
<1>2. KeysFaithful
  <2>1. \A r \in found.refs, ns \in MatchNs \cup {NoSpace} : KeyMatchFacts(r, ns)
    BY KeysAreFaithful, MatchAssumption DEF MatchInv, FoundRight
  <2> QED BY <2>1 DEF KeysFaithful, KeyMatchFacts
<1>3. HealthyMeansReady
  <2>1. \A r \in found.refs : Verdict(HealthOf(r, found), r, podsForHealth(r, found.pods))
    BY HealthFacts DEF MatchInv, FoundRight
  <2> QED BY <2>1 DEF HealthyMeansReady, Verdict
<1>4. WorstFirst
  BY WorstIsFirst DEF WorstFirst, MatchInv, FoundRight
<1> QED BY <1>1, <1>2, <1>3, <1>4 DEF MatchesTrue

LEMMA MatchInvInit == MatchInit => MatchInv
<1> SUFFICES ASSUME MatchInit PROVE MatchInv OBVIOUS
<1>1. FoundRight BY FS_EmptySet DEF MatchInit, FoundRight
<1>2. FocusRight BY DEF MatchInit, FocusRight
<1> QED BY <1>1, <1>2 DEF MatchInv

LEMMA MatchStep ==
  ASSUME MatchInv, [MatchNext]_matchVars
  PROVE  MatchInv'
<1>1. CASE MatchesArrive
  <2>1. FocusRight' BY <1>1 DEF MatchInv, FocusRight, MatchesArrive
  <2>2. /\ DOMAIN found = {"refs", "loads", "pods", "services"}
        /\ found.refs \subseteq MatchRefs /\ IsFiniteSet(found.refs) /\ IsFiniteSet(found.pods)
    BY DEF MatchInv, FoundRight
  <2>3. \A set, x : ByName(set, x) \ {x} \subseteq set /\ (IsFiniteSet(set) => IsFiniteSet(ByName(set, x)))
    <3> TAKE set, x
    <3> DEFINE stay == {y \in set : y.name # x.name \/ (DOMAIN y = DOMAIN x /\ "kind" \in DOMAIN x /\ y.kind # x.kind)}
    <3>1. ByName(set, x) = stay \cup {x} BY DEF ByName
    <3>2. stay \in SUBSET set OBVIOUS
    <3> HIDE DEF stay
    <3>3. IsFiniteSet(set) => IsFiniteSet(stay) BY <3>2, FS_Subset
    <3>4. IsFiniteSet(stay) => IsFiniteSet(stay \cup {x}) BY FS_AddElement
    <3> QED BY <3>1, <3>2, <3>3, <3>4
  <2>4. CASE \E r \in MatchRefs : found' = [found EXCEPT !.refs = IF r \in @ THEN @ \ {r} ELSE @ \cup {r}]
    <3>1. PICK r \in MatchRefs : found' = [found EXCEPT !.refs = IF r \in @ THEN @ \ {r} ELSE @ \cup {r}] BY <2>4
    <3>2. found'.refs \in {found.refs \ {r}, found.refs \cup {r}} /\ found'.pods = found.pods
          /\ DOMAIN found' = {"refs", "loads", "pods", "services"}
      BY <2>2, <3>1
    <3>3. IsFiniteSet(found.refs \ {r}) /\ IsFiniteSet(found.refs \cup {r}) BY <2>2, FS_AddElement, FS_RemoveElement
    <3> QED BY <2>1, <2>2, <3>2, <3>3 DEF MatchInv, FoundRight
  <2>5. CASE \E w \in MatchLoads : found' = [found EXCEPT !.loads = ByName(@, w)]
    BY <2>1, <2>2, <2>5 DEF MatchInv, FoundRight
  <2>6. CASE \E p \in MatchPods : found' = [found EXCEPT !.pods = IF p \in @ THEN @ \ {p} ELSE ByName(@, p)]
    <3>1. PICK p \in MatchPods : found' = [found EXCEPT !.pods = IF p \in @ THEN @ \ {p} ELSE ByName(@, p)] BY <2>6
    <3>2. found'.pods \in {found.pods \ {p}, ByName(found.pods, p)} /\ found'.refs = found.refs
          /\ DOMAIN found' = {"refs", "loads", "pods", "services"}
      BY <2>2, <3>1
    <3>3. IsFiniteSet(found.pods \ {p}) /\ IsFiniteSet(ByName(found.pods, p)) BY <2>2, <2>3, FS_RemoveElement
    <3> QED BY <2>1, <2>2, <3>2, <3>3 DEF MatchInv, FoundRight
  <2>7. CASE \E s \in MatchServices : found' = [found EXCEPT !.services = ByName(@, s)]
    BY <2>1, <2>2, <2>7 DEF MatchInv, FoundRight
  <2> QED BY <1>1, <2>4, <2>5, <2>6, <2>7 DEF MatchesArrive
<1>2. CASE FocusChange
  <2>1. PICK r \in deriveMatchRows(found), full \in BOOLEAN, pin \in BOOLEAN :
          /\ focus' = [key |-> handleFocusChange(IF full THEN buildInspectKey(r.kind, r.name, nsNow) ELSE r.key), pinned |-> pin]
          /\ meant' = <<r.kind, r.name>> /\ UNCHANGED <<found, nsNow>>
    BY <1>2 DEF FocusChange
  <2>2. r.key = <<r.kind, r.name>> /\ r.kind \notin {"deploy", "svc"}
    BY RowFacts DEF MatchInv, FoundRight
  <2>3. handleFocusChange(IF full THEN buildInspectKey(r.kind, r.name, nsNow) ELSE r.key) = buildInspectKey(r.kind, r.name, nsNow)
    BY <2>2, CanonicalFacts DEF handleFocusChange
  <2>4. focus'.key = buildInspectKey(r.kind, r.name, nsNow) /\ focus'.pinned = pin /\ DOMAIN focus' = {"key", "pinned"}
    BY <2>1, <2>3
  <2>5. focus'.key # <<>> BY <2>2, <2>4, KeyFacts
  <2>6. FocusRight' BY <2>1, <2>2, <2>4, <2>5 DEF FocusRight
  <2> QED BY <2>1, <2>6 DEF MatchInv, FoundRight
<1>3. CASE ClearFocus
  <2>1. FocusRight' BY <1>3 DEF ClearFocus, FocusRight
  <2> QED BY <1>3, <2>1 DEF ClearFocus, MatchInv, FoundRight
<1>4. CASE NamespaceKnown BY <1>4 DEF NamespaceKnown, MatchInv, FocusRight, FoundRight
<1>5. CASE UNCHANGED matchVars BY <1>5 DEF matchVars, MatchInv, FocusRight, FoundRight
<1> QED BY <1>1, <1>2, <1>3, <1>4, <1>5 DEF MatchNext

(* The matched components, for any matches, pods, services and namespaces: the focus
   stays on the object it was set on and a pinned one has a row, keys are read back as
   they were built, a row is healthy only when its live pods are ready and never better
   than its worst pod, and what is chosen by default is as bad as any. *)
THEOREM MatchesSafe == MatchSpec => []MatchesTrue
<1>1. MatchInit => MatchInv BY MatchInvInit
<1>2. MatchInv /\ [MatchNext]_matchVars => MatchInv' BY MatchStep
<1>3. MatchInv => MatchesTrue BY MatchInvSuffices
<1> QED BY <1>1, <1>2, <1>3, PTL DEF MatchSpec
-----------------------------------------------------------------------------
(* The pane of a kind *)

PaneInv == feed.rows \subseteq RowNames /\ feed.matches \subseteq RowNames /\ DOMAIN feed = {"catalog", "catalogLoading", "listing", "rows", "denied", "matches"}

LEMMA PaneInvInit == PaneInit => PaneInv
BY DEF PaneInit, PaneInv

LEMMA PaneStep == PaneInv /\ [PaneNext]_paneVars => PaneInv'
<1> SUFFICES ASSUME PaneInv, [PaneNext]_paneVars PROVE PaneInv' OBVIOUS
<1> USE DEF PaneInv
<1>1. CASE PaneSelectKind BY <1>1 DEF PaneSelectKind
<1>2. CASE Search \/ SwitchLens \/ HandleSort BY <1>2 DEF Search, SwitchLens, HandleSort
<1>3. CASE CatalogReads BY <1>3 DEF CatalogReads
<1>4. CASE ListAnswers BY <1>4 DEF ListAnswers
<1>5. CASE ListRefreshes BY <1>5 DEF ListRefreshes
<1>6. CASE FoundChanges BY <1>6 DEF FoundChanges
<1>7. CASE UNCHANGED paneVars BY <1>7 DEF paneVars
<1> QED BY <1>1, <1>2, <1>3, <1>4, <1>5, <1>6, <1>7 DEF PaneNext

(* Rows made of finitely many names are finitely many. *)
LEMMA FiniteRows ==
  ASSUME NEW T, IsFiniteSet(T), NEW from
  PROVE  IsFiniteSet([name : T, from : {from}])
<1> DEFINE R == [name : T, from : {from}]
           f == [n \in T |-> [name |-> n, from |-> from]]
<1>1. \A r \in R : r.name \in T /\ r = [name |-> r.name, from |-> from] OBVIOUS
<1>2. f \in Surjection(T, R)
  <2>1. \A n \in T : f[n] \in R OBVIOUS
  <2>2. \A r \in R : \E n \in T : f[n] = r BY <1>1
  <2> HIDE DEF R
  <2>3. f \in [T -> R] BY <2>1
  <2> QED BY <2>2, <2>3 DEF Surjection
<1> HIDE DEF R, f
<1>3. IsFiniteSet(R) BY <1>2, FS_Surjection
<1> QED BY <1>3 DEF R

LEMMA PaneInvSuffices ==
  ASSUME PaneInv
  PROVE  RowsReachable /\ EmptyHonest
<1>1. RowsReachable
  <2>1. Filtered # {} /\ ~DiscoveringCatalog => EntityList = "rows" /\ EntityTable = "rows"
    <3>1. Filtered # {} => Displayed # {} BY DEF Filtered
    <3> QED BY <3>1 DEF EntityList, EntityTable, AccessBlocked, CenterLoading, ResourceCenterLoading, EntitiesLoading
  <2>2. \A r \in ScopePanel({}) : r.name \in feed.rows => r.from = "catalog"
    BY DEF ScopePanel, Filtered, Displayed, resolveDisplayEntities, CatalogRows
  <2> QED BY <2>1, <2>2 DEF RowsReachable
<1>2. EmptyHonest
  <2>1. EntityList \in {"no objects", "no matches"} => Filtered = {} /\ (~feed.listing \/ ~canLazyLoad \/ Displayed # {})
    BY DEF EntityList, CenterLoading, EntitiesLoading
  <2>2. EntityList = "rows" => Filtered # {} BY DEF EntityList, CenterLoading
  <2>3. EntityCount = -1 => EntityTable = "loading"
    <3>1. IsFiniteSet(feed.rows) /\ IsFiniteSet(feed.matches \ feed.rows)
      BY PaneAssumption, FS_Subset DEF PaneInv
    <3>2. IsFiniteSet(CatalogRows) /\ IsFiniteSet([name : feed.matches \ feed.rows, from : {"match"}])
      BY <3>1, FiniteRows DEF CatalogRows
    <3>3. IsFiniteSet({r \in CatalogRows : r.name \in feed.matches}) BY <3>2, FS_Subset
    <3>4. IsFiniteSet(Displayed) BY <3>2, <3>3, FS_Union DEF Displayed, resolveDisplayEntities
    <3>5. Cardinality(Displayed) \in Nat BY <3>4, FS_CardinalityType
    <3>6. Cardinality(Displayed) # -1 BY <3>5
    <3> QED BY <3>6 DEF EntityCount, EntityTable, AccessBlocked, CenterLoading, ResourceCenterLoading
  <2> QED BY <2>1, <2>2, <2>3 DEF EmptyHonest
<1> QED BY <1>1, <1>2

-----------------------------------------------------------------------------
(* The columns of a table *)

IdLists == Seq(ColumnIds) \cup {None}

(* what was chosen is what is stored, names the object, and was on offer *)
ChosenRight(k, c) ==
  /\ c.shown \in Seq(ColumnIds) /\ "name" \in Range(c.shown) /\ Range(c.shown) \subseteq c.offered
  /\ stores.columns[k] = c.shown

ColumnInv ==
  /\ DOMAIN browseKind = {"kind", "scope"} /\ browseKind.kind \in TKinds
  /\ columnsHook \in IdLists
  /\ DOMAIN stores = {"columns", "widths"} /\ stores.columns \in [TKinds -> IdLists]
  /\ DOMAIN chosen = TKinds
  /\ \A k \in TKinds : chosen[k] # None => ChosenRight(k, chosen[k])
  /\ columnsHook = None \/ columnsHook = chosen[browseKind.kind].shown

(* Every kind offers a column of names. *)
LEMMA AvailableFacts ==
  ASSUME NEW k \in TKinds, NEW scope
  PROVE  /\ availableColumnIds(k, scope) \in Seq(ColumnIds)
         /\ "name" \in Range(availableColumnIds(k, scope)) /\ "name" \in ColumnIds
<1> DEFINE Q == {id \in ColumnIds : /\ id = "namespace" => showsNamespaceColumn(k, scope)
                                    /\ id = "node" => ~isClusterScopedKindGroup(k)}
           s == Schemas[k].columnOrder
<1>1. s \in Seq(ColumnIds) /\ "name" \in Range(s) BY ColumnAssumption
<1>2. "name" \in ColumnIds BY <1>1 DEF ColumnIds
<1>3. "name" \in Q BY <1>2
<1>4. availableColumnIds(k, scope) = Keeping(s, Q) BY DEF availableColumnIds
<1> HIDE DEF s, Q
<1>5. IsKept(Keeping(s, Q), s, ColumnIds, Q) BY <1>1, KeepingIsKept
<1>6. Range(Keeping(s, Q)) = Range(s) \cap Q BY <1>1, KeepingRange
<1> QED BY <1>1, <1>2, <1>3, <1>4, <1>5, <1>6 DEF IsKept

LEMMA KeptType ==
  ASSUME NEW s \in Seq(ColumnIds), NEW Q
  PROVE  Keeping(s, Q) \in Seq(ColumnIds)
BY KeepingIsKept DEF IsKept

(* The range of a sequence with an element put before it. *)
LEMMA RangeBefore ==
  ASSUME NEW S, NEW s \in Seq(S), NEW e \in S
  PROVE  <<e>> \o s \in Seq(S) /\ Range(<<e>> \o s) = {e} \cup Range(s)
<1>1. <<e>> \in Seq(S) /\ Len(<<e>>) = 1 /\ <<e>>[1] = e OBVIOUS
<1> DEFINE r == <<e>> \o s
<1>2. r \in Seq(S) /\ Len(r) = 1 + Len(s) /\ Len(s) \in Nat BY <1>1, ConcatProperties, LenProperties
<1>3. r[1] = e /\ \A i \in 1..Len(s) : r[i + 1] = s[i]
  BY <1>1, <1>2, ConcatProperties
<1>4. DOMAIN r = 1..Len(r) /\ DOMAIN s = 1..Len(s) BY <1>2, LenProperties
<1> HIDE DEF r
<1>5. ASSUME NEW x \in Range(r) PROVE x \in {e} \cup Range(s)
  <2>1. PICK i \in 1..Len(r) : x = r[i] BY <1>4 DEF Range
  <2>2. i = 1 \/ (i - 1 \in 1..Len(s) /\ (i - 1) + 1 = i) BY <1>2
  <2>3. x = e \/ (i - 1 \in 1..Len(s) /\ x = s[i - 1]) BY <2>1, <2>2, <1>3
  <2> QED BY <2>3, <1>4 DEF Range
<1>6. e \in Range(r)
  <2>1. 1 \in DOMAIN r BY <1>2, <1>4
  <2> QED BY <2>1, <1>3 DEF Range
<1>7. ASSUME NEW x \in Range(s) PROVE x \in Range(r)
  <2>1. PICK i \in 1..Len(s) : x = s[i] BY <1>4 DEF Range
  <2>2. i + 1 \in 1..Len(r) /\ r[i + 1] = x BY <2>1, <1>2, <1>3
  <2> QED BY <2>2, <1>4 DEF Range
<1> QED BY <1>2, <1>5, <1>6, <1>7 DEF r

VisibleRight(v, k, scope) ==
  v \in Seq(ColumnIds) /\ "name" \in Range(v) /\ Range(v) \subseteq Range(availableColumnIds(k, scope)) /\ v # <<>>

(* Whatever is selected or stored, the visible columns are on offer, that of names among them. *)
LEMMA VisibleFacts ==
  ASSUME ColumnInv, NEW k \in TKinds, NEW scope, NEW ids \in IdLists
  PROVE  VisibleRight(resolveVisibleColumnIds(k, scope, ids), k, scope)
<1> DEFINE available == availableColumnIds(k, scope)
           wanted == IF ids \notin {None, <<>>} THEN ids ELSE loadColumnPreferences(k)
           stored == IF wanted = None THEN <<>> ELSE Only(wanted, available)
           visible == IF stored = <<>> THEN Only(Schemas[k].defaultVisible, available) ELSE stored
           v == IF "name" \in Range(visible) THEN visible ELSE <<"name">> \o visible
<1>0. resolveVisibleColumnIds(k, scope, ids) = v BY DEF resolveVisibleColumnIds
<1>1. available \in Seq(ColumnIds) /\ "name" \in Range(available) /\ "name" \in ColumnIds BY AvailableFacts
<1>2. wanted \in IdLists BY DEF loadColumnPreferences, ColumnInv
<1> HIDE DEF available, wanted
<1>3. ASSUME NEW s \in Seq(ColumnIds)
      PROVE  Only(s, available) \in Seq(ColumnIds) /\ Range(Only(s, available)) \subseteq Range(available)
  BY KeptType, KeepingRange DEF Only
<1>4. stored = <<>> \/ (stored \in Seq(ColumnIds) /\ Range(stored) \subseteq Range(available))
  BY <1>2, <1>3 DEF IdLists
<1>5. Schemas[k].defaultVisible \in Seq(ColumnIds) BY ColumnAssumption
<1> HIDE DEF stored
<1>6. visible \in Seq(ColumnIds) /\ Range(visible) \subseteq Range(available) BY <1>3, <1>4, <1>5
<1> HIDE DEF visible
<1>7. v \in Seq(ColumnIds) /\ "name" \in Range(v) /\ Range(v) \subseteq Range(available)
  BY <1>1, <1>6, RangeBefore
<1>8. v # <<>> BY <1>7 DEF Range
<1> HIDE DEF v
<1> QED BY <1>0, <1>7, <1>8 DEF VisibleRight, available

(* Where columns were chosen, the visible ones are the chosen ones still on offer. *)
LEMMA VisibleIsChosen ==
  ASSUME ColumnInv, NEW k \in TKinds, NEW scope, NEW ids \in IdLists,
         chosen[k] # None, ids \in {None, chosen[k].shown}
  PROVE  resolveVisibleColumnIds(k, scope, ids) = Keeping(chosen[k].shown, Range(availableColumnIds(k, scope)))
<1> DEFINE available == availableColumnIds(k, scope)
           wanted == IF ids \notin {None, <<>>} THEN ids ELSE loadColumnPreferences(k)
           stored == IF wanted = None THEN <<>> ELSE Only(wanted, available)
           visible == IF stored = <<>> THEN Only(Schemas[k].defaultVisible, available) ELSE stored
           v == IF "name" \in Range(visible) THEN visible ELSE <<"name">> \o visible
           shown == chosen[k].shown
           kept == Keeping(shown, Range(available))
<1>0. resolveVisibleColumnIds(k, scope, ids) = v BY DEF resolveVisibleColumnIds
<1>1. shown \in Seq(ColumnIds) /\ "name" \in Range(shown) /\ stores.columns[k] = shown
  BY DEF ColumnInv, ChosenRight
<1>2. wanted = shown BY <1>1 DEF loadColumnPreferences
<1>3. wanted # None BY <1>1, <1>2, ColumnAssumption
<1> HIDE DEF wanted
<1>4. stored = kept BY <1>2, <1>3 DEF Only
<1>5. "name" \in Range(available) BY AvailableFacts
<1> HIDE DEF available, shown
<1>6. Range(kept) = Range(shown) \cap Range(available) BY <1>1, KeepingRange
<1> HIDE DEF kept
<1>7. "name" \in Range(kept) BY <1>1, <1>5, <1>6
<1>8. kept # <<>> BY <1>7 DEF Range
<1> HIDE DEF stored
<1>9. visible = kept BY <1>4, <1>8
<1>10. v = kept BY <1>7, <1>9
<1> HIDE DEF v
<1> QED BY <1>0, <1>10 DEF kept, shown, available

LEMMA ColumnInvSuffices ==
  ASSUME ColumnInv
  PROVE  ChoiceKept
<1> DEFINE k == browseKind.kind
           c == chosen[k]
           now == Range(availableColumnIds(k, browseKind.scope))
<1> SUFFICES ASSUME c # None PROVE Keeping(VisibleIds, c.offered) = Keeping(c.shown, now) BY DEF ChoiceKept
<1>1. k \in TKinds /\ columnsHook \in IdLists /\ columnsHook \in {None, c.shown} BY DEF ColumnInv
<1>2. c.shown \in Seq(ColumnIds) /\ Range(c.shown) \subseteq c.offered BY <1>1 DEF ColumnInv, ChosenRight
<1>3. VisibleIds = Keeping(c.shown, now) BY <1>1, VisibleIsChosen DEF VisibleIds
<1> HIDE DEF now, k
<1>4. VisibleIds \in Seq(ColumnIds) BY <1>2, <1>3, KeptType
<1>5. Range(VisibleIds) \subseteq c.offered BY <1>2, <1>3, KeepingRange
<1> HIDE DEF c
<1>6. Keeping(VisibleIds, c.offered) = VisibleIds BY <1>4, <1>5, KeepingAll
<1> QED BY <1>3, <1>6

LEMMA ColumnInvInit == TableInit => ColumnInv
<1> SUFFICES ASSUME TableInit PROVE ColumnInv OBVIOUS
<1>1. (CHOOSE k \in TKinds : ~Schemas[k].clusterScoped) \in TKinds BY ColumnAssumption
<1>2. browseKind.kind \in TKinds BY <1>1 DEF TableInit
<1> QED BY <1>2 DEF TableInit, ColumnInv, IdLists

(* What the user chooses becomes the stored list. *)
LEMMA ChoosingKeepsInv ==
  ASSUME ColumnInv, NEW ids \in IdLists, setVisibleIds(ids)
  PROVE  ColumnInv'
<1> DEFINE k == browseKind.kind
           next == resolveVisibleColumnIds(k, browseKind.scope, ids)
           offered == Range(availableColumnIds(k, browseKind.scope))
<1>1. /\ columnsHook' = next
      /\ stores' = [stores EXCEPT !.columns = saveColumnPreferences(k, next)]
      /\ chosen' = [chosen EXCEPT ![k] = [shown |-> next, offered |-> offered]]
      /\ browseKind' = browseKind
  BY DEF setVisibleIds
<1>2. k \in TKinds BY DEF ColumnInv
<1>3. /\ next \in Seq(ColumnIds) /\ "name" \in Range(next) /\ Range(next) \subseteq offered /\ next # <<>>
  BY <1>2, VisibleFacts DEF VisibleRight
<1> HIDE DEF next, offered
<1>4. DOMAIN stores' = {"columns", "widths"} /\ stores'.columns = [stores.columns EXCEPT ![k] = next]
  BY <1>1, <1>3 DEF saveColumnPreferences, ColumnInv
<1>5. stores'.columns \in [TKinds -> IdLists] BY <1>2, <1>3, <1>4 DEF ColumnInv, IdLists
<1>6. chosen'[k] = [shown |-> next, offered |-> offered] /\ DOMAIN chosen' = TKinds
  BY <1>1, <1>2 DEF ColumnInv
<1>7. ASSUME NEW l \in TKinds, chosen'[l] # None PROVE ChosenRight(l, chosen[l])'
  <2>1. CASE l = k
    <3>1. chosen'[l].shown = next /\ chosen'[l].offered = offered BY <1>6, <2>1
    <3>2. stores'.columns[l] = next BY <1>2, <1>4, <2>1 DEF ColumnInv
    <3> QED BY <1>3, <3>1, <3>2 DEF ChosenRight
  <2>2. CASE l # k
    <3>1. chosen'[l] = chosen[l] BY <1>1, <2>2 DEF ColumnInv
    <3>2. stores'.columns[l] = stores.columns[l] BY <1>2, <1>4, <2>2 DEF ColumnInv
    <3>3. ChosenRight(l, chosen[l]) BY <1>7, <3>1 DEF ColumnInv
    <3> QED BY <3>1, <3>2, <3>3 DEF ChosenRight
  <2> QED BY <2>1, <2>2
<1>8. browseKind'.kind = k BY <1>1
<1>9. columnsHook' = chosen'[browseKind'.kind].shown BY <1>1, <1>6, <1>8
<1>10. columnsHook' \in IdLists BY <1>1, <1>3 DEF IdLists
<1>11. DOMAIN browseKind' = {"kind", "scope"} /\ browseKind'.kind \in TKinds BY <1>1 DEF ColumnInv
<1> QED BY <1>4, <1>5, <1>6, <1>7, <1>9, <1>10, <1>11 DEF ColumnInv

(* The widths leave the columns as they are. *)
LEMMA WidthsKeepInv ==
  ASSUME ColumnInv, UNCHANGED <<browseKind, columnsHook, chosen>>,
         NEW w, stores' = stores \/ stores' = [stores EXCEPT !.widths = w]
  PROVE  ColumnInv'
<1>1. stores'.columns = stores.columns /\ DOMAIN stores' = DOMAIN stores BY DEF ColumnInv
<1>2. \A k \in TKinds : ChosenRight(k, chosen[k]) => ChosenRight(k, chosen[k])' BY <1>1 DEF ChosenRight
<1> QED BY <1>1, <1>2 DEF ColumnInv

LEMMA ColumnStep == ColumnInv /\ [TableNext]_tableVars => ColumnInv'
<1> SUFFICES ASSUME ColumnInv, [TableNext]_tableVars PROVE ColumnInv' OBVIOUS
<1>v. VisibleIds \in Seq(ColumnIds)
  <2>1. browseKind.kind \in TKinds /\ columnsHook \in IdLists BY DEF ColumnInv
  <2> QED BY <2>1, VisibleFacts DEF VisibleIds, VisibleRight
<1>1. CASE ToggleColumn
  <2>1. PICK id \in Range(columnPickerOrder) \ {"name"} :
          IF id \in Range(VisibleIds)
          THEN Len(VisibleIds) > 1 /\ setVisibleIds(Keeping(VisibleIds, ColumnIds \ {id}))
          ELSE setVisibleIds(Append(VisibleIds, id))
    BY <1>1 DEF ToggleColumn
  <2>2. Keeping(VisibleIds, ColumnIds \ {id}) \in IdLists BY <1>v, KeptType DEF IdLists
  <2>3. id \in ColumnIds
    <3> DEFINE available == availableColumnIds(browseKind.kind, browseKind.scope)
               rest == Keeping(available, ColumnIds \ Range(VisibleIds))
    <3>1. available \in Seq(ColumnIds) BY AvailableFacts DEF ColumnInv
    <3>2. rest \in Seq(ColumnIds) BY <3>1, KeptType
    <3>3. columnPickerOrder = VisibleIds \o rest BY DEF columnPickerOrder
    <3> HIDE DEF rest
    <3>4. columnPickerOrder \in Seq(ColumnIds) BY <1>v, <3>2, <3>3, ConcatProperties
    <3> QED BY <2>1, <3>4, ElementOfSeq, LenProperties DEF Range
  <2>4. Append(VisibleIds, id) \in IdLists BY <1>v, <2>3, AppendProperties DEF IdLists
  <2> QED BY <2>1, <2>2, <2>4, ChoosingKeepsInv
<1>2. CASE MoveColumn
  <2>1. PICK i \in 1..Len(VisibleIds), j \in 1..Len(VisibleIds) :
          setVisibleIds([VisibleIds EXCEPT ![i] = VisibleIds[j], ![j] = VisibleIds[i]])
    BY <1>2 DEF MoveColumn
  <2>2. VisibleIds[i] \in ColumnIds /\ VisibleIds[j] \in ColumnIds BY <1>v, ElementOfSeq
  <2>3. [VisibleIds EXCEPT ![i] = VisibleIds[j], ![j] = VisibleIds[i]] \in Seq(ColumnIds)
    <3>1. [VisibleIds EXCEPT ![i] = VisibleIds[j]] \in Seq(ColumnIds) /\ Len([VisibleIds EXCEPT ![i] = VisibleIds[j]]) = Len(VisibleIds)
      BY <1>v, <2>2, ExceptSeq
    <3> QED BY <2>2, <3>1, ExceptSeq
  <2> QED BY <2>1, <2>3, ChoosingKeepsInv DEF IdLists
<1>3. CASE DragBegins \/ DragMoves
  <2>1. UNCHANGED <<browseKind, columnsHook, chosen>> /\ stores' = stores BY <1>3 DEF DragBegins, DragMoves
  <2> QED BY <2>1, WidthsKeepInv
<1>4. CASE DragEnds
  <2> DEFINE w == [stores.widths EXCEPT ![drag.kind] = Widths]
  <2>1. UNCHANGED <<browseKind, columnsHook, chosen>> BY <1>4 DEF DragEnds
  <2>2. stores' = stores \/ stores' = [stores EXCEPT !.widths = w] BY <1>4 DEF DragEnds, saveColumnWidths
  <2> HIDE DEF w
  <2> QED BY <2>1, <2>2, WidthsKeepInv
<1>5. CASE FitColumn \/ AutoWidths
  <2>1. PICK v : setWidths(v) BY <1>5 DEF FitColumn, AutoWidths
  <2> DEFINE w == [stores.widths EXCEPT ![browseKind.kind] = v]
  <2>2. UNCHANGED <<browseKind, columnsHook, chosen>> BY <2>1 DEF setWidths
  <2>3. stores' = stores \/ stores' = [stores EXCEPT !.widths = w] BY <2>1 DEF setWidths, saveColumnWidths
  <2> HIDE DEF w
  <2> QED BY <2>2, <2>3, WidthsKeepInv
<1>6. CASE SelectKind
  <2>1. browseKind'.kind \in TKinds /\ columnsHook' = None /\ stores' = stores /\ chosen' = chosen
    <3>1. PICK k \in TKinds : browseKind' = [browseKind EXCEPT !.kind = k] BY <1>6 DEF SelectKind
    <3> QED BY <1>6, <3>1 DEF SelectKind, ColumnInv
  <2>2. DOMAIN browseKind' = DOMAIN browseKind BY <1>6 DEF SelectKind, ColumnInv
  <2> QED BY <2>1, <2>2 DEF ColumnInv, IdLists, ChosenRight
<1>7. CASE SwitchScope
  <2>1. browseKind'.kind = browseKind.kind /\ DOMAIN browseKind' = DOMAIN browseKind BY <1>7 DEF SwitchScope, ColumnInv
  <2> QED BY <1>7, <2>1 DEF SwitchScope, ColumnInv, ChosenRight
<1>8. CASE ReopenTable BY <1>8 DEF ReopenTable, ColumnInv, IdLists, ChosenRight
<1>9. CASE UNCHANGED tableVars BY <1>9 DEF tableVars, ColumnInv, ChosenRight
<1> QED BY <1>1, <1>2, <1>3, <1>4, <1>5, <1>6, <1>7, <1>8, <1>9 DEF TableNext

-----------------------------------------------------------------------------
(* The fields of a row *)

(* an object has no more ready, available and updated than it has *)
Plausible(o) ==
  /\ DOMAIN o = {"desired", "current", "ready", "updated", "available"}
  /\ o.desired \in Nat /\ o.current \in Nat /\ o.ready \in Nat /\ o.updated \in Nat /\ o.available \in Nat
  /\ o.ready <= o.current /\ o.available <= o.ready /\ o.updated <= o.current

FieldInv == tableKind \in TableKinds /\ Plausible(object)

LEMMA FieldInvInit == FieldInit => FieldInv
<1> SUFFICES ASSUME FieldInit PROVE FieldInv OBVIOUS
<1>1. "Pod" \in TableKinds BY DEF TableKinds, KIND_TABLE_SCHEMAS
<1> QED BY <1>1 DEF FieldInit, FieldInv, Plausible, Zero

LEMMA FieldStep == FieldInv /\ [FieldNext]_fieldVars => FieldInv'
<1> SUFFICES ASSUME FieldInv, [FieldNext]_fieldVars PROVE FieldInv' OBVIOUS
<1>1. CASE OpenKind BY <1>1 DEF OpenKind, FieldInv, Plausible, Zero
<1>2. CASE ObjectChanges
  <2>1. PICK f \in DOMAIN object, n \in Counts :
          /\ object' = [object EXCEPT ![f] = n]
          /\ object'.ready <= object'.current /\ object'.available <= object'.ready /\ object'.updated <= object'.current
    BY <1>2 DEF ObjectChanges
  <2>2. tableKind' = tableKind BY <1>2 DEF ObjectChanges
  <2>3. n \in Nat BY FieldAssumption
  <2>4. DOMAIN object' = DOMAIN object /\ \A g \in DOMAIN object : object'[g] = IF g = f THEN n ELSE object[g]
    BY <2>1
  <2>5. \A g \in DOMAIN object : object[g] \in Nat BY DEF FieldInv, Plausible
  <2>6. \A g \in DOMAIN object : object'[g] \in Nat BY <2>3, <2>4, <2>5
  <2>7. DOMAIN object = {"desired", "current", "ready", "updated", "available"} BY DEF FieldInv, Plausible
  <2>8. /\ object'.desired \in Nat /\ object'.current \in Nat /\ object'.ready \in Nat
        /\ object'.updated \in Nat /\ object'.available \in Nat
    BY <2>6, <2>7
  <2> QED BY <2>1, <2>2, <2>4, <2>7, <2>8 DEF FieldInv, Plausible
<1>3. CASE UNCHANGED fieldVars BY <1>3 DEF fieldVars, FieldInv, Plausible
<1> QED BY <1>1, <1>2, <1>3 DEF FieldNext

(* What is absent is neither a count nor a hint. *)
LEMMA NullFacts ==
  ASSUME NEW a \in Nat, NEW b \in Nat
  PROVE  a # Null /\ <<a, b>> # Null
<1>1. <<a, b>> \in Seq(Nat) OBVIOUS
<1> QED BY <1>1, FieldAssumption

(* A count left out is zero. *)
LEMMA OmitFacts ==
  ASSUME NEW n \in Nat
  PROVE  (OmitZero(n) = Null /\ n = 0) \/ (OmitZero(n) = n /\ n # 0 /\ n # Null)
BY NullFacts DEF OmitZero

(* The row of a daemon set has every count. *)
LEMMA DaemonCounts ==
  ASSUME NEW o, Plausible(o), NEW k, k = "DaemonSet"
  PROVE  LET c == catalogEntityToRow(k, o).counts
         IN  /\ catalogEntityToRow(k, o).signal = <<o.ready, o.desired>>
             /\ c.desired = o.desired /\ c.current = o.current /\ c.ready = o.ready
             /\ c.updated \in Nat /\ c.available \in Nat
<1> DEFINE s == SentCounts(k, o)
           hint == StatusHint(k, o)
<1>1. s.desired = o.desired /\ s.current = o.current /\ s.ready = o.ready
      /\ s.updated = OmitZero(o.updated) /\ s.available = OmitZero(o.available)
  BY DEF SentCounts
<1>2. hint = <<s.ready, s.desired>> BY DEF StatusHint
<1>3. hint = <<o.ready, o.desired>> BY <1>1, <1>2
<1>4. o.desired \in Nat /\ o.current \in Nat /\ o.ready \in Nat BY DEF Plausible
<1>5. hint # Null BY <1>3, <1>4, NullFacts
<1>6. parseWorkloadReplicaSignal(hint).ready = o.ready /\ parseWorkloadReplicaSignal(hint).current = o.desired
  BY <1>3, <1>5 DEF parseWorkloadReplicaSignal
<1>7. k \in WORKLOAD_READY_KINDS BY DEF WORKLOAD_READY_KINDS
<1>8. OmitZero(o.updated) # Null => OmitZero(o.updated) \in Nat BY OmitFacts DEF Plausible
<1>9. OmitZero(o.available) # Null => OmitZero(o.available) \in Nat BY OmitFacts DEF Plausible
<1> DEFINE c == hydrateCatalogWorkloadFields(k, s, hint)
<1>10. catalogEntityToRow(k, o).counts = c /\ catalogEntityToRow(k, o).signal = hint BY DEF catalogEntityToRow
<1> HIDE DEF s, hint
<1>11. /\ c.desired = o.desired /\ c.current = o.current /\ c.ready = o.ready
       /\ c.updated \in Nat /\ c.available \in Nat
  BY <1>1, <1>4, <1>6, <1>7, <1>8, <1>9, NullFacts DEF hydrateCatalogWorkloadFields, Coalesce
<1> HIDE DEF c
<1> QED BY <1>3, <1>10, <1>11

Replicated == {"Deployment", "StatefulSet", "ReplicaSet"}

(* The row of a replicated workload has the counts that are not zero. *)
LEMMA ReplicaCounts ==
  ASSUME NEW o, Plausible(o), NEW k \in Replicated
  PROVE  LET row == catalogEntityToRow(k, o)
             c == row.counts
         IN  /\ row.signal = Null \/ row.signal = <<o.ready, o.current>>
             /\ c.desired = o.desired /\ c.current = OmitZero(o.current) /\ c.ready = OmitZero(o.ready)
             /\ c.updated = OmitZero(o.updated) /\ c.available = OmitZero(o.available)
<1> DEFINE s == SentCounts(k, o)
           hint == StatusHint(k, o)
           p == parseWorkloadReplicaSignal(hint)
<1>0. k # "DaemonSet" /\ k # "Job" /\ k \in WORKLOAD_READY_KINDS BY DEF Replicated, WORKLOAD_READY_KINDS
<1>1. s.desired = o.desired /\ s.current = OmitZero(o.current) /\ s.ready = OmitZero(o.ready)
      /\ s.updated = OmitZero(o.updated) /\ s.available = OmitZero(o.available)
  BY <1>0 DEF SentCounts
<1>2. hint = IF s.ready # Null /\ s.current # Null THEN <<s.ready, s.current>> ELSE Null
  BY <1>0 DEF StatusHint
<1>3. o.desired \in Nat /\ o.current \in Nat /\ o.ready \in Nat BY DEF Plausible
<1> HIDE DEF s, hint
<1>4. hint = Null \/ (hint = <<o.ready, o.current>> /\ s.ready = o.ready /\ s.current = o.current)
  BY <1>1, <1>2, <1>3, OmitFacts
<1>5. s.ready # Null /\ s.current # Null => hint # Null
  BY <1>1, <1>2, <1>3, OmitFacts, NullFacts
<1>6. /\ hint = Null => p.ready = Null /\ p.current = Null
      /\ hint # Null => p.ready = o.ready /\ p.current = o.current
  BY <1>4 DEF parseWorkloadReplicaSignal
<1>7. o.desired # Null BY <1>3, NullFacts
<1> DEFINE c == hydrateCatalogWorkloadFields(k, s, hint)
<1>8. catalogEntityToRow(k, o).counts = c /\ catalogEntityToRow(k, o).signal = hint
  BY DEF catalogEntityToRow, s, hint
<1> HIDE DEF p
<1>9. /\ c.desired = Coalesce(s.desired, p.current) /\ c.current = Coalesce(s.current, p.current)
      /\ c.ready = Coalesce(s.ready, p.ready) /\ c.updated = s.updated /\ c.available = s.available
  BY <1>0 DEF hydrateCatalogWorkloadFields, p
<1> HIDE DEF c
<1>10. c.desired = o.desired BY <1>1, <1>7, <1>9 DEF Coalesce
<1>11. c.current = s.current /\ c.ready = s.ready BY <1>4, <1>6, <1>9 DEF Coalesce
<1> QED BY <1>1, <1>4, <1>8, <1>9, <1>10, <1>11

(* The row of any other kind has the counts as they are sent. *)
LEMMA OtherCounts ==
  ASSUME NEW o, Plausible(o), NEW k, k \notin WORKLOAD_READY_KINDS
  PROVE  LET row == catalogEntityToRow(k, o)
         IN  /\ row.signal = IF k = "Job" /\ o.ready # 0 THEN <<o.ready, o.desired>> ELSE Null
             /\ row.counts.desired = o.desired /\ row.counts.ready = OmitZero(o.ready)
<1> DEFINE s == SentCounts(k, o)
           hint == StatusHint(k, o)
<1>0. k # "DaemonSet" BY DEF WORKLOAD_READY_KINDS
<1>1. s.desired = o.desired /\ s.ready = OmitZero(o.ready) BY <1>0 DEF SentCounts
<1>2. hint = IF k = "Job" /\ s.ready # Null THEN <<s.ready, s.desired>> ELSE Null
  BY <1>0 DEF StatusHint
<1>3. (s.ready = Null /\ o.ready = 0) \/ (s.ready = o.ready /\ o.ready # 0 /\ o.ready # Null)
  BY <1>1, OmitFacts DEF Plausible
<1>4. catalogEntityToRow(k, o).counts = s /\ catalogEntityToRow(k, o).signal = hint
  BY DEF catalogEntityToRow, hydrateCatalogWorkloadFields
<1> HIDE DEF s, hint
<1> QED BY <1>1, <1>2, <1>3, <1>4

(* An object told healthy has all it should have. *)
LEMMA ToneIsEarned ==
  ASSUME FieldInv
  PROVE  ToneEarned
<1>0. Plausible(object) BY DEF FieldInv
<1>a. object.ready \in Nat /\ object.desired \in Nat /\ object.current \in Nat /\ object.available \in Nat /\ object.updated \in Nat
      /\ object.available <= object.ready
  BY <1>0 DEF Plausible
<1>1. ASSUME catalogStatusTone(tableKind, Row.signal) = "healthy", ~(tableKind = "Job" /\ object.desired >= 10)
      PROVE  object.ready >= (IF tableKind \in {"DaemonSet", "Job"} THEN object.desired ELSE object.current)
  <2>1. Row.signal # Null BY <1>1 DEF catalogStatusTone
  <2>2. CASE tableKind = "DaemonSet"
    <3>1. Row.signal = <<object.ready, object.desired>> BY <1>0, <2>2, DaemonCounts DEF Row
    <3>2. Row.signal[1] = object.ready /\ Row.signal[2] = object.desired BY <3>1
    <3>3. object.desired > 0 => object.ready >= object.desired
      BY <1>a, <1>1, <2>1, <2>2, <3>2 DEF catalogStatusTone
    <3> QED BY <1>a, <2>2, <3>3
  <2>3. CASE tableKind \in Replicated
    <3>1. Row.signal = <<object.ready, object.current>> BY <1>0, <2>1, <2>3, ReplicaCounts DEF Row
    <3>2. Row.signal[1] = object.ready /\ Row.signal[2] = object.current BY <3>1
    <3>3. tableKind # "Job" /\ tableKind # "DaemonSet" BY <2>3 DEF Replicated
    <3>4. object.current > 0 => object.ready >= object.current
      BY <1>a, <1>1, <2>1, <3>2, <3>3 DEF catalogStatusTone
    <3> QED BY <1>a, <3>3, <3>4
  <2>4. CASE tableKind \notin WORKLOAD_READY_KINDS
    <3>1. tableKind = "Job" /\ Row.signal = <<object.ready, object.desired>> BY <1>0, <2>1, <2>4, OtherCounts DEF Row
    <3>2. Row.signal[1] = object.ready /\ Row.signal[2] = object.desired BY <3>1
    <3>3. object.ready = 1 /\ (object.desired = 1 \/ object.desired \in 10..19)
      BY <1>1, <2>1, <3>1, <3>2 DEF catalogStatusTone
    <3> QED BY <1>a, <1>1, <3>1, <3>3
  <2> QED BY <2>2, <2>3, <2>4 DEF WORKLOAD_READY_KINDS, Replicated
<1>2. ASSUME tableKind = "Job", "Complete" \in resolveJobConditions(Row)
      PROVE  object.ready >= object.desired
  <2>1. tableKind \notin WORKLOAD_READY_KINDS BY <1>2 DEF WORKLOAD_READY_KINDS
  <2>2. Row.counts.desired = object.desired /\ Row.counts.ready = OmitZero(object.ready)
    BY <1>0, <2>1, OtherCounts DEF Row
  <2>3. OmitZero(object.ready) # Null /\ OmitZero(object.ready) >= object.desired
    BY <1>2, <2>2 DEF resolveJobConditions
  <2> QED BY <1>a, <2>3, OmitFacts
<1>3. ASSUME tableKind = "Deployment", "Available" \in resolveDeploymentConditions(Row)
      PROVE  object.ready >= object.desired
  <2>1. tableKind \in Replicated BY <1>3 DEF Replicated
  <2>2. /\ Row.counts.desired = object.desired /\ Row.counts.ready = OmitZero(object.ready)
        /\ Row.counts.available = OmitZero(object.available)
    BY <1>0, <2>1, ReplicaCounts DEF Row
  <2> DEFINE available == Coalesce(Row.counts.available, Row.counts.ready)
  <2>3. available # Null /\ (object.desired = 0 \/ available >= object.desired)
    BY <1>3, <2>2 DEF resolveDeploymentConditions
  <2>4. available \in {object.available, object.ready}
    BY <1>a, <2>2, <2>3, OmitFacts DEF Coalesce
  <2> HIDE DEF available
  <2> QED BY <1>a, <2>3, <2>4
<1> QED BY <1>1, <1>2, <1>3 DEF ToneEarned

(* Cells that can be compared: dashes, counts and fractions. *)
Ones == {<<>>} \cup {<<n>> : n \in Nat}
Pairs == {<<>>} \cup {<<a, b>> : a \in Nat, b \in Nat}

CellRight(col) ==
  /\ col \notin {"updated", "available"} /\ Cells[col] # <<>> => Cells[col] = True(col)
  /\ {Cells[col], True(col)} \subseteq Ones \/ {Cells[col], True(col)} \subseteq Pairs

LEMMA CellFacts ==
  ASSUME NEW n
  PROVE  /\ n = Null => Cell(n) = <<>>
         /\ n # Null => Cell(n) = <<n>>
         /\ n \in Nat => Cell(n) = <<n>> /\ Cell(n) \in Ones
         /\ n \in Nat => (Cell(OmitZero(n)) = <<>> \/ Cell(OmitZero(n)) = <<n>>) /\ Cell(OmitZero(n)) \in Ones
<1>1. n \in Nat => n # Null BY NullFacts
<1>2. n \in Nat => OmitZero(n) = Null \/ (OmitZero(n) = n /\ n # Null) BY OmitFacts
<1> QED BY <1>1, <1>2 DEF Cell, Ones

LEMMA DaemonCells ==
  ASSUME FieldInv, tableKind = "DaemonSet"
  PROVE  \A col \in CountColumns(tableKind) : CellRight(col)
<1> SUFFICES ASSUME NEW col \in CountColumns(tableKind) PROVE CellRight(col) OBVIOUS
<1> DEFINE c == Row.counts
<1>1. /\ c.desired = object.desired /\ c.current = object.current /\ c.ready = object.ready
      /\ c.updated \in Nat /\ c.available \in Nat
  BY DaemonCounts DEF FieldInv, Row
<1>2. /\ object.desired \in Nat /\ object.current \in Nat /\ object.ready \in Nat
      /\ object.updated \in Nat /\ object.available \in Nat
  BY DEF FieldInv, Plausible
<1>3. Coalesce(c.updated, c.ready) = c.updated /\ Coalesce(c.available, c.ready) = c.available
  BY <1>1, NullFacts DEF Coalesce
<1> DEFINE d == [desired |-> Cell(c.desired), current |-> Cell(c.current), ready |-> Cell(c.ready),
                 updated |-> Cell(Coalesce(c.updated, c.ready)), available |-> Cell(Coalesce(c.available, c.ready))]
<1>4. CountCells(tableKind, Row) = d BY DEF CountCells, resolveDaemonSetCounts
<1>5. Cells = d /\ CountColumns(tableKind) = DOMAIN d \ {"name"} BY <1>4 DEF Cells, CountColumns, Row
<1> HIDE DEF c
<1>6. col \in {"desired", "current", "ready", "updated", "available"} BY <1>5
<1>7. True(col) = <<object[col]>> BY <1>6 DEF True
<1>8. object[col] \in Nat BY <1>2, <1>6
<1>9. CASE col \in {"desired", "current", "ready"}
  <2>1. Cells[col] = Cell(object[col]) BY <1>1, <1>5, <1>9
  <2> QED BY <1>7, <1>8, <2>1, CellFacts DEF CellRight, Ones
<1>10. CASE col \in {"updated", "available"}
  <2>1. PICK n \in Nat : Cells[col] = Cell(n) BY <1>1, <1>3, <1>5, <1>10
  <2>2. Cells[col] \in Ones BY <2>1, CellFacts
  <2> QED BY <1>7, <1>8, <1>10, <2>2 DEF CellRight, Ones
<1> QED BY <1>6, <1>9, <1>10

LEMMA ReplicaSetCells ==
  ASSUME FieldInv, tableKind = "ReplicaSet"
  PROVE  \A col \in CountColumns(tableKind) : CellRight(col)
<1> SUFFICES ASSUME NEW col \in CountColumns(tableKind) PROVE CellRight(col) OBVIOUS
<1> DEFINE c == Row.counts
<1>0. tableKind \in Replicated BY DEF Replicated
<1>1. c.desired = object.desired /\ c.current = OmitZero(object.current) /\ c.ready = OmitZero(object.ready)
  BY <1>0, ReplicaCounts DEF FieldInv, Row
<1>2. object.desired \in Nat /\ object.current \in Nat /\ object.ready \in Nat
  BY DEF FieldInv, Plausible
<1>3. c.current # 0 BY <1>1, <1>2, OmitFacts, NullFacts
<1> DEFINE d == [desired |-> Cell(c.desired), current |-> Cell(c.current), ready |-> Cell(c.ready)]
<1>4. resolveReplicaCounts(Row) = d BY <1>3 DEF resolveReplicaCounts
<1>5. CountCells(tableKind, Row) = d BY <1>4 DEF CountCells
<1>6. Cells = d /\ CountColumns(tableKind) = DOMAIN d \ {"name"} BY <1>5 DEF Cells, CountColumns, Row
<1> HIDE DEF c
<1>7. col \in {"desired", "current", "ready"} BY <1>6
<1>8. True(col) = <<object[col]>> /\ object[col] \in Nat BY <1>2, <1>7 DEF True
<1>9. Cells[col] = Cell(object[col]) \/ Cells[col] = Cell(OmitZero(object[col])) BY <1>1, <1>6, <1>7
<1> QED BY <1>8, <1>9, CellFacts DEF CellRight, Ones

LEMMA WorkloadCells ==
  ASSUME FieldInv, tableKind \in {"Deployment", "StatefulSet"}
  PROVE  \A col \in CountColumns(tableKind) : CellRight(col)
<1> SUFFICES ASSUME NEW col \in CountColumns(tableKind) PROVE CellRight(col) OBVIOUS
<1> DEFINE c == Row.counts
<1>0. tableKind \in Replicated BY DEF Replicated
<1>1. c.desired = object.desired /\ c.current = OmitZero(object.current) /\ c.ready = OmitZero(object.ready)
  BY <1>0, ReplicaCounts DEF FieldInv, Row
<1>2. object.desired \in Nat /\ object.current \in Nat /\ object.ready \in Nat
  BY DEF FieldInv, Plausible
<1> DEFINE d == [pods |-> Fraction(c.ready, c.current), replicas |-> Cell(c.desired)]
<1>3. CountCells(tableKind, Row) = d BY DEF CountCells, workloadPodsTableFields, formatWorkloadPods
<1>4. Cells = d /\ CountColumns(tableKind) = DOMAIN d \ {"name"} BY <1>3 DEF Cells, CountColumns, Row
<1>5. col \in {"pods", "replicas"} BY <1>4
<1> HIDE DEF c
<1>6. CASE col = "pods"
  <2>1. True(col) = <<object.ready, object.current>> BY <1>6 DEF True
  <2>2. Cells[col] = Fraction(c.ready, c.current) BY <1>4, <1>6
  <2>3. (IF c.ready = Null THEN 0 ELSE c.ready) = object.ready /\ (IF c.current = Null THEN 0 ELSE c.current) = object.current
    BY <1>1, <1>2, OmitFacts
  <2>4. Cells[col] = <<>> \/ Cells[col] = <<object.ready, object.current>> BY <2>2, <2>3 DEF Fraction
  <2> QED BY <1>2, <2>1, <2>4 DEF CellRight, Pairs
<1>7. CASE col = "replicas"
  <2>1. True(col) = <<object.desired>> BY <1>7 DEF True
  <2>2. Cells[col] = Cell(object.desired) BY <1>1, <1>4, <1>7
  <2> QED BY <1>2, <2>1, <2>2, CellFacts DEF CellRight, Ones
<1> QED BY <1>5, <1>6, <1>7

LEMMA JobCells ==
  ASSUME FieldInv, tableKind = "Job"
  PROVE  \A col \in CountColumns(tableKind) : CellRight(col)
<1> SUFFICES ASSUME NEW col \in CountColumns(tableKind) PROVE CellRight(col) OBVIOUS
<1> DEFINE c == Row.counts
<1>0. tableKind \notin WORKLOAD_READY_KINDS BY DEF WORKLOAD_READY_KINDS
<1>1. c.desired = object.desired /\ c.ready = OmitZero(object.ready) BY <1>0, OtherCounts DEF FieldInv, Row
<1>2. object.desired \in Nat /\ object.ready \in Nat BY DEF FieldInv, Plausible
<1> DEFINE d == [completions |-> formatJobCompletions(Row)]
<1>3. CountCells(tableKind, Row) = d BY DEF CountCells
<1>4. Cells = d /\ CountColumns(tableKind) = DOMAIN d \ {"name"} BY <1>3 DEF Cells, CountColumns, Row
<1>5. col = "completions" /\ Cells[col] = formatJobCompletions(Row) BY <1>4
<1>6. Cells[col] = <<>> \/ Cells[col] = <<object.ready, object.desired>>
  <2>1. OmitZero(object.ready) = Null \/ OmitZero(object.ready) = object.ready BY <1>2, OmitFacts
  <2> QED BY <1>1, <1>5, <2>1 DEF formatJobCompletions
<1>7. True(col) = <<object.ready, object.desired>> BY <1>5 DEF True
<1> QED BY <1>2, <1>6, <1>7 DEF CellRight, Pairs

LEMMA CellsAreRight ==
  ASSUME FieldInv
  PROVE  \A col \in CountColumns(tableKind) : CellRight(col)
<1>1. CASE tableKind \notin {"DaemonSet", "ReplicaSet", "Deployment", "StatefulSet", "Job"}
  <2>1. CountCells(tableKind, Row) = [name |-> <<>>] BY <1>1 DEF CountCells
  <2>2. CountColumns(tableKind) = {} BY <2>1 DEF CountColumns, Row
  <2> QED BY <2>2
<1> QED BY <1>1, DaemonCells, ReplicaSetCells, WorkloadCells, JobCells

(* Cells of one shape are in one order. *)
CellsOrdered(V) ==
  \A u, v, w \in V :
    /\ compareSortValues(u, v) \in Int /\ compareSortValues(u, v) = -compareSortValues(v, u)
    /\ compareSortValues(u, v) < 0 /\ compareSortValues(v, w) < 0 => compareSortValues(u, w) < 0
    /\ compareSortValues(u, v) = 0 => u = v

LEMMA OnesOrdered == CellsOrdered(Ones)
<1>1. \A u \in Ones : u = <<>> \/ (u # <<>> /\ Len(u) = 1 /\ u[1] \in Nat /\ u = <<u[1]>>)
  <2> TAKE u \in Ones
  <2>1. CASE u # <<>>
    <3>1. PICK n \in Nat : u = <<n>> BY <2>1 DEF Ones
    <3> QED BY <3>1
  <2> QED BY <2>1
<1>2. \A u, v \in Ones : /\ u = <<>> /\ v = <<>> => compareSortValues(u, v) = 0
                         /\ u = <<>> /\ v # <<>> => compareSortValues(u, v) = 1
                         /\ u # <<>> /\ v = <<>> => compareSortValues(u, v) = -1
                         /\ u # <<>> /\ v # <<>> => compareSortValues(u, v) = u[1] - v[1]
  <2> TAKE u, v \in Ones
  <2>1. u = <<>> => compareSortValues(u, v) = IF v = <<>> THEN 0 ELSE 1 BY DEF compareSortValues, isEmptySortValue
  <2>2. u # <<>> /\ v = <<>> => compareSortValues(u, v) = -1 BY DEF compareSortValues, isEmptySortValue
  <2>3. u # <<>> /\ v # <<>> => compareSortValues(u, v) = u[1] - v[1]
    <3>1. u # <<>> => Len(u) = 1 BY <1>1
    <3>2. u # <<>> => Len(u) # 2 BY <3>1
    <3> QED BY <3>2 DEF compareSortValues, isEmptySortValue
  <2> QED BY <2>1, <2>2, <2>3
<1> SUFFICES ASSUME NEW u \in Ones, NEW v \in Ones, NEW w \in Ones
             PROVE  /\ compareSortValues(u, v) \in Int /\ compareSortValues(u, v) = -compareSortValues(v, u)
                    /\ compareSortValues(u, v) < 0 /\ compareSortValues(v, w) < 0 => compareSortValues(u, w) < 0
                    /\ compareSortValues(u, v) = 0 => u = v
  BY DEF CellsOrdered
<1>3. compareSortValues(u, v) \in Int /\ compareSortValues(u, v) = -compareSortValues(v, u) BY <1>1, <1>2
<1>4. compareSortValues(u, v) < 0 /\ compareSortValues(v, w) < 0 => compareSortValues(u, w) < 0 BY <1>1, <1>2
<1>5. compareSortValues(u, v) = 0 => u = v BY <1>1, <1>2
<1> QED BY <1>3, <1>4, <1>5

LEMMA PairsOrdered == CellsOrdered(Pairs)
<1>1. \A u \in Pairs : u = <<>> \/ (u # <<>> /\ Len(u) = 2 /\ u[1] \in Nat /\ u[2] \in Nat /\ u = <<u[1], u[2]>>)
  <2> TAKE u \in Pairs
  <2>1. CASE u # <<>>
    <3>1. PICK a \in Nat, b \in Nat : u = <<a, b>> BY <2>1 DEF Pairs
    <3> QED BY <3>1
  <2> QED BY <2>1
<1>2. \A u, v \in Pairs : /\ u = <<>> /\ v = <<>> => compareSortValues(u, v) = 0
                          /\ u = <<>> /\ v # <<>> => compareSortValues(u, v) = 1
                          /\ u # <<>> /\ v = <<>> => compareSortValues(u, v) = -1
                          /\ u # <<>> /\ v # <<>> =>
                               compareSortValues(u, v) = IF u[1] # v[1] THEN u[1] - v[1] ELSE u[2] - v[2]
  BY <1>1 DEF compareSortValues, isEmptySortValue, compareFractionValues
<1> SUFFICES ASSUME NEW u \in Pairs, NEW v \in Pairs, NEW w \in Pairs
             PROVE  /\ compareSortValues(u, v) \in Int /\ compareSortValues(u, v) = -compareSortValues(v, u)
                    /\ compareSortValues(u, v) < 0 /\ compareSortValues(v, w) < 0 => compareSortValues(u, w) < 0
                    /\ compareSortValues(u, v) = 0 => u = v
  BY DEF CellsOrdered
<1>3. compareSortValues(u, v) \in Int /\ compareSortValues(u, v) = -compareSortValues(v, u) BY <1>1, <1>2
<1>4. compareSortValues(u, v) < 0 /\ compareSortValues(v, w) < 0 => compareSortValues(u, w) < 0 BY <1>1, <1>2
<1>5. compareSortValues(u, v) = 0 => u = v BY <1>1, <1>2
<1> QED BY <1>3, <1>4, <1>5

(* So are rows of different names, in both directions. *)
LEMMA RowsOrdered ==
  ASSUME NEW V, CellsOrdered(V), NEW rows, NEW d \in {"asc", "desc"},
         \A r \in rows : r[1] \in Int /\ r[2] \in V,
         \A r, s \in rows : r # s => r[1] # s[1]
  PROVE  \A a, b, c \in rows :
           /\ a # b => (compareTableRows(a, b, d) < 0 <=> compareTableRows(b, a, d) > 0) /\ compareTableRows(a, b, d) # 0
           /\ compareTableRows(a, b, d) < 0 /\ compareTableRows(b, c, d) < 0 => compareTableRows(a, c, d) < 0
<1> SUFFICES ASSUME NEW a \in rows, NEW b \in rows, NEW c \in rows
    PROVE  /\ a # b => (compareTableRows(a, b, d) < 0 <=> compareTableRows(b, a, d) > 0) /\ compareTableRows(a, b, d) # 0
           /\ compareTableRows(a, b, d) < 0 /\ compareTableRows(b, c, d) < 0 => compareTableRows(a, c, d) < 0
  OBVIOUS
<1> DEFINE cmp(r, s) == compareSortValues(r[2], s[2])
<1>1. \A r, s \in rows : /\ cmp(r, s) \in Int /\ cmp(r, s) = -cmp(s, r)
                         /\ compareTableRows(r, s, d) =
                              IF cmp(r, s) # 0 THEN IF d = "desc" THEN -cmp(r, s) ELSE cmp(r, s) ELSE r[1] - s[1]
  BY DEF CellsOrdered, compareTableRows
<1>2. \A r, s, t \in rows : cmp(r, s) < 0 /\ cmp(s, t) < 0 => cmp(r, t) < 0 BY DEF CellsOrdered
<1>3. \A r, s \in rows : cmp(r, s) = 0 => r[2] = s[2] BY DEF CellsOrdered
<1>4. \A r, s, t \in rows : /\ cmp(r, s) = 0 => cmp(r, t) = cmp(s, t)
                            /\ cmp(s, t) = 0 => cmp(r, t) = cmp(r, s)
  BY <1>3
<1> HIDE DEF cmp
<1>5. a[1] \in Int /\ b[1] \in Int /\ c[1] \in Int OBVIOUS
<1>6. a # b => (compareTableRows(a, b, d) < 0 <=> compareTableRows(b, a, d) > 0) /\ compareTableRows(a, b, d) # 0
  <2>1. a # b => a[1] # b[1] OBVIOUS
  <2> QED BY <1>1, <1>5, <2>1
<1>7. ASSUME compareTableRows(a, b, d) < 0, compareTableRows(b, c, d) < 0 PROVE compareTableRows(a, c, d) < 0
  <2>1. CASE cmp(a, b) = 0 BY <1>1, <1>4, <1>5, <1>7, <2>1
  <2>2. CASE cmp(b, c) = 0 BY <1>1, <1>4, <1>5, <1>7, <2>2
  <2>3. CASE cmp(a, b) # 0 /\ cmp(b, c) # 0 /\ d = "asc"
    <3>1. cmp(a, b) < 0 /\ cmp(b, c) < 0 BY <1>1, <1>7, <2>3
    <3>2. cmp(a, c) < 0 BY <1>2, <3>1
    <3> QED BY <1>1, <2>3, <3>2
  <2>4. CASE cmp(a, b) # 0 /\ cmp(b, c) # 0 /\ d = "desc"
    <3>1. cmp(b, a) < 0 /\ cmp(c, b) < 0 BY <1>1, <1>7, <2>4
    <3>2. cmp(c, a) < 0 BY <1>2, <3>1
    <3> QED BY <1>1, <2>4, <3>2
  <2> QED BY <2>1, <2>2, <2>3, <2>4
<1> QED BY <1>6, <1>7

LEMMA SortIsOrdered ==
  ASSUME FieldInv
  PROVE  SortOrdered
<1> SUFFICES ASSUME NEW col \in CountColumns(tableKind), NEW d \in {"asc", "desc"}
             PROVE  LET rows == {<<4, Cells[col]>>, <<5, True(col)>>, <<1, <<>>>>, <<2, <<>>>>}
                    IN  \A a, b, c \in rows :
                          /\ a # b => (compareTableRows(a, b, d) < 0 <=> compareTableRows(b, a, d) > 0) /\ compareTableRows(a, b, d) # 0
                          /\ compareTableRows(a, b, d) < 0 /\ compareTableRows(b, c, d) < 0 => compareTableRows(a, c, d) < 0
  BY DEF SortOrdered
<1> DEFINE rows == {<<4, Cells[col]>>, <<5, True(col)>>, <<1, <<>>>>, <<2, <<>>>>}
<1>1. PICK V \in {Ones, Pairs} : {Cells[col], True(col)} \subseteq V
  BY CellsAreRight DEF CellRight
<1>2. CellsOrdered(V) BY OnesOrdered, PairsOrdered
<1>3. <<>> \in V BY DEF Ones, Pairs
<1>4. \A r \in rows : r[1] \in Int /\ r[2] \in V BY <1>1, <1>3
<1>5. \A r, s \in rows : r # s => r[1] # s[1]
  <2> DEFINE x == Cells[col]
             y == True(col)
  <2>1. rows = {<<4, x>>, <<5, y>>, <<1, <<>>>>, <<2, <<>>>>} OBVIOUS
  <2> HIDE DEF x, y, rows
  <2>2. <<4, x>>[1] = 4 /\ <<5, y>>[1] = 5 /\ <<1, <<>>>>[1] = 1 /\ <<2, <<>>>>[1] = 2 OBVIOUS
  <2> QED BY <2>1, <2>2
<1> HIDE DEF rows
<1>6. \A a, b, c \in rows :
           /\ a # b => (compareTableRows(a, b, d) < 0 <=> compareTableRows(b, a, d) > 0) /\ compareTableRows(a, b, d) # 0
           /\ compareTableRows(a, b, d) < 0 /\ compareTableRows(b, c, d) < 0 => compareTableRows(a, c, d) < 0
  BY <1>2, <1>4, <1>5, RowsOrdered
<1> QED BY <1>6 DEF rows

(* Of the kinds without a layer of their own for it, one has a column of ready
   counts and one a column of nodes. *)
LEMMA ReadyColumns ==
  ASSUME NEW k \in TableKinds, "ready" \in schemaForKind(k)
  PROVE  k \in {"DaemonSet", "ReplicaSet", "ReplicationController"}
<1>1. CASE k \in DOMAIN KIND_TABLE_SCHEMAS
  <2>1. "ready" \in KIND_TABLE_SCHEMAS[k] BY <1>1 DEF schemaForKind
  <2> QED BY <1>1, <2>1 DEF KIND_TABLE_SCHEMAS, PodColumns, WORKLOAD_PODS_COLUMNS, DAEMONSET_COLUMNS
<1>2. CASE k \notin DOMAIN KIND_TABLE_SCHEMAS
  <2>1. k \in DOMAIN BuiltinSchemas /\ "ready" \in BuiltinSchemas[k] BY <1>2 DEF TableKinds, schemaForKind
  <2>2. CASE k \in DOMAIN BUILTIN_KIND_TABLE_SCHEMAS
    <3>1. "ready" \in BUILTIN_KIND_TABLE_SCHEMAS[k]
      BY <2>1, <2>2 DEF BuiltinSchemas, BUILTIN_KIND_TABLE_SCHEMAS, ClusterKindSchemas
    <3> QED BY <2>2, <3>1 DEF BUILTIN_KIND_TABLE_SCHEMAS
  <2>3. CASE k \in DOMAIN ClusterKindSchemas
    <3>1. "ready" \in ClusterKindSchemas[k] BY <2>1, <2>3 DEF BuiltinSchemas, BUILTIN_KIND_TABLE_SCHEMAS, ClusterKindSchemas
    <3> QED BY <2>3, <3>1 DEF ClusterKindSchemas
  <2>4. CASE k \in DOMAIN ExtensionSchemas
    <3>1. "ready" \in ExtensionSchemas[k] BY <2>1, <2>4 DEF BuiltinSchemas, BUILTIN_KIND_TABLE_SCHEMAS, ClusterKindSchemas, ExtensionSchemas
    <3> QED BY <2>4, <3>1 DEF ExtensionSchemas
  <2> QED BY <2>1, <2>2, <2>3, <2>4 DEF BuiltinSchemas
<1> QED BY <1>1, <1>2

LEMMA NodeColumns ==
  ASSUME NEW k \in TableKinds, "node" \in schemaForKind(k)
  PROVE  k \in {"Pod", "VolumeAttachment"}
<1>1. CASE k \in DOMAIN KIND_TABLE_SCHEMAS
  <2>1. "node" \in KIND_TABLE_SCHEMAS[k] BY <1>1 DEF schemaForKind
  <2> QED BY <1>1, <2>1 DEF KIND_TABLE_SCHEMAS, PodColumns, WORKLOAD_PODS_COLUMNS, DAEMONSET_COLUMNS
<1>2. CASE k \notin DOMAIN KIND_TABLE_SCHEMAS
  <2>1. k \in DOMAIN BuiltinSchemas /\ "node" \in BuiltinSchemas[k] BY <1>2 DEF TableKinds, schemaForKind
  <2>2. CASE k \in DOMAIN BUILTIN_KIND_TABLE_SCHEMAS
    <3>1. "node" \in BUILTIN_KIND_TABLE_SCHEMAS[k]
      BY <2>1, <2>2 DEF BuiltinSchemas, BUILTIN_KIND_TABLE_SCHEMAS, ClusterKindSchemas
    <3> QED BY <2>2, <3>1 DEF BUILTIN_KIND_TABLE_SCHEMAS
  <2>3. CASE k \in DOMAIN ClusterKindSchemas
    <3>1. "node" \in ClusterKindSchemas[k] BY <2>1, <2>3 DEF BuiltinSchemas, BUILTIN_KIND_TABLE_SCHEMAS, ClusterKindSchemas
    <3> QED BY <2>3, <3>1 DEF ClusterKindSchemas
  <2>4. CASE k \in DOMAIN ExtensionSchemas
    <3>1. "node" \in ExtensionSchemas[k] BY <2>1, <2>4 DEF BuiltinSchemas, BUILTIN_KIND_TABLE_SCHEMAS, ClusterKindSchemas, ExtensionSchemas
    <3> QED BY <2>4, <3>1 DEF ExtensionSchemas
  <2> QED BY <2>1, <2>2, <2>3, <2>4 DEF BuiltinSchemas
<1> QED BY <1>1, <1>2

LEMMA FieldsAreShown ==
  ASSUME FieldInv
  PROVE  FieldsShown
<1> SUFFICES ASSUME NEW col \in schemaForKind(tableKind), col \in catalogTableFields(tableKind), TableRow(tableKind, col) = "dash"
             PROVE  <<tableKind, col>> \in Overlaid
  BY DEF FieldsShown
<1>0. tableKind \in TableKinds BY DEF FieldInv
<1>1. enrichEntityForTable(tableKind, col) = "dash" BY DEF TableRow, tableCellValue
<1>2. /\ col \notin OwnFields(tableKind)
      /\ \/ col = "ready" /\ tableKind # "ReplicaSet" /\ readyLabelForRow(tableKind) = "dash"
         \/ col = "node"
  BY <1>1 DEF enrichEntityForTable
<1>3. CASE col = "ready" /\ tableKind # "ReplicaSet" /\ readyLabelForRow(tableKind) = "dash"
  <2>1. tableKind \in {"DaemonSet", "ReplicaSet", "ReplicationController"} BY <1>0, <1>3, ReadyColumns
  <2>2. tableKind # "DaemonSet" BY <1>3 DEF readyLabelForRow, WORKLOAD_READY_KINDS
  <2> QED BY <1>3, <2>1, <2>2 DEF Overlaid
<1>4. CASE col = "node"
  <2>1. tableKind \in {"Pod", "VolumeAttachment"} BY <1>0, <1>4, NodeColumns
  <2>2. podForRow(tableKind) = "dash" BY <1>1, <1>2, <1>4 DEF enrichEntityForTable
  <2>3. tableKind # "Pod" BY <2>2 DEF podForRow
  <2> QED BY <1>4, <2>1, <2>3 DEF Overlaid
<1> QED BY <1>2, <1>3, <1>4

LEMMA FieldInvSuffices ==
  ASSUME FieldInv
  PROVE  CountsTrue /\ FieldsShown /\ ToneEarned /\ SortOrdered
<1>1. CountsTrue BY CellsAreRight DEF CountsTrue, CellRight
<1> QED BY <1>1, FieldsAreShown, ToneIsEarned, SortIsOrdered

-----------------------------------------------------------------------------
(* The table of resources, for any objects, schemas, rows and names: a count it shows
   is the object's and no condition or tone tells of more, no value the backend derives
   hides behind a dash but for the two, rows have one order, the columns chosen stay
   chosen whatever was visited since, and a pane without rows says why. *)
THEOREM TableSafe == FieldSpec /\ ColumnSpec /\ PaneSpec => []TableTrue
<1>1. FieldInit => FieldInv BY FieldInvInit
<1>2. FieldInv /\ [FieldNext]_fieldVars => FieldInv' BY FieldStep
<1>3. TableInit => ColumnInv BY ColumnInvInit
<1>4. ColumnInv /\ [TableNext]_tableVars => ColumnInv' BY ColumnStep
<1>5. PaneInit => PaneInv BY PaneInvInit
<1>6. PaneInv /\ [PaneNext]_paneVars => PaneInv' BY PaneStep
<1>7. FieldInv /\ ColumnInv /\ PaneInv => TableTrue
  BY FieldInvSuffices, ColumnInvSuffices, PaneInvSuffices DEF TableTrue
<1> QED BY <1>1, <1>2, <1>3, <1>4, <1>5, <1>6, <1>7, PTL DEF FieldSpec, ColumnSpec, PaneSpec

-----------------------------------------------------------------------------
(* The sections of the inspector *)

(* What is held of an object is of one that may be inspected, sent by the backend,
   no id twice. *)
SectionInv ==
  /\ target \in InspectTargets
  /\ live.of = NoRef => live.sections = {}
  /\ live.sections \subseteq SectionPool
  /\ \A s, t \in live.sections : s.id = t.id => s = t

(* A window starts with no details of any object. *)
LEMMA SectionInvInit == SectionsInit => SectionInv
<1>1. (CHOOSE o \in InspectTargets : TRUE) \in InspectTargets BY SectionAssumption
<1> QED BY <1>1 DEF SectionsInit, SectionInv, NoLive

(* The details that arrive are of the object inspected then. *)
LEMMA SectionStep == SectionInv /\ [SectionsNext]_sectionVars => SectionInv'
<1> SUFFICES ASSUME SectionInv, [SectionsNext]_sectionVars PROVE SectionInv' OBVIOUS
<1>1. CASE InspectOther BY <1>1 DEF InspectOther, SectionInv
<1>2. CASE normalizeObjectDetail
  <2>1. PICK k \in 0..MaxSections : \E sent \in kSubset(k, SectionPool), h \in BOOLEAN :
               /\ \A s, t \in sent : s.id = t.id => s = t
               /\ live' = [of |-> target, healthy |-> h, sections |-> sent]
    BY <1>2 DEF normalizeObjectDetail
  <2>2. PICK sent \in kSubset(k, SectionPool), h \in BOOLEAN :
               /\ \A s, t \in sent : s.id = t.id => s = t
               /\ live' = [of |-> target, healthy |-> h, sections |-> sent]
    BY <2>1
  <2>3. sent \subseteq SectionPool BY DEF kSubset
  <2>4. live'.of = target /\ live'.sections = sent /\ target' = target BY <1>2, <2>2 DEF normalizeObjectDetail
  <2> QED BY <2>2, <2>3, <2>4, SectionAssumption DEF SectionInv
<1>3. CASE DetailFails BY <1>3 DEF DetailFails, SectionInv, NoLive
<1>4. CASE SnapshotArrives BY <1>4 DEF SnapshotArrives, SectionInv
<1>5. CASE UNCHANGED sectionVars BY <1>5 DEF sectionVars, SectionInv
<1> QED BY <1>1, <1>2, <1>3, <1>4, <1>5 DEF SectionsNext

(* The tabs, and that every section of the backend has one of them. *)
LEMMA TabsAre ==
  Range(TabOrder) = {"summary", "containers", "relationships", "spec", "runtime", "events", "metadata"}
<1>1. DOMAIN TabOrder = 1..7 BY DEF TabOrder
<1>2. 1..7 = {1, 2, 3, 4, 5, 6, 7} OBVIOUS
<1> QED BY <1>1, <1>2 DEF Range, TabOrder

LEMMA SectionHasTab ==
  ASSUME NEW s \in SectionPool
  PROVE  normalizeSectionGroup(s) \in Range(TabOrder)
<1>1. s.group \in Range(TabOrder) \cup {"", "status", "scheduling"} BY SectionAssumption
<1>2. inferGroup(s.id) \in Range(TabOrder) BY TabsAre DEF inferGroup
<1> QED BY <1>1, <1>2, TabsAre DEF normalizeSectionGroup

(* Of sections with ids of their own, none is dropped as another's double. *)
LEMMA DedupeFacts ==
  ASSUME NEW S
  PROVE  /\ dedupeSections(S) \subseteq S
         /\ (\A s, t \in S : s.id = t.id => s = t) => dedupeSections(S) = S
<1> DEFINE sigs == {sectionSignature(x) : x \in S}
           pick(g) == CHOOSE s \in S : sectionSignature(s) = g
<1>1. dedupeSections(S) = {pick(g) : g \in sigs} BY DEF dedupeSections
<1>2. \A x \in S : pick(sectionSignature(x)) \in S /\ sectionSignature(pick(sectionSignature(x))) = sectionSignature(x) OBVIOUS
<1>3. \A s, t \in S : sectionSignature(s) = sectionSignature(t) => s.id = t.id BY DEF sectionSignature
<1>4. dedupeSections(S) \subseteq S BY <1>1, <1>2
<1>5. ASSUME \A s, t \in S : s.id = t.id => s = t
      PROVE  S \subseteq dedupeSections(S)
  <2> SUFFICES ASSUME NEW x \in S PROVE x \in dedupeSections(S) OBVIOUS
  <2>1. pick(sectionSignature(x)) = x BY <1>2, <1>3, <1>5
  <2> QED BY <1>1, <2>1
<1> QED BY <1>4, <1>5

SnapshotSections == {SnapshotEvents, SnapshotLabels, SnapshotResources}

(* What the snapshot adds to a tab, and when it does. *)
AddedBy(more, groups) ==
  /\ more \subseteq SnapshotSections
  /\ SnapshotEvents \in more => \A s \in groups["events"] : s.id # "events"
  /\ SnapshotLabels \in more => \A s \in groups["metadata"] : s.id \notin {"labels", "annotations"}

Enriched(more, groups, sn) ==
  /\ AddedBy(more, groups)
  /\ \A t \in Range(TabOrder) :
       enrichInspectGroups(groups, sn)[t] = dedupeSections(groups[t] \cup {s \in more : s.group = t})

(* Each tab holds what was grouped into it and what the snapshot adds, without doubles. *)
LEMMA EnrichFacts ==
  ASSUME NEW groups, NEW sn
  PROVE  \E more : Enriched(more, groups, sn)
<1> DEFINE has(t, ids) == \E s \in groups[t] : s.id \in ids
           missing ==
             {s \in {SnapshotEvents, SnapshotLabels, SnapshotResources} :
                \/ s = SnapshotEvents /\ sn.events /\ ~has("events", {"events"})
                \/ s = SnapshotLabels /\ sn.labels /\ ~has("metadata", {"labels", "annotations"})
                \/ s = SnapshotResources /\ findRelatedPods(target, sn.pods) # {} /\ \A x \in groups["runtime"] : x.body # {"_resourceBars"}}
<1>1. enrichInspectGroups(groups, sn) = [t \in Range(TabOrder) |-> dedupeSections(groups[t] \cup {s \in missing : s.group = t})]
  BY DEF enrichInspectGroups
<1>2. SnapshotEvents # SnapshotLabels /\ SnapshotEvents # SnapshotResources /\ SnapshotLabels # SnapshotResources
  BY DEF SnapshotEvents, SnapshotLabels, SnapshotResources, Snapshot
<1>3. AddedBy(missing, groups) BY <1>2 DEF AddedBy, SnapshotSections
<1> HIDE DEF missing
<1>4. Enriched(missing, groups, sn) BY <1>1, <1>3 DEF Enriched
<1> QED BY <1>4

(* The snapshot's sections have ids and tabs of their own. *)
LEMMA SnapshotIds ==
  /\ SnapshotEvents.id = "snapshot-events" /\ SnapshotLabels.id = "snapshot-labels" /\ SnapshotResources.id = "snapshot-resources"
  /\ SnapshotEvents.group = "events" /\ SnapshotLabels.group = "metadata" /\ SnapshotResources.group = "runtime"
BY DEF SnapshotEvents, SnapshotLabels, SnapshotResources, Snapshot

(* The sections drawn come from the backend, and only while details are held. *)
LEMMA LiveFacts ==
  ASSUME SectionInv
  PROVE  /\ LiveSections \subseteq SectionPool
         /\ \A s, t \in LiveSections : s.id = t.id => s = t
         /\ \A s \in LiveSections : s.id \notin {"snapshot-events", "snapshot-labels", "snapshot-resources"}
         /\ LiveSections # {} => live.of # NoRef
BY SectionAssumption DEF SectionInv, LiveSections

(* A section of the details is in the tab of its group, and in no other. *)
LEMMA InOneTab ==
  ASSUME SectionInv, NEW s \in LiveSections, NEW t \in Range(TabOrder)
  PROVE  s \in Groups[t] <=> t = normalizeSectionGroup(s)
<1> DEFINE groups == groupSections(LiveSections)
<1>1. Groups = enrichInspectGroups(groups, snap) BY LiveFacts DEF Groups
<1>2. PICK more : Enriched(more, groups, snap) BY EnrichFacts
<1> DEFINE all == groups[t] \cup {x \in more : x.group = t}
<1>3. groups[t] = {x \in LiveSections : normalizeSectionGroup(x) = t} BY DEF groupSections
<1>4. \A x \in more : x.id \in {"snapshot-events", "snapshot-labels", "snapshot-resources"}
  BY <1>2, SnapshotIds DEF Enriched, AddedBy, SnapshotSections
<1>5. \A x, y \in more : x.id = y.id => x = y
  BY <1>2, SnapshotIds DEF Enriched, AddedBy, SnapshotSections
<1>6. \A x, y \in all : x.id = y.id => x = y
  BY <1>3, <1>4, <1>5, LiveFacts
<1>7. Groups[t] = all
  <2>1. Groups[t] = dedupeSections(all) BY <1>1, <1>2 DEF Enriched
  <2> HIDE DEF all
  <2> QED BY <1>6, <2>1, DedupeFacts
<1>8. s \notin more BY <1>4, LiveFacts
<1> QED BY <1>3, <1>7, <1>8

(* A set whose members are all the same has at most one. *)
LEMMA AtMostOne ==
  ASSUME NEW S, \A x, y \in S : x = y
  PROVE  Cardinality(S) <= 1
<1>1. CASE S = {} BY <1>1, FS_EmptySet
<1>2. CASE S # {}
  <2>1. PICK x \in S : TRUE BY <1>2
  <2>2. S = {x} BY <2>1
  <2> QED BY <2>2, FS_Singleton
<1> QED BY <1>1, <1>2

(* The pods of the details' tables are among the related pods. *)
LEMMA PodsAreRelated ==
  ASSUME NEW s \in LiveSections, hidePodsTable, isPodListSection(s), NEW i \in DOMAIN s.rows
  PROVE  <<"Pod", ShownObj[2], s.rows[i].obj[3]>> \in RelatedPods
<1>1. ShownObj[1] # "Pod" BY DEF hidePodsTable, PodWorkloads
<1>2. RelatedPods = collectRelatedPods(ShownObj, LiveSections, SnapshotPods) BY <1>1 DEF RelatedPods
<1>3. s \in {x \in LiveSections : isPodListSection(x)} OBVIOUS
<1> QED BY <1>2, <1>3 DEF collectRelatedPods

(* A row that names another object has a place: the list of pods takes the rows of the
   tables it hides. *)
LEMMA RowsReached ==
  ASSUME SectionInv, NEW s \in LiveSections, NEW i \in DOMAIN s.rows,
         pickRelationshipRefFromRow(s.rows[i], s) \notin {NoRef, ShownObj}
  PROVE  PlacesOf(s, i) # {}
<1> DEFINE r == s.rows[i]
           t == normalizeSectionGroup(s)
           places(u) ==
             CASE GroupBody(u) = "graph" -> IF pickRelationshipRefFromRow(r, s) \in {NoRef, ShownObj} THEN {} ELSE {<<u, "graph">>}
               [] GroupBody(u) = "cards" -> IF s.id \in KnownContainerSections THEN {<<u, "card">>} ELSE {<<u, "table">>}
               [] OTHER -> IF (hidePodsTable /\ isPodListSection(s)) \/ ~DetailSectionShown(s) THEN {} ELSE {<<u, "table">>}
           tabs == {x \in Range(TabOrder) : s \in Groups[x]}
           listed == IF isPodListSection(s) /\ <<"Pod", ShownObj[2], r.obj[3]>> \in RelatedPods THEN {<<"summary", "pods">>} ELSE {}
<1>1. PlacesOf(s, i) = (UNION {places(u) : u \in tabs}) \cup listed BY DEF PlacesOf
<1>2. t \in tabs BY LiveFacts, SectionHasTab, InOneTab
<1>3. DetailSectionShown(s)
  <2>1. s.rows # <<>> OBVIOUS
  <2> QED BY <2>1 DEF DetailSectionShown
<1>4. places(t) # {} \/ listed # {}
  <2>1. CASE hidePodsTable /\ isPodListSection(s) BY <2>1, PodsAreRelated
  <2>2. CASE ~(hidePodsTable /\ isPodListSection(s)) BY <2>2, <1>3
  <2> QED BY <2>1, <2>2
<1>5. places(t) \subseteq PlacesOf(s, i) /\ listed \subseteq PlacesOf(s, i)
  <2> HIDE DEF places, tabs, listed, t
  <2> QED BY <1>1, <1>2
<1> QED BY <1>4, <1>5

(* Every section is in one tab, and its rows are drawn. *)
LEMMA ReachedHolds == ASSUME SectionInv PROVE SectionsReached
<1> SUFFICES ASSUME NEW s \in LiveSections
             PROVE  /\ Cardinality({t \in Range(TabOrder) : s \in Groups[t]}) = 1
                    /\ \A i \in DOMAIN s.rows : pickRelationshipRefFromRow(s.rows[i], s) \notin {NoRef, ShownObj} => PlacesOf(s, i) # {}
  BY DEF SectionsReached
<1>1. {t \in Range(TabOrder) : s \in Groups[t]} = {normalizeSectionGroup(s)} BY LiveFacts, SectionHasTab, InOneTab
<1>2. Cardinality({normalizeSectionGroup(s)}) = 1 BY FS_Singleton
<1> QED BY <1>1, <1>2, RowsReached

(* Where a link leads, for each form of a row. *)
LEMMA LinkIsMeant ==
  ASSUME NEW s, NEW row, ToldTruly(row, s), NEW ns
  PROVE  resolveInspectRef(row, s, ns) \in {NoRef, MeantBy(row.obj, ns)}
<1> DEFINE o == row.obj
<1>1. o = <<o[1], o[2], o[3]>> /\ (o[1] \in NoNamespaceKinds <=> o[2] = "") BY DEF ToldTruly
<1>2. MeantBy(o, ns) = <<o[1], IF o[2] = Beside THEN ns ELSE o[2], o[3]>> BY <1>1 DEF MeantBy
<1>3. \A w : w = (IF o[2] = Beside THEN ns ELSE o[2]) \/ o[1] \in NoNamespaceKinds
             => refResult(o[1], o[3], w) \in {NoRef, MeantBy(o, ns)}
  BY <1>1, <1>2 DEF refResult, Beside
<1>4. CASE row.form \in {"empty", "policy"} BY <1>4 DEF resolveInspectRef
<1>5. CASE row.form = "prefixed"
  <2>1. resolveInspectRef(row, s, ns) = parseObjectRefCell(o, ns) BY <1>5 DEF resolveInspectRef
  <2>2. o[2] \in {Beside, ""} BY <1>5 DEF ToldTruly
  <2> HIDE DEF o
  <2> QED BY <1>1, <1>3, <2>1, <2>2 DEF parseObjectRefCell, o
<1>6. CASE row.form = "kindName"
  <2>1. resolveInspectRef(row, s, ns) = refResult(o[1], o[3], ns) BY <1>6 DEF resolveInspectRef, parseKindNameValue
  <2>2. o[2] \in {Beside, ""} BY <1>6 DEF ToldTruly
  <2> QED BY <1>1, <1>3, <2>1, <2>2
<1>7. CASE row.form = "kindNsName"
  <2>1. resolveInspectRef(row, s, ns) = refResult(o[1], o[3], o[2]) BY <1>7 DEF resolveInspectRef, parseKindNameValue
  <2>2. o[2] # Beside BY <1>7 DEF ToldTruly
  <2> QED BY <1>3, <2>1, <2>2
<1>8. CASE row.form = "columns"
  <2>1. resolveInspectRef(row, s, ns) = refResult(o[1], o[3], IF o[2] = Beside THEN ns ELSE o[2])
    BY <1>8 DEF resolveInspectRef, resolveStructuredTableRow
  <2> QED BY <1>3, <2>1
<1>9. CASE row.form = "nsName"
  <2>1. resolveInspectRef(row, s, ns) \in {NoRef, refResult(o[1], o[3], o[2])} BY <1>9 DEF resolveInspectRef, parseNamespacedName
  <2>2. o[2] # Beside BY <1>9 DEF ToldTruly
  <2> QED BY <1>3, <2>1, <2>2
<1>10. CASE row.form = "plain"
  <2>1. inferKindFromPlainName(s.id, s.group) \in {"none", o[1]} BY <1>10 DEF ToldTruly
  <2>2. resolveInspectRef(row, s, ns) \in {NoRef, refResult(o[1], o[3], ns)} BY <1>10, <2>1 DEF resolveInspectRef
  <2>3. o[2] \in {Beside, ""} BY <1>10 DEF ToldTruly
  <2> QED BY <1>1, <1>3, <2>2, <2>3
<1>11. row.form \in {"empty", "policy", "prefixed", "kindName", "kindNsName", "columns", "nsName", "plain"} BY DEF ToldTruly
<1> QED BY <1>4, <1>5, <1>6, <1>7, <1>8, <1>9, <1>10, <1>11

(* No link leads to an object that its row does not mean. *)
LEMMA LinksHold == ASSUME SectionInv PROVE LinksFaithful
<1> SUFFICES ASSUME NEW s \in LiveSections, NEW i \in DOMAIN s.rows
             PROVE  resolveInspectRef(s.rows[i], s, ShownObj[2]) \in {NoRef, MeantBy(s.rows[i].obj, ShownObj[2])}
  BY DEF LinksFaithful
<1>1. s \in SectionPool BY LiveFacts
<1>2. ToldTruly(s.rows[i], s) BY <1>1, SectionAssumption
<1> QED BY <1>2, LinkIsMeant

(* The snapshot's events and labels are added only where the details have none. *)
LEMMA OnceHolds == ASSUME SectionInv PROVE ShownOnce
<1> DEFINE groups == IF live.of # NoRef /\ LiveSections # {} THEN groupSections(LiveSections) ELSE fallbackGroups(snap)
<1>1. PICK more : Enriched(more, groups, snap) BY EnrichFacts
<1>2. Groups = enrichInspectGroups(groups, snap) BY DEF Groups
<1>3. \A t \in {"events", "metadata"} : Groups[t] \subseteq groups[t] \cup {x \in more : x.group = t}
  BY <1>1, <1>2, TabsAre, DedupeFacts DEF Enriched
<1>4. ASSUME NEW t \in {"events", "metadata"}, NEW x \in groups[t], NEW y \in groups[t], x.id = y.id PROVE x = y
  <2>1. CASE live.of # NoRef /\ LiveSections # {}
    <3>1. groups[t] \subseteq LiveSections BY <2>1, TabsAre DEF groupSections
    <3> QED BY <1>4, <3>1, LiveFacts
  <2>2. CASE ~(live.of # NoRef /\ LiveSections # {})
    <3>1. groups = fallbackGroups(snap) BY <2>2
    <3>2. \A s \in groups[t] : \/ s = Snapshot("status", "summary", "fields") \/ s = Snapshot("resources", "runtime", "_resourceBars")
                               \/ s = Snapshot("labels", "metadata", "_labels") \/ s = Snapshot("events", "events", "_events")
      BY <3>1, TabsAre DEF fallbackGroups
    <3> QED BY <1>4, <3>2 DEF Snapshot
  <2> QED BY <2>1, <2>2
<1>5. ASSUME NEW t \in {"events", "metadata"}, NEW x \in groups[t] 
      PROVE x.id \notin {"snapshot-events", "snapshot-labels"}
  <2>1. CASE live.of # NoRef /\ LiveSections # {}
    <3>1. groups[t] \subseteq LiveSections BY <2>1, TabsAre DEF groupSections
    <3> QED BY <3>1, LiveFacts
  <2>2. CASE ~(live.of # NoRef /\ LiveSections # {})
    <3>1. groups = fallbackGroups(snap) BY <2>2
    <3>2. \A s \in groups[t] : \/ s = Snapshot("status", "summary", "fields") \/ s = Snapshot("resources", "runtime", "_resourceBars")
                               \/ s = Snapshot("labels", "metadata", "_labels") \/ s = Snapshot("events", "events", "_events")
      BY <3>1, TabsAre DEF fallbackGroups
    <3> QED BY <3>2 DEF Snapshot
  <2> QED BY <2>1, <2>2
<1> HIDE DEF groups
<1> DEFINE E == {s \in Groups["events"] : s.id \in {"events", "snapshot-events"}}
           L == {s \in Groups["metadata"] : s.id \in {"labels", "snapshot-labels"}}
<1>6. \A x, y \in E : x = y
  <2>1. \A x \in E : \/ x \in groups["events"] /\ x.id = "events"
                     \/ x = SnapshotEvents /\ \A s \in groups["events"] : s.id # "events"
    BY <1>1, <1>3, <1>5, SnapshotIds DEF Enriched, AddedBy, SnapshotSections
  <2> HIDE DEF E
  <2> QED BY <2>1, <1>4
<1>7. \A x, y \in L : x = y
  <2>1. \A x \in L : \/ x \in groups["metadata"] /\ x.id = "labels"
                     \/ x = SnapshotLabels /\ \A s \in groups["metadata"] : s.id # "labels"
    BY <1>1, <1>3, <1>5, SnapshotIds DEF Enriched, AddedBy, SnapshotSections
  <2> HIDE DEF L
  <2> QED BY <2>1, <1>4
<1>8. Cardinality(E) <= 1 /\ Cardinality(L) <= 1
  <2> HIDE DEF E, L
  <2> QED BY <1>6, <1>7, AtMostOne
<1> QED BY <1>8 DEF ShownOnce

(* Live details that call an object healthy drop its status alone. *)
LEMMA UnreadyHolds == UnreadyTold
<1> SUFFICES ASSUME SnapshotPods \cap snap.unready # {} PROVE \E a \in Anomalies : a.level = "crit" BY DEF UnreadyTold
<1> DEFINE a == [source |-> "pods", level |-> "crit"]
<1>1. a \in collectAnomalies(target, snap) BY DEF collectAnomalies, SnapshotPods
<1>2. a \in Anomalies BY <1>1 DEF Anomalies, mergeAnomalies
<1> QED BY <1>2

(* The tone and the anomalies are of one status. *)
LEMMA ToneHolds == ToneAgrees
<1> SUFFICES ASSUME NEW a \in Anomalies, a.source = "status" PROVE Tone # "healthy" BY DEF ToneAgrees
<1>1. ~(live.of # NoRef /\ live.healthy) BY DEF Anomalies, mergeAnomalies
<1>2. a \in collectAnomalies(target, snap) BY DEF Anomalies, mergeAnomalies
<1>3. snap.status \in {"critical", "degraded"} BY <1>2 DEF collectAnomalies
<1> QED BY <1>1, <1>3 DEF Tone, deriveTone

(* The parts together. *)
LEMMA SectionInvSuffices == SectionInv => DetailsTrue
<1> SUFFICES ASSUME SectionInv PROVE DetailsTrue OBVIOUS
<1>1. PodsKept BY PodsAreRelated DEF PodsKept
<1> QED BY <1>1, ReachedHolds, LinksHold, OnceHolds, UnreadyHolds, ToneHolds DEF DetailsTrue

-----------------------------------------------------------------------------
(* The chain of the focus *)

ChainInv == chainFocus \in Ids \cup {Nobody} /\ known \subseteq Ids /\ chainRows.ids \subseteq Ids

(* A window starts without a focus and knows nothing. *)
LEMMA ChainInvInit == ChainInit => ChainInv
BY DEF ChainInit, ChainInv, NoRows

(* Pins, views and lists bring in known objects only. *)
LEMMA ChainStep == ChainInv /\ [ChainNext]_chainVars => ChainInv'
<1> SUFFICES ASSUME ChainInv, [ChainNext]_chainVars PROVE ChainInv' OBVIOUS
<1>1. CASE PinFocus BY <1>1, FactAssumption DEF PinFocus, ChainInv, Ids
<1>2. CASE ClearPin BY <1>2 DEF ClearPin, ChainInv, NoRows
<1>3. CASE SnapshotChanges BY <1>3 DEF SnapshotChanges, ChainInv
<1>4. CASE ListsArrive
  <2>1. chainRows'.ids \subseteq Ids BY <1>4 DEF ListsArrive
  <2> QED BY <1>4, <2>1 DEF ListsArrive, ChainInv
<1>5. CASE UNCHANGED chainVars BY <1>5 DEF chainVars, ChainInv
<1> QED BY <1>1, <1>2, <1>3, <1>4, <1>5 DEF ChainNext

(* The image of a finite set is finite. *)
LEMMA ImageFinite ==
  ASSUME NEW S, IsFiniteSet(S), NEW f
  PROVE  IsFiniteSet({f[x] : x \in S})
<1> DEFINE T == {f[x] : x \in S}
           g == [x \in S |-> f[x]]
<1>1. g \in [S -> T] /\ \A y \in T : \E x \in S : g[x] = y OBVIOUS
<1> HIDE DEF g, T
<1>2. g \in Surjection(S, T) BY <1>1 DEF Surjection
<1>3. IsFiniteSet(T) BY <1>2, FS_Surjection
<1> QED BY <1>3 DEF T

(* What is merged of snapshot and lists is of known objects, and of an object of the
   snapshot it is all that is known of it. *)
MergedRight(m) ==
  /\ DOMAIN m \subseteq Ids /\ IsFiniteSet(DOMAIN m)
  /\ \A o \in DOMAIN m :
       /\ m[o].kind = Facts[o].kind /\ m[o].name = Facts[o].name /\ m[o].owner = Facts[o].owner
       /\ m[o].ns = Facts[o].ns /\ IsFiniteSet(m[o].mounts)
  /\ \A o \in DOMAIN m \cap known : m[o] = Facts[o]

(* Merging keeps what the snapshot knows of an object, and who owns it. *)
LEMMA MergedFacts == ASSUME ChainInv PROVE MergedRight(Merged)
<1> DEFINE D == {x \in known \cup chainRows.ids : Facts[x].kind \in Range(TraceOrder)}
           less(o) == [Facts[o] EXCEPT !.labels = {}, !.mounts = {}]
<1>1. Merged = [o \in D |-> IF o \in known THEN Facts[o] ELSE less(o)] BY DEF Merged, mergeSnapshotSources
<1>2. D \subseteq Ids BY DEF ChainInv
<1>3. IsFiniteSet(D)
  <2> HIDE DEF D
  <2> QED BY <1>2, FactAssumption, FS_Subset DEF Ids
<1>4. ASSUME NEW o \in Ids
      PROVE  /\ less(o).kind = Facts[o].kind /\ less(o).name = Facts[o].name /\ less(o).owner = Facts[o].owner
             /\ less(o).ns = Facts[o].ns /\ less(o).mounts = {}
  <2>1. DOMAIN Facts[o] = {"kind", "ns", "name", "owner", "labels", "mounts", "select", "backend", "ready"}
    BY FactAssumption DEF Ids
  <2> QED BY <2>1
<1>5. \A o \in Ids : IsFiniteSet(Facts[o].mounts) BY FactAssumption DEF Ids
<1> HIDE DEF D, less
<1> QED BY <1>1, <1>2, <1>3, <1>4, <1>5, FS_EmptySet DEF MergedRight

(* A pod has finitely many owners. *)
LEMMA OwnersFinite ==
  ASSUME NEW p, NEW m, NEW ns
  PROVE  IsFiniteSet(OwnersOf(p, m, ns))
<1>1. \A rs : IsFiniteSet(climbReplicaSet(rs, m, ns))
  <2> TAKE rs
  <2>1. climbReplicaSet(rs, m, ns) = {} \/ \E k : climbReplicaSet(rs, m, ns) = {k} BY DEF climbReplicaSet
  <2>2. \A k : IsFiniteSet({k}) BY FS_Singleton
  <2> QED BY <2>1, <2>2, FS_EmptySet
<1> DEFINE A == {focusEntityKey(m[p].owner[1], ns, m[p].owner[2])}
           B == IF m[p].owner[1] = "ReplicaSet" THEN climbReplicaSet(m[p].owner[2], m, ns) ELSE {}
           C == IF m[p].owner[1] = "Job" /\ Len(m[p].owner[2]) > 1 THEN {focusEntityKey("CronJob", ns, Front(m[p].owner[2]))} ELSE {}
<1>2. IsFiniteSet(A) /\ IsFiniteSet(B) /\ IsFiniteSet(C) BY <1>1, FS_EmptySet, FS_Singleton
<1>3. OwnersOf(p, m, ns) = {} \/ OwnersOf(p, m, ns) = A \cup B \cup C BY DEF OwnersOf
<1> HIDE DEF A, B, C
<1> QED BY <1>2, <1>3, FS_EmptySet, FS_Union

(* Finitely many pods mount finitely many things. *)
LEMMA MountsFinite ==
  ASSUME NEW m, MergedRight(m), NEW pods, pods \subseteq DOMAIN m
  PROVE  IsFiniteSet(MountsOf(pods, m))
<1> DEFINE of == [p \in pods |-> {focusEntityKey(x[1], m[p].ns, x[2]) : x \in m[p].mounts}]
           all == {of[p] : p \in pods}
<1>1. MountsOf(pods, m) = UNION all BY DEF MountsOf
<1>2. IsFiniteSet(pods) BY FS_Subset DEF MergedRight
<1>3. IsFiniteSet(all) BY <1>2, ImageFinite
<1>4. ASSUME NEW p \in pods PROVE IsFiniteSet(of[p])
  <2> DEFINE g == [x \in m[p].mounts |-> focusEntityKey(x[1], m[p].ns, x[2])]
  <2>1. of[p] = {g[x] : x \in m[p].mounts} OBVIOUS
  <2>2. IsFiniteSet(m[p].mounts) BY DEF MergedRight
  <2> HIDE DEF g, of
  <2> QED BY <2>1, <2>2, ImageFinite
<1>5. \A T \in all : IsFiniteSet(T) BY <1>4
<1> HIDE DEF all
<1> QED BY <1>1, <1>3, <1>5, FS_UNION

(* Of some known objects there are finitely many keys. *)
LEMMA KeysFinite ==
  ASSUME NEW m, MergedRight(m), NEW os, os \subseteq DOMAIN m, NEW f
  PROVE  IsFiniteSet({f[o] : o \in os})
<1>1. IsFiniteSet(os) BY FS_Subset DEF MergedRight
<1> QED BY <1>1, ImageFinite

(* The pods around a focus are among those merged. *)
LEMMA RealmIsKnown ==
  ASSUME NEW f, NEW m
  PROVE  collectRealmPods(f, m) \subseteq DOMAIN m
BY DEF collectRealmPods, podsOfMatch, OfKind

(* The scope of a focus has finitely many keys: its own, and those of the owners and
   the mounts of its pods. *)
ScopeRight(scope, f, m) ==
  /\ focusEntityKey(f.kind, f.ns, f.name) \in scope.keys /\ IsFiniteSet(scope.keys)
  /\ scope.pods \subseteq DOMAIN m /\ MountsOf(scope.pods, m) \subseteq scope.keys
  /\ \A p \in collectRealmPods(f, m) : OwnersOf(p, m, f.ns) \subseteq scope.keys

(* The realm of a focus is finite, and holds its own key, the mounts of its pods and
   their owners. *)
LEMMA ScopeFacts ==
  ASSUME NEW f, NEW m, MergedRight(m)
  PROVE  ScopeRight(buildFocusScope(f, m), f, m)
<1> DEFINE own == focusEntityKey(f.kind, f.ns, f.name)
           realm == collectRealmPods(f, m)
           podKeys == {focusEntityKey("Pod", m[p].ns, m[p].name) : p \in realm}
           ownerKeys == UNION {OwnersOf(p, m, f.ns) : p \in realm}
           keys1 == {own} \cup podKeys \cup ownerKeys \cup MountsOf(realm, m)
           owners == {w \in OfKind(m, ChainWorkloads \ {"ReplicaSet"}) : podsOfMatch(m[w], m) \cap realm # {}}
           loadKeys == {focusEntityKey(m[w].kind, m[w].ns, m[w].name) : w \in owners}
           keys2 == keys1 \cup loadKeys
           labels == aggregatePodLabels(realm, m)
           services == {s \in OfKind(m, {"Service"}) : namesRelated(m[s].name, f.name) \/ selectorMatchesLabels(m[s].select, labels)}
           selected == IF f.kind # "Service" \/ ~\E s \in services : m[s].name = f.name THEN {}
                       ELSE {p \in OfKind(m, {"Pod"}) : namesRelated(m[p].name, f.name) \/ labelsTouchName(m[p], f.name)}
           pods == realm \cup selected
           serviceKeys == {focusEntityKey("Service", m[s].ns, m[s].name) : s \in services}
           selectedKeys == {focusEntityKey("Pod", m[p].ns, m[p].name) : p \in selected}
           keys3 == keys2 \cup serviceKeys \cup selectedKeys \cup MountsOf(pods, m)
           routed(i) == m[i].backend # Nobody /\ (namesRelated(m[i].backend, f.name) \/ \E k \in keys3 : k[3] = m[i].backend)
           ings == {i \in OfKind(m, {"Ingress"}) : routed(i) \/ namesRelated(m[i].name, f.name)}
           ingKeys == {focusEntityKey("Ingress", m[i].ns, m[i].name) : i \in ings}
           scope == buildFocusScope(f, m)
<1>1. scope = IF DOMAIN m = {} THEN [active |-> TRUE, keys |-> {own}, pods |-> {}]
              ELSE [active |-> TRUE, keys |-> keys3 \cup ingKeys, pods |-> pods]
  BY DEF buildFocusScope
<1>2. realm \subseteq DOMAIN m BY RealmIsKnown
<1>3. owners \subseteq DOMAIN m /\ services \subseteq DOMAIN m /\ selected \subseteq DOMAIN m /\ ings \subseteq DOMAIN m
  BY DEF OfKind
<1>4. IsFiniteSet(podKeys)
  <2> DEFINE g == [p \in DOMAIN m |-> focusEntityKey("Pod", m[p].ns, m[p].name)]
  <2>1. podKeys = {g[p] : p \in realm} BY <1>2
  <2> HIDE DEF g, podKeys, realm
  <2> QED BY <1>2, <2>1, KeysFinite
<1>5. IsFiniteSet(selectedKeys)
  <2> DEFINE g == [p \in DOMAIN m |-> focusEntityKey("Pod", m[p].ns, m[p].name)]
  <2>1. selectedKeys = {g[p] : p \in selected} BY <1>3
  <2> HIDE DEF g, selectedKeys, selected
  <2> QED BY <1>3, <2>1, KeysFinite
<1>6. IsFiniteSet(serviceKeys)
  <2> DEFINE g == [p \in DOMAIN m |-> focusEntityKey("Service", m[p].ns, m[p].name)]
  <2>1. serviceKeys = {g[p] : p \in services} BY <1>3
  <2> HIDE DEF g, serviceKeys, services
  <2> QED BY <1>3, <2>1, KeysFinite
<1>7. IsFiniteSet(ingKeys)
  <2> DEFINE g == [p \in DOMAIN m |-> focusEntityKey("Ingress", m[p].ns, m[p].name)]
  <2>1. ingKeys = {g[p] : p \in ings} BY <1>3
  <2> HIDE DEF g, ingKeys, ings
  <2> QED BY <1>3, <2>1, KeysFinite
<1>8. IsFiniteSet(loadKeys)
  <2> DEFINE g == [p \in DOMAIN m |-> focusEntityKey(m[p].kind, m[p].ns, m[p].name)]
  <2>1. loadKeys = {g[p] : p \in owners} BY <1>3
  <2> HIDE DEF g, loadKeys, owners
  <2> QED BY <1>3, <2>1, KeysFinite
<1>9. IsFiniteSet(ownerKeys)
  <2> DEFINE g == [p \in DOMAIN m |-> OwnersOf(p, m, f.ns)]
             all == {g[p] : p \in realm}
  <2>1. ownerKeys = UNION all BY <1>2
  <2>2. \A T \in all : IsFiniteSet(T) BY <1>2, OwnersFinite
  <2> HIDE DEF g, ownerKeys, realm
  <2>3. IsFiniteSet(all) BY <1>2, KeysFinite
  <2> HIDE DEF all
  <2> QED BY <2>1, <2>2, <2>3, FS_UNION
<1>10. pods \subseteq DOMAIN m BY <1>2, <1>3
<1>11. IsFiniteSet(MountsOf(realm, m)) /\ IsFiniteSet(MountsOf(pods, m))
  <2> HIDE DEF realm, pods
  <2> QED BY <1>2, <1>10, MountsFinite
<1>12. IsFiniteSet(keys3 \cup ingKeys)
  <2> HIDE DEF podKeys, ownerKeys, loadKeys, serviceKeys, selectedKeys, ingKeys, realm, pods
  <2>1. IsFiniteSet({own}) BY FS_Singleton
  <2>2. IsFiniteSet(keys1) BY <2>1, <1>4, <1>9, <1>11, FS_Union
  <2> HIDE DEF keys1
  <2>3. IsFiniteSet(keys2) BY <2>2, <1>8, FS_Union
  <2> HIDE DEF keys2
  <2>4. IsFiniteSet(keys3) BY <2>3, <1>5, <1>6, <1>11, FS_Union
  <2> HIDE DEF keys3
  <2> QED BY <2>4, <1>7, FS_Union
<1>13. own \in keys3 /\ MountsOf(pods, m) \subseteq keys3 /\ ownerKeys \subseteq keys3
  <2> HIDE DEF podKeys, ownerKeys, loadKeys, serviceKeys, selectedKeys, realm, pods
  <2> QED OBVIOUS
<1>14. \A p \in realm : OwnersOf(p, m, f.ns) \subseteq ownerKeys OBVIOUS
<1>15. CASE DOMAIN m = {}
  <2>1. scope.keys = {own} /\ scope.pods = {} BY <1>1, <1>15
  <2>2. realm = {} BY <1>2, <1>15
  <2>3. MountsOf({}, m) = {} BY DEF MountsOf
  <2> HIDE DEF scope, own, realm
  <2> QED BY <2>1, <2>2, <2>3, FS_Singleton DEF ScopeRight, own, scope, realm
<1>16. CASE DOMAIN m # {}
  <2> HIDE DEF keys3, ingKeys, pods, ownerKeys, scope, own, realm
  <2>1. scope.keys = keys3 \cup ingKeys /\ scope.pods = pods BY <1>1, <1>16
  <2>2. /\ own \in scope.keys /\ IsFiniteSet(scope.keys)
        /\ scope.pods \subseteq DOMAIN m /\ MountsOf(scope.pods, m) \subseteq scope.keys
        /\ \A p \in realm : OwnersOf(p, m, f.ns) \subseteq scope.keys
    BY <2>1, <1>10, <1>12, <1>13, <1>14
  <2> QED BY <2>2 DEF ScopeRight, own, scope, realm
<1> QED BY <1>15, <1>16

LEMMA ScopeOfFocus ==
  ASSUME ChainInv, Pinned
  PROVE  /\ chainFocus \in Ids /\ MergedRight(Merged)
         /\ ScopeRight(Scope, Facts[chainFocus], Merged)
<1>1. chainFocus \in Ids BY DEF ChainInv, Pinned
<1>2. Scope = buildFocusScope(Facts[chainFocus], Merged) BY DEF Scope, Pinned
<1> QED BY <1>1, <1>2, MergedFacts, ScopeFacts

(* A finite set is put in a row. *)
LEMMA SetToSeqFacts ==
  ASSUME NEW S, IsFiniteSet(S)
  PROVE  SetToSeq(S) \in Seq(S) /\ Len(SetToSeq(S)) = Cardinality(S)
<1> DEFINE n == Cardinality(S)
<1>1. n \in Nat /\ ExistsBijection(1..n, S) BY FS_CardinalityType
<1>2. PICK f : f \in Bijection(1..n, S) BY <1>1 DEF ExistsBijection
<1>3. f \in [1..n -> S] /\ IsInjective(f) BY <1>2 DEF Bijection, Injection
<1>4. SetToSeq(S) \in [1..n -> S] BY <1>3 DEF SetToSeq
<1> HIDE DEF n
<1>5. SetToSeq(S) \in Seq(S) /\ Len(SetToSeq(S)) = n BY <1>1, <1>4
<1> QED BY <1>5 DEF n

(* What is appended does not change the head. *)
LEMMA HeadStays ==
  ASSUME NEW S, NEW a \in Seq(S), NEW b \in Seq(S), a # <<>>
  PROVE  a \o b \in Seq(S) /\ a \o b # <<>> /\ (a \o b)[1] = a[1]
OBVIOUS

(* The focus is the first of the keys in their order. *)
LEMMA FocusHeads ==
  ASSUME NEW keys, IsFiniteSet(keys), NEW own \in keys
  PROVE  sortChainKeys(keys, own) \in Seq(keys) /\ sortChainKeys(keys, own) # <<>> /\ sortChainKeys(keys, own)[1] = own
<1> DEFINE ranked(r) == SetToSeq({k \in keys : ChainRank(k, own) = r})
<1>1. \A r : ranked(r) \in Seq(keys)
  <2> TAKE r
  <2> DEFINE K == {k \in keys : ChainRank(k, own) = r}
  <2>1. K \subseteq keys OBVIOUS
  <2> HIDE DEF K
  <2>2. IsFiniteSet(K) BY <2>1, FS_Subset
  <2>3. SetToSeq(K) \in Seq(K) BY <2>2, SetToSeqFacts
  <2>4. SetToSeq(K) \in Seq(keys) BY <2>1, <2>3
  <2> QED BY <2>4 DEF K
<1>2. ranked(0) # <<>> /\ ranked(0)[1] = own
  <2>1. \A k \in keys : ChainRank(k, own) = 0 <=> k = own BY DEF ChainRank
  <2>2. {k \in keys : ChainRank(k, own) = 0} = {own} BY <2>1
  <2>3. IsFiniteSet({own}) /\ Cardinality({own}) = 1 BY FS_Singleton
  <2>4. SetToSeq({own}) \in Seq({own}) /\ Len(SetToSeq({own})) = 1 BY <2>3, SetToSeqFacts
  <2>5. ranked(0) = SetToSeq({own}) BY <2>2
  <2> HIDE DEF ranked
  <2> QED BY <2>4, <2>5
<1>3. sortChainKeys(keys, own) = ranked(0) \o ranked(1) \o ranked(2) \o ranked(3) \o ranked(4) \o ranked(5)
  BY DEF sortChainKeys
<1> HIDE DEF ranked
<1>4. ranked(0) \o ranked(1) \in Seq(keys) /\ ranked(0) \o ranked(1) # <<>> /\ (ranked(0) \o ranked(1))[1] = own
  BY <1>1, <1>2, HeadStays
<1> DEFINE two == ranked(0) \o ranked(1) \o ranked(2)
           three == two \o ranked(3)
           four == three \o ranked(4)
<1>5. two \in Seq(keys) /\ two # <<>> /\ two[1] = own BY <1>1, <1>4, HeadStays
<1> HIDE DEF two
<1>6. three \in Seq(keys) /\ three # <<>> /\ three[1] = own BY <1>1, <1>5, HeadStays
<1> HIDE DEF three
<1>7. four \in Seq(keys) /\ four # <<>> /\ four[1] = own BY <1>1, <1>6, HeadStays
<1> HIDE DEF four
<1>8. four \o ranked(5) \in Seq(keys) /\ four \o ranked(5) # <<>> /\ (four \o ranked(5))[1] = own BY <1>1, <1>7, HeadStays
<1> QED BY <1>3, <1>8 DEF two, three, four

(* A row of the chain is of its key, and not healthy if the snapshot knows better. *)
Bare == ({"Pod"} \cup ChainWorkloads) \ {"ReplicaSet"}
RowOf(k) == IF \E o \in chainRows.ids : KeyOf(o) = k
            THEN [key |-> k, healthy |-> Facts[CHOOSE o \in chainRows.ids : KeyOf(o) = k].ready]
            ELSE synthesizeRow(k, known)

(* A key is of one object. *)
LEMMA OneOfItsKey ==
  ASSUME NEW o \in Ids, NEW p \in Ids, KeyOf(o) = KeyOf(p)
  PROVE  o = p
<1>1. Facts[o].kind = Facts[p].kind /\ Facts[o].name = Facts[p].name BY DEF KeyOf, focusEntityKey
<1> QED BY <1>1, FactAssumption DEF Ids

LEMMA RowIsTrue ==
  ASSUME ChainInv, NEW k
  PROVE  /\ RowOf(k).key = k
         /\ \A o \in known : KeyOf(o) = k /\ ~Facts[o].ready /\ Facts[o].kind \in Bare => ~RowOf(k).healthy
<1>1. RowOf(k).key = k BY DEF RowOf, synthesizeRow
<1>2. ASSUME NEW o \in known, KeyOf(o) = k, ~Facts[o].ready, Facts[o].kind \in Bare PROVE ~RowOf(k).healthy
  <2>1. CASE \E p \in chainRows.ids : KeyOf(p) = k
    <3> DEFINE p == CHOOSE p \in chainRows.ids : KeyOf(p) = k
    <3>1. p \in chainRows.ids /\ KeyOf(p) = k BY <2>1
    <3>2. RowOf(k) = [key |-> k, healthy |-> Facts[p].ready] BY <2>1 DEF RowOf
    <3> HIDE DEF p
    <3>3. p = o BY <1>2, <3>1, OneOfItsKey DEF ChainInv
    <3> QED BY <1>2, <3>2, <3>3
  <2>2. CASE ~\E p \in chainRows.ids : KeyOf(p) = k
    <3> DEFINE hits == {x \in known : Facts[x].kind = k[1] /\ Facts[x].name = k[3] /\ k[1] \in ({"Pod"} \cup ChainWorkloads) \ {"ReplicaSet"}}
    <3>1. RowOf(k) = [key |-> k, healthy |-> \A x \in hits : Facts[x].ready] BY <2>2 DEF RowOf, synthesizeRow
    <3>2. k[1] = Facts[o].kind /\ k[3] = Facts[o].name BY <1>2 DEF KeyOf, focusEntityKey
    <3>3. o \in hits BY <1>2, <3>2 DEF Bare
    <3> HIDE DEF hits
    <3> QED BY <1>2, <3>1, <3>3
  <2> QED BY <2>1, <2>2
<1> QED BY <1>1, <1>2

(* The chain is one row for each key of the realm, the own key first. *)
LEMMA ChainIs ==
  ASSUME ChainInv, Pinned
  PROVE  \E ordered \in Seq(Scope.keys) :
           ordered # <<>> /\ ordered[1] = OwnKey /\ Chain = [i \in 1..Len(ordered) |-> RowOf(ordered[i])]
<1>1. IsFiniteSet(Scope.keys) /\ OwnKey \in Scope.keys BY ScopeOfFocus DEF ScopeRight, OwnKey, KeyOf
<1> DEFINE ordered == sortChainKeys(Scope.keys, OwnKey)
<1>2. ordered \in Seq(Scope.keys) /\ ordered # <<>> /\ ordered[1] = OwnKey BY <1>1, FocusHeads
<1>3. Chain = [i \in DOMAIN ordered |-> RowOf(ordered[i])] BY DEF Chain, buildChainRows, RowOf
<1> HIDE DEF ordered
<1>4. DOMAIN ordered = 1..Len(ordered) BY <1>2
<1> QED BY <1>2, <1>3, <1>4

(* The trace picks the focus among the keys of its kind. *)
LEMMA TraceHasFocus ==
  ASSUME ChainInv, Pinned, Trace # <<>>
  PROVE  OwnKey \in Range(Trace)
<1> DEFINE f == Facts[chainFocus]
           own == focusEntityKey(f.kind, f.ns, f.name)
           of(kind) == {k \in Scope.keys : k[1] = kind}
           there == {kind \in Range(TraceOrder) : of(kind) # {}}
           kinds == Keeping(TraceOrder, there)
           at == resolveRoot(f, Scope, Merged)
<1>1. Trace = IF f.kind \notin Range(TraceOrder) THEN <<>>
              ELSE [i \in DOMAIN kinds |-> pickBestRow(of(kinds[i]), at, own)]
  BY DEF Trace, buildWorkloadTrace
<1>2. f.kind \in Range(TraceOrder) BY <1>1
<1>3. own \in of(f.kind) /\ own = OwnKey BY ScopeOfFocus DEF ScopeRight, OwnKey, KeyOf, focusEntityKey
<1>4. f.kind \in there BY <1>2, <1>3
<1>5. TraceOrder \in Seq(Range(TraceOrder))
  <2>1. TraceOrder = <<"Ingress", "Service", "Deployment", "StatefulSet", "DaemonSet", "CronJob", "Job", "ReplicaSet", "Pod">>
    BY DEF TraceOrder
  <2>2. DOMAIN TraceOrder = 1..9 /\ TraceOrder = [i \in 1..9 |-> TraceOrder[i]] BY <2>1
  <2> QED BY <2>2 DEF Range
<1>6. f.kind \in Range(kinds)
  <2> HIDE DEF there, f
  <2> QED BY <1>2, <1>4, <1>5, KeepingRange
<1>7. PICK i \in DOMAIN kinds : kinds[i] = f.kind BY <1>6 DEF Range
<1>8. pickBestRow(of(kinds[i]), at, own) = own BY <1>3, <1>7 DEF pickBestRow
<1>9. Trace = [j \in DOMAIN kinds |-> pickBestRow(of(kinds[j]), at, own)] BY <1>1, <1>2
<1> HIDE DEF kinds, own, at, of
<1>10. Trace[i] = own /\ i \in DOMAIN Trace BY <1>7, <1>8, <1>9
<1> QED BY <1>3, <1>10 DEF Range

(* The focus heads its chain and is in its trace. *)
LEMMA FirstHolds == ASSUME ChainInv PROVE FocusFirst
<1> SUFFICES ASSUME Pinned
             PROVE  /\ Chain # <<>> /\ Chain[1].key = OwnKey
                    /\ Trace # <<>> => OwnKey \in Range(Trace)
  BY DEF FocusFirst
<1>1. PICK ordered \in Seq(Scope.keys) :
        ordered # <<>> /\ ordered[1] = OwnKey /\ Chain = [i \in 1..Len(ordered) |-> RowOf(ordered[i])]
  BY ChainIs
<1>2. 1 \in 1..Len(ordered) BY <1>1
<1>3. Chain[1] = RowOf(OwnKey) /\ 1 \in DOMAIN Chain BY <1>1, <1>2
<1>4. Chain # <<>> BY <1>3
<1> QED BY <1>3, <1>4, RowIsTrue, TraceHasFocus

(* What the pods of the realm mount, and who owns their replica sets, is in the chain. *)
LEMMA ClosedHolds == ASSUME ChainInv PROVE ChainClosed
<1> SUFFICES ASSUME Pinned
             PROVE  LET f == Facts[chainFocus]
                    IN  /\ \A p \in Scope.pods \cap known : \A x \in Facts[p].mounts : <<x[1], Facts[p].ns, x[2]>> \in Scope.keys
                        /\ \A p \in collectRealmPods(f, Merged), r \in DOMAIN Merged :
                             /\ Facts[r].kind = "ReplicaSet" /\ Facts[p].owner = <<"ReplicaSet", Facts[r].name>>
                             /\ Owned(Facts[r], {"Deployment"})
                             => <<"Deployment", f.ns, Facts[r].owner[2]>> \in Scope.keys
  BY DEF ChainClosed
<1> DEFINE f == Facts[chainFocus]
           m == Merged
<1>1. MergedRight(m) /\ ScopeRight(Scope, f, m) BY ScopeOfFocus
<1> HIDE DEF m, f
<1>2. ASSUME NEW p \in Scope.pods \cap known, NEW x \in Facts[p].mounts
      PROVE  <<x[1], Facts[p].ns, x[2]>> \in Scope.keys
  <2>1. p \in DOMAIN m /\ m[p] = Facts[p] BY <1>1 DEF ScopeRight, MergedRight
  <2>2. <<x[1], Facts[p].ns, x[2]>> \in MountsOf(Scope.pods, m) BY <2>1 DEF MountsOf, focusEntityKey
  <2> QED BY <1>1, <2>2 DEF ScopeRight
<1>3. ASSUME NEW p \in collectRealmPods(f, m), NEW r \in DOMAIN m,
             Facts[r].kind = "ReplicaSet", Facts[p].owner = <<"ReplicaSet", Facts[r].name>>, Owned(Facts[r], {"Deployment"})
      PROVE  <<"Deployment", f.ns, Facts[r].owner[2]>> \in Scope.keys
  <2>1. p \in DOMAIN m /\ m[p].owner = <<"ReplicaSet", Facts[r].name>> BY <1>1, <1>3, RealmIsKnown DEF MergedRight
  <2>2. m[p].owner # Nobody
    <3>1. r \in DOMAIN Facts BY <1>1 DEF MergedRight, Ids
    <3>2. <<"ReplicaSet", Facts[r].name>> \in {"ReplicaSet"} \X {Facts[o].name : o \in DOMAIN Facts} BY <3>1
    <3> QED BY <2>1, <3>2, FactAssumption
  <2> DEFINE rs == Facts[r].name
             rec == {q \in OfKind(m, {"ReplicaSet"}) : m[q].name = rs /\ Owned(m[q], {"Deployment"})}
  <2>3. r \in rec BY <1>1, <1>3 DEF MergedRight, OfKind, Owned
  <2>4. \A q \in rec : q = r
    <3> TAKE q \in rec
    <3>1. q \in DOMAIN m /\ m[q].kind = "ReplicaSet" /\ m[q].name = rs BY DEF OfKind
    <3>2. Facts[q].kind = Facts[r].kind /\ Facts[q].name = Facts[r].name BY <1>1, <1>3, <3>1 DEF MergedRight
    <3> QED BY <1>1, <3>1, <3>2, FactAssumption DEF MergedRight, Ids
  <2>5. climbReplicaSet(rs, m, f.ns) = {focusEntityKey("Deployment", f.ns, m[CHOOSE q \in rec : TRUE].owner[2])}
    BY <2>3 DEF climbReplicaSet
  <2> HIDE DEF rec
  <2>6. (CHOOSE q \in rec : TRUE) = r BY <2>3, <2>4
  <2>7. m[r].owner = Facts[r].owner BY <1>1 DEF MergedRight
  <2>8. climbReplicaSet(rs, m, f.ns) = {<<"Deployment", f.ns, Facts[r].owner[2]>>} BY <2>5, <2>6, <2>7 DEF focusEntityKey
  <2>9. climbReplicaSet(rs, m, f.ns) \subseteq OwnersOf(p, m, f.ns) BY <2>1, <2>2 DEF OwnersOf
  <2> QED BY <1>1, <2>8, <2>9 DEF ScopeRight
<1> QED BY <1>2, <1>3 DEF m, f

(* Rows of the lists tell readiness themselves; the rest asks the snapshot. *)
LEMMA HonestHolds == ASSUME ChainInv PROVE ChainHonest
<1> SUFFICES ASSUME Pinned, NEW i \in DOMAIN Chain, NEW o \in known,
                    KeyOf(o) = Chain[i].key, ~Facts[o].ready, Facts[o].kind \in Bare
             PROVE  ~Chain[i].healthy
  BY DEF ChainHonest, Bare
<1>1. PICK ordered \in Seq(Scope.keys) :
        ordered # <<>> /\ ordered[1] = OwnKey /\ Chain = [j \in 1..Len(ordered) |-> RowOf(ordered[j])]
  BY ChainIs
<1>2. Chain[i] = RowOf(ordered[i]) BY <1>1
<1> QED BY <1>2, RowIsTrue

(* The parts together. *)
LEMMA ChainInvSuffices == ChainInv => ChainTrue
BY FirstHolds, ClosedHolds, HonestHolds DEF ChainTrue

-----------------------------------------------------------------------------
(* What a window tells of one object, for any sections the backend sends and any facts
   about the objects of a cluster: every section is in one tab, shown once, its rows
   link to the object they are of and a row is red only when something is wrong; the
   chain of the focus starts at the focus, holds what its links lead to, links only what
   the cluster links and calls no object but a replica set healthy when it is not. *)
THEOREM ObjectsSafe == SectionsSpec /\ ChainSpec => []ObjectsTrue
<1>1. SectionsInit => SectionInv BY SectionInvInit
<1>2. SectionInv /\ [SectionsNext]_sectionVars => SectionInv' BY SectionStep
<1>3. ChainInit => ChainInv BY ChainInvInit
<1>4. ChainInv /\ [ChainNext]_chainVars => ChainInv' BY ChainStep
<1>5. SectionInv /\ ChainInv => ObjectsTrue
  BY SectionInvSuffices, ChainInvSuffices DEF ObjectsTrue
<1> QED BY <1>1, <1>2, <1>3, <1>4, <1>5, PTL DEF SectionsSpec, ChainSpec
=============================================================================
