----------------------------- MODULE LiveSession -----------------------------
(***************************************************************************)
(* A running investigation in the process (engine/live.go): watchers put   *)
(* evidence on a bounded bus, one consumer takes it into a bounded ring    *)
(* (bus.go, reducer.go, ringbuffer.go), and the snapshot of the cluster is *)
(* collected anew by a loop, by hand, and by a goroutine that a structural *)
(* change starts, which can all overlap.                                   *)
(*                                                                         *)
(* A snapshot is the version of the cluster it was read at; what its lists *)
(* differ in among themselves is left out, and so are counts, timeline and *)
(* verdict.  Pause and KeepLogsForPods have no caller.  The log tail is    *)
(* LogStreamer.                                                            *)
(***************************************************************************)
EXTENDS Naturals, FiniteSets, FiniteSetsExt, Sequences, SequencesExt, Kept

CONSTANTS EvidencePool,     \* what is published: [src, sev, about], src "log", "event" or "other"
          BusSize,          \* 1024
          RingSize,         \* 2000
          Structurals,      \* goroutines of structural refreshes, one at most every two seconds
          ClusterHealth,    \* version of the cluster -> "active" incident, "nominal", or "between"
          MaxEvidence,      \* bound: evidence published
          MaxNoted,         \* bound: additions to the ring after which it takes no notes of the reducer's
          MaxRefreshFails,  \* bound: snapshots that cannot be collected
          NoEvidence

ASSUME LiveAssumption ==
  /\ BusSize \in Nat \ {0} /\ RingSize \in Nat \ {0}
  /\ MaxEvidence \in Nat /\ MaxNoted \in Nat /\ MaxRefreshFails \in Nat
  /\ \A e \in EvidencePool : e.src \in {"log", "event", "other"} /\ e.sev \in {"info", "warning", "high", "critical"}
  /\ 0 \in DOMAIN ClusterHealth /\ NoEvidence \notin EvidencePool /\ Structurals \cap {"loop", "manual"} = {}

VARIABLES
  bus,          \* b.ch: [of, n], oldest first; n numbers what is published
  publisher,    \* the holder of b.mu in the middle of Publish: pc "none", "full" or "again", and what it publishes
  published,    \* number of the last evidence that was published
  inHand,       \* what the consumer has taken and not applied yet
  delivered,    \* (ghost) number of the last evidence the consumer took
  ring,         \* entries, newest first, each with the number of its addition; added; lost, see Evicted
  cluster,      \* version of the cluster
  snapshot,     \* state.Snapshot
  scopePods,    \* the watcher's: the version they are of
  refresher,    \* goroutine -> pc, and the version it has collected or read
  autoRefresh,
  session,      \* "none", "live", "cancelled", "closed" (the bus, too), "stopped"
  refreshFails

flowVars == <<bus, publisher, published, inHand, delivered>>
restVars == <<cluster, snapshot, scopePods, autoRefresh, session, refreshFails>>
liveVars == <<flowVars, ring, refresher, restVars>>

Refreshers == {"loop", "manual"} \cup Structurals
Resting == [pc |-> "idle", v |-> 0]

LiveInit ==
  /\ bus = <<>> /\ publisher = [pc |-> "none", of |-> NoEvidence] /\ published = 0
  /\ inHand = NoEvidence /\ delivered = 0
  /\ ring = [entries |-> <<>>, added |-> 0, lost |-> <<0, 0>>]
  /\ cluster = 0 /\ snapshot = 0 /\ scopePods = 0 /\ refresher = [x \in Refreshers |-> Resting]
  /\ autoRefresh = FALSE /\ session = "none" /\ refreshFails = 0

(* StartLive; when its snapshot cannot be collected there is no session. *)
StartLive ==
  /\ session = "none" /\ session' = "live"
  /\ snapshot' = cluster /\ scopePods' = cluster /\ autoRefresh' \in BOOLEAN
  /\ UNCHANGED <<flowVars, ring, cluster, refresher, refreshFails>>
-----------------------------------------------------------------------------
(* The ring.  What goes first when it is full: info logs, other logs, what is
   not an event of Kubernetes, events that are not critical, critical events. *)
Worth(x) ==
  CASE x.src = "log" /\ x.sev = "info" -> 0
    [] x.src = "log" /\ x.sev # "info" -> 1
    [] x.src = "other" -> 2
    [] x.src = "event" /\ x.sev # "critical" -> 3
    [] x.src = "event" /\ x.sev = "critical" -> 4

Place(x) == <<Worth(x), x.at>>
Below(a, b) == a[1] < b[1] \/ (a[1] = b[1] /\ a[2] < b[2])

(* evict, the oldest of what is worth least; lost (ghost) is the highest place
   that was given up since logs were cleared. *)
Evicted(r) ==
  LET least == Min({Worth(x) : x \in Range(r.entries)})
      i     == SelectLastInSeq(r.entries, LAMBDA x : Worth(x) = least)
  IN  IF Len(r.entries) <= RingSize THEN r
      ELSE [r EXCEPT !.entries = RemoveAt(@, i),
                     !.lost = IF Below(@, Place(r.entries[i])) THEN Place(r.entries[i]) ELSE @]

severityRank(s) == CASE s = "info" -> 1 [] s = "warning" -> 2 [] s = "high" -> 3 [] s = "critical" -> 4

(* Mutant: a collapsed entry takes the severity of its latest event. *)
AddedAsLatest(r, e) ==
  LET prev == SelectInSeq(r.entries, LAMBDA x : e.src # "log" /\ x.src = e.src /\ x.about = e.about)
      rest == IF prev = 0 THEN r.entries ELSE RemoveAt(r.entries, prev)
      x    == [src |-> e.src, sev |-> e.sev, about |-> e.about, at |-> r.added + 1]
  IN  Evicted([r EXCEPT !.entries = <<x>> \o rest, !.added = @ + 1])

(* Add: evidence of the same fingerprint is collapsed into the newest place
   under its worst severity; a log line is always evidence of its own. *)
Added(r, e) ==
  LET prev == SelectInSeq(r.entries, LAMBDA x : e.src # "log" /\ x.src = e.src /\ x.about = e.about)
      rest == IF prev = 0 THEN r.entries ELSE RemoveAt(r.entries, prev)
      sev  == IF prev # 0 /\ severityRank(r.entries[prev].sev) > severityRank(e.sev)
              THEN r.entries[prev].sev ELSE e.sev
      x    == [src |-> e.src, sev |-> sev, about |-> e.about, at |-> r.added + 1]
  IN  Evicted([r EXCEPT !.entries = <<x>> \o rest, !.added = @ + 1])

Noted(r, about, sev) ==
  IF r.added < MaxNoted THEN Added(r, [src |-> "other", sev |-> sev, about |-> about]) ELSE r

(* ClearLogsForPods *)
WithoutLogs(r, drop) ==
  [r EXCEPT !.entries = Keeping(@, {x \in Range(@) : x.src = "log" => x.about \notin drop}), !.lost = <<0, 0>>]

(* The end of recompute: it may note that the leading hypothesis has changed. *)
Recomputed(r) == {r, Noted(r, "HypothesisChanged", "warning")}
-----------------------------------------------------------------------------
(* noteStructuralChange, which log lines do not pass: it may be of no structural
   kind, or one was started in the last two seconds, or nothing is refreshed by
   itself. *)
NoteStructuralChange(e) ==
  \/ UNCHANGED refresher
  \/ /\ e.src # "log" /\ autoRefresh
     /\ \E x \in Structurals : /\ refresher[x].pc = "idle"
                               /\ refresher' = [refresher EXCEPT ![x].pc = "collect"]

(* Publish on a bus with room, or a closed one; a full one loses its oldest
   first.  The consumer does not hold the lock and may take in between. *)
Publish(e) ==
  /\ publisher.pc = "none" /\ published < MaxEvidence /\ session \notin {"none", "stopped"}
  /\ published' = published + 1
  /\ \/ /\ session = "closed"
        /\ NoteStructuralChange(e) /\ UNCHANGED <<bus, publisher>>
     \/ /\ session # "closed" /\ Len(bus) < BusSize
        /\ bus' = Append(bus, [of |-> e, n |-> published']) /\ NoteStructuralChange(e) /\ UNCHANGED publisher
     \/ /\ session # "closed" /\ Len(bus) = BusSize
        /\ publisher' = [pc |-> "full", of |-> e] /\ UNCHANGED <<bus, refresher>>
  /\ UNCHANGED <<inHand, delivered, ring, restVars>>

PublishDrops ==
  /\ publisher.pc = "full"
  /\ bus' = IF bus = <<>> THEN bus ELSE Tail(bus)
  /\ publisher' = [publisher EXCEPT !.pc = "again"]
  /\ UNCHANGED <<published, inHand, delivered, ring, refresher, restVars>>

PublishAgain ==
  /\ publisher.pc = "again"
  /\ bus' = IF Len(bus) < BusSize THEN Append(bus, [of |-> publisher.of, n |-> published]) ELSE bus
  /\ NoteStructuralChange(publisher.of)
  /\ publisher' = [pc |-> "none", of |-> NoEvidence]
  /\ UNCHANGED <<published, inHand, delivered, ring, restVars>>

(* RunConsumer; once the session is cancelled it may return at any time. *)
ConsumerTakes ==
  /\ inHand = NoEvidence /\ bus # <<>>
  /\ inHand' = Head(bus).of /\ delivered' = Head(bus).n /\ bus' = Tail(bus)
  /\ UNCHANGED <<publisher, published, ring, refresher, restVars>>

ApplyEvent ==
  /\ inHand # NoEvidence
  /\ ring' \in Recomputed(Added(ring, inHand))
  /\ inHand' = NoEvidence
  /\ UNCHANGED <<bus, publisher, published, delivered, refresher, restVars>>

(* ClearLogs: of the pods that are tailed, or all. *)
ClearLogs ==
  /\ session = "live"
  /\ \E drop \in {{e.about} : e \in EvidencePool} \cup {{e.about : e \in EvidencePool}} :
       ring' \in Recomputed(WithoutLogs(ring, drop))
  /\ UNCHANGED <<flowVars, refresher, restVars>>
-----------------------------------------------------------------------------
(* A refresh begins: the loop's tick after the interval, or the user's. *)
RefreshBegins(x) ==
  /\ x \in {"loop", "manual"} /\ refresher[x].pc = "idle" /\ session = "live"
  /\ x = "loop" => autoRefresh
  /\ refresher' = [refresher EXCEPT ![x].pc = "collect"]
  /\ UNCHANGED <<flowVars, ring, restVars>>

(* CollectSnapshot, and Analyze *)
Collect(x) ==
  /\ refresher[x].pc = "collect" /\ (x = "loop" => session = "live")
  /\ refresher' = [refresher EXCEPT ![x] = [pc |-> "apply", v |-> cluster]]
  /\ UNCHANGED <<flowVars, ring, restVars>>

(* only the loop is told by the session's context *)
CollectFails(x) ==
  /\ refresher[x].pc = "collect"
  /\ \/ refreshFails < MaxRefreshFails /\ refreshFails' = refreshFails + 1
     \/ x = "loop" /\ session # "live" /\ UNCHANGED refreshFails
  /\ refresher' = [refresher EXCEPT ![x] = Resting]
  /\ UNCHANGED <<flowVars, ring, cluster, snapshot, scopePods, autoRefresh, session>>

(* ApplySnapshot *)
ApplySnapshot(x) ==
  /\ refresher[x].pc = "apply"
  /\ LET v == refresher[x].v
         recovered == ClusterHealth[snapshot] = "active" /\ ClusterHealth[v] = "nominal"
     IN  /\ snapshot' = v
         /\ \E r \in Recomputed(ring) : ring' = IF recovered THEN Noted(r, "Recovered", "info") ELSE r
  /\ refresher' = [refresher EXCEPT ![x].pc = "scope"]
  /\ UNCHANGED <<flowVars, cluster, scopePods, autoRefresh, session, refreshFails>>

(* SetScopePodNames of what the reducer shows by then: read, then set *)
ReadScope(x) ==
  /\ refresher[x].pc = "scope"
  /\ refresher' = [refresher EXCEPT ![x] = [pc |-> "set", v |-> snapshot]]
  /\ UNCHANGED <<flowVars, ring, restVars>>

(* Mutant: the loop leaves the scope to the refreshes by hand. *)
SetScopeByHand(x) ==
  /\ refresher[x].pc = "set"
  /\ scopePods' = IF x = "loop" THEN scopePods ELSE refresher[x].v
  /\ refresher' = [refresher EXCEPT ![x] = Resting]
  /\ UNCHANGED <<flowVars, ring, cluster, snapshot, autoRefresh, session, refreshFails>>

SetScope(x) ==
  /\ refresher[x].pc = "set"
  /\ scopePods' = refresher[x].v
  /\ refresher' = [refresher EXCEPT ![x] = Resting]
  /\ UNCHANGED <<flowVars, ring, cluster, snapshot, autoRefresh, session, refreshFails>>

SetAutoRefresh ==
  /\ session = "live" /\ autoRefresh' = ~autoRefresh
  /\ UNCHANGED <<flowVars, ring, cluster, snapshot, scopePods, refresher, session, refreshFails>>

ClusterChanges ==
  /\ cluster + 1 \in DOMAIN ClusterHealth /\ cluster' = cluster + 1
  /\ UNCHANGED <<flowVars, ring, snapshot, scopePods, refresher, autoRefresh, session, refreshFails>>

(* Stop: cancel; close the bus, under its lock; wait for the loop and the
   watchers.  A structural refresh is not waited for. *)
StopSession ==
  /\ \/ session = "live" /\ session' = "cancelled"
     \/ session = "cancelled" /\ publisher.pc = "none" /\ session' = "closed"
     \/ session = "closed" /\ refresher["loop"].pc = "idle" /\ session' = "stopped"
  /\ UNCHANGED <<flowVars, ring, cluster, snapshot, scopePods, refresher, autoRefresh, refreshFails>>

FlowNext ==
  \/ \E e \in EvidencePool : Publish(e)
  \/ PublishDrops \/ PublishAgain \/ ConsumerTakes \/ ApplyEvent \/ ClearLogs

RefreshNext ==
  \/ \E x \in Refreshers :
       RefreshBegins(x) \/ Collect(x) \/ CollectFails(x) \/ ApplySnapshot(x) \/ ReadScope(x) \/ SetScope(x)
  \/ StartLive \/ SetAutoRefresh \/ ClusterChanges \/ StopSession

LiveNext == FlowNext \/ RefreshNext

(* A goroutine goes on, the loop ticks, a Stop that has begun ends; snapshots
   fail finitely often. *)
LiveFairness ==
  /\ WF_liveVars(RefreshBegins("loop"))
  /\ \A x \in Refreshers :
       WF_liveVars(Collect(x) \/ CollectFails(x) \/ ApplySnapshot(x) \/ ReadScope(x) \/ SetScope(x))
  /\ WF_liveVars(PublishDrops \/ PublishAgain)
  /\ WF_liveVars(session # "live" /\ StopSession)

LiveSpec == LiveInit /\ [][LiveNext]_liveVars
-----------------------------------------------------------------------------
LiveTypeOK ==
  /\ \A i \in DOMAIN bus : bus[i].of \in EvidencePool /\ bus[i].n \in 1..published
  /\ publisher.of \in EvidencePool \cup {NoEvidence} /\ inHand \in EvidencePool \cup {NoEvidence}
  /\ published \in 0..MaxEvidence /\ delivered \in 0..published
  /\ {cluster, snapshot, scopePods} \subseteq DOMAIN ClusterHealth
  /\ DOMAIN refresher = Refreshers /\ refreshFails \in 0..MaxRefreshFails

(* Evidence reaches the consumer in the order of its publication, whatever the
   consumer takes while a full bus drops; the newest is never what is lost, and
   nobody is in the middle of sending on a closed bus. *)
BusTrue ==
  /\ Len(bus) <= BusSize
  /\ \A i \in DOMAIN bus : bus[i].n > delivered /\ \A j \in 1..i - 1 : bus[j].n < bus[i].n
  /\ (publisher.pc = "none" /\ session \in {"live", "cancelled"} /\ published > 0) =>
       IF bus = <<>> THEN delivered = published ELSE Last(bus).n = published
  /\ publisher.pc # "none" => session \in {"live", "cancelled"}

(* The ring keeps the best: nothing it has given up since logs were cleared is
   worth more, or as much and newer, than anything it has; an entry stands for
   all of the same fingerprint, and the newest is in front. *)
RingTrue ==
  LET es == ring.entries IN
  /\ Len(es) <= RingSize
  /\ \A i \in DOMAIN es : Below(ring.lost, Place(es[i]))
  /\ \A i, j \in DOMAIN es :
       i < j => /\ es[i].at > es[j].at
                /\ es[i].src # "log" => <<es[i].src, es[i].about>> # <<es[j].src, es[j].about>>

(* What an investigation has collected: the order and the newest of a bus that
   overflows, and the best of a ring that does (bus.go:25, ringbuffer.go:108). *)
EvidenceHolds == LiveTypeOK /\ BusTrue /\ RingTrue

(* A stopped session ends. *)
SessionEnds == session = "cancelled" ~> session = "stopped"

(* With automatic refresh on, the snapshot shown and the pods whose events are
   let in come to be those of the cluster, although refreshes that overlap may
   first put an older snapshot, or the pods of one, over a newer; and a stopped
   session ends (live.go:206). *)
CatchesUp ==
  /\ <>[](autoRefresh /\ session = "live") => <>[](snapshot = cluster /\ scopePods = cluster)
  /\ SessionEnds
=============================================================================
