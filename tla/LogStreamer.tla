----------------------------- MODULE LogStreamer -----------------------------
(***************************************************************************)
(* The log follows of a tail (kube/log_streamer.go): one stream for each   *)
(* container of the selected pods, at most MaxLogRequests at a time, the   *)
(* others waiting in line, and a watch of the pods that starts and cancels *)
(* them.  The streams end on their own goroutines, after the watch has     *)
(* cancelled them and gone on.                                             *)
(*                                                                         *)
(* A step is what runs under the controller's mutex.  The cancel functions *)
(* called after it is dropped belong to streams found under it, so they    *)
(* are part of the step.  A stream reconnects until it is cancelled; the   *)
(* lines it reads are left out.  A pod is the set of its app containers,   *)
(* {} once it is deleted, finished or being deleted.                       *)
(***************************************************************************)
EXTENDS Naturals, FiniteSets, Sequences, SequencesExt, Kept

CONSTANTS TailPods, TailContainers,   \* pods of the tail (allowedPods), names of containers
          MaxLogRequests,             \* 50 unless configured
          pendingMultiplier,          \* 4 in the code
          NoPod,                      \* the watch handles no pod
          MaxPodSteps                 \* bound: pod changes and failed lists and watches

ASSUME TailAssumption == /\ MaxLogRequests \in Nat \ {0} /\ pendingMultiplier \in Nat \ {0}
                         /\ MaxPodSteps \in Nat /\ NoPod \notin TailPods

VARIABLES
  pods,     \* the cluster's pods: pod -> containers
  feed,     \* the pod watch: changes that were not handled yet, [pod, want], oldest first
  watcher,  \* watchPods, see WatcherAt
  active,   \* c.active: target -> "following", or "ending" once it was cancelled
  slots,    \* len(c.sem)
  pending,  \* c.pending; c.pendingSet is the set of its elements
  tail,     \* "none", "open", "cancelled" by stop, "returned" from it
  known,    \* (ghost) what the watch handled last of each pod
  missed,   \* (ghost) targets asked for while their old stream was ending, or dropped from the line
  podSteps  \* pod changes, failed lists and failed watches so far

tailVars == <<pods, feed, watcher, active, slots, pending, tail, known, missed, podSteps>>

Targets == TailPods \X TailContainers

(* of: what is being worked off ("start", "list" or an "event"); rest: pods
   still to be synced, with their containers; pod, want: the pod being synced;
   todo: its containers that ensure was not called for yet *)
WatcherAt(pc, of, rest) == [pc |-> pc, of |-> of, rest |-> rest, pod |-> NoPod, want |-> {}, todo |-> {}]

Resume(pc) == WatcherAt(pc, "event", <<>>)

-----------------------------------------------------------------------------
TailInit ==
  /\ pods \in [TailPods -> SUBSET TailContainers]
  /\ watcher = Resume("done") /\ tail = "none"
  /\ feed = <<>> /\ active = <<>> /\ slots = 0 /\ pending = <<>>
  /\ known = [p \in TailPods |-> {}] /\ missed = {} /\ podSteps = 0

(* start: the pods of the snapshot, which may be older than the cluster. *)
StartTail ==
  /\ tail = "none" /\ tail' = "open"
  /\ \E snapshot \in [TailPods -> SUBSET TailContainers] : watcher' = WatcherAt("work", "start", snapshot)
  /\ UNCHANGED <<pods, feed, active, slots, pending, known, missed, podSteps>>

(* the line without those that wait longest over its limit *)
Capped(line) ==
  LET max == MaxLogRequests * pendingMultiplier
  IN  IF Len(line) > max THEN SubSeq(line, Len(line) - max + 1, Len(line)) ELSE line

Started(a, t) == [s \in DOMAIN a \cup {t} |-> IF s = t THEN "following" ELSE a[s]]

(* ensure: nothing to do for a target that is active (be it only ending) or
   waits; a free slot, or the end of the line. *)
Ensure ==
  \E c \in watcher.todo :
    LET t == <<watcher.pod, c>> IN
    /\ watcher' = [watcher EXCEPT !.todo = @ \ {c}]
    /\ \/ /\ t \in DOMAIN active \/ t \in Range(pending)
          /\ missed' = IF t \in DOMAIN active /\ active[t] = "ending" THEN missed \cup {t} ELSE missed
          /\ UNCHANGED <<active, slots, pending>>
       \/ /\ t \notin DOMAIN active /\ t \notin Range(pending)
          /\ slots < MaxLogRequests
          /\ active' = Started(active, t) /\ slots' = slots + 1
          /\ missed' = missed \ {t}
          /\ UNCHANGED pending
       \/ /\ t \notin DOMAIN active /\ t \notin Range(pending)
          /\ slots = MaxLogRequests
          /\ pending' = Capped(Append(pending, t))
          /\ missed' = (missed \ {t}) \cup (Range(pending) \ Range(pending'))
          /\ UNCHANGED <<active, slots>>
    /\ UNCHANGED <<pods, feed, tail, known, podSteps>>

(* targets of the pod that its containers do not include *)
Unwanted(p, want) == {t \in Targets : t[1] = p /\ t[2] \notin want}

(* Mutant: a removed pod keeps its place in the line. *)
TrimActiveOnly ==
  /\ watcher.pod # NoPod /\ watcher.todo = {}
  /\ LET gone == Unwanted(watcher.pod, watcher.want) IN
     /\ active' = [t \in DOMAIN active |-> IF t \in gone THEN "ending" ELSE active[t]]
     /\ missed' = missed \ gone
  /\ known' = [known EXCEPT ![watcher.pod] = watcher.want]
  /\ watcher' = [watcher EXCEPT !.pod = NoPod, !.want = {}]
  /\ UNCHANGED <<pods, feed, slots, tail, podSteps, pending>>

(* The second half of syncPod, and stopPod where nothing is wanted: streams and
   waiters of other containers of the pod go. start() has no such half, and
   then there is nothing that would go. *)
Trim ==
  /\ watcher.pod # NoPod /\ watcher.todo = {}
  /\ LET gone == Unwanted(watcher.pod, watcher.want) IN
     /\ active' = [t \in DOMAIN active |-> IF t \in gone THEN "ending" ELSE active[t]]
     /\ pending' = Keeping(pending, Targets \ gone)
     /\ missed' = missed \ gone
  /\ known' = [known EXCEPT ![watcher.pod] = watcher.want]
  /\ watcher' = [watcher EXCEPT !.pod = NoPod, !.want = {}]
  /\ UNCHANGED <<pods, feed, slots, tail, podSteps>>

(* reconcileFromList: the pods of the list, in its order, and those that have
   streams or waiters and are not in it; a pod that is listed may be finished. *)
TakePod ==
  /\ watcher.pc = "work" /\ watcher.pod = NoPod
  /\ \E p \in DOMAIN watcher.rest :
       watcher' = [watcher EXCEPT !.pod = p, !.want = watcher.rest[p], !.todo = watcher.rest[p],
                                  !.rest = [q \in DOMAIN @ \ {p} |-> @[q]]]
  /\ UNCHANGED <<pods, feed, active, slots, pending, tail, known, missed, podSteps>>

(* After the last pod: the watch goroutine of start, or the watch call of
   watchPodsOnce, which can fail. *)
WorkDone ==
  /\ watcher.pc = "work" /\ watcher.pod = NoPod /\ DOMAIN watcher.rest = {}
  /\ \/ watcher.of = "start" /\ watcher' = Resume("list") /\ UNCHANGED podSteps
     \/ watcher.of # "start" /\ tail = "open" /\ watcher' = Resume("watch") /\ UNCHANGED podSteps
     \/ watcher.of = "list" /\ tail # "open" /\ watcher' = Resume("done") /\ UNCHANGED podSteps
     \/ watcher.of = "event" /\ tail # "open" /\ watcher' = Resume("watch") /\ UNCHANGED podSteps
     \/ /\ watcher.of = "list" /\ podSteps < MaxPodSteps
        /\ watcher' = Resume("backoff") /\ podSteps' = podSteps + 1
  /\ UNCHANGED <<pods, feed, active, slots, pending, tail, known, missed>>

(* Mutant: what is not in the list is left alone. *)
ListPodsPresent ==
  /\ watcher.pc = "list" /\ tail = "open"
  /\ \/ /\ watcher' = WatcherAt("work", "list", [p \in {q \in TailPods : pods[q] # {}} |-> pods[p]])
        /\ feed' = <<>> /\ UNCHANGED podSteps
     \/ /\ podSteps < MaxPodSteps
        /\ watcher' = Resume("backoff") /\ podSteps' = podSteps + 1 /\ UNCHANGED feed
  /\ UNCHANGED <<pods, active, slots, pending, tail, known, missed>>

(* The list, from whose version the watch goes on. *)
ListPods ==
  /\ watcher.pc = "list" /\ tail = "open"
  /\ \/ watcher' = WatcherAt("work", "list", pods) /\ feed' = <<>> /\ UNCHANGED podSteps
     \/ /\ podSteps < MaxPodSteps
        /\ watcher' = Resume("backoff") /\ podSteps' = podSteps + 1 /\ UNCHANGED feed
  /\ UNCHANGED <<pods, active, slots, pending, tail, known, missed>>

(* an Added, Modified or Deleted pod *)
HandlePodEvent ==
  /\ watcher.pc = "watch" /\ feed # <<>>
  /\ watcher' = WatcherAt("work", "event", [p \in {Head(feed).pod} |-> Head(feed).want])
  /\ feed' = Tail(feed)
  /\ UNCHANGED <<pods, active, slots, pending, tail, known, missed, podSteps>>

(* the watch closes or reports an error *)
WatchFails ==
  /\ watcher.pc = "watch" /\ podSteps < MaxPodSteps
  /\ watcher' = Resume("backoff") /\ podSteps' = podSteps + 1
  /\ UNCHANGED <<pods, feed, active, slots, pending, tail, known, missed>>

BackoffOver ==
  /\ watcher.pc = "backoff" /\ watcher' = Resume("list")
  /\ UNCHANGED <<pods, feed, active, slots, pending, tail, known, missed, podSteps>>

WatcherStops ==
  /\ watcher.pc \in {"list", "watch", "backoff"} /\ tail # "open"
  /\ watcher' = Resume("done")
  /\ UNCHANGED <<pods, feed, active, slots, pending, tail, known, missed, podSteps>>

(* onStreamDone of a stream whose context was cancelled: its slot goes to the
   first in line that is not active. *)
StreamEnds(t) ==
  /\ t \in DOMAIN active /\ (active[t] = "ending" \/ tail # "open")
  /\ LET left == [s \in DOMAIN active \ {t} |-> active[s]]
         next == {i \in DOMAIN pending : pending[i] \notin DOMAIN left}
         i    == CHOOSE i \in next : \A j \in next : i <= j
     IN  \/ /\ next = {}
            /\ active' = left /\ slots' = slots - 1 /\ pending' = <<>>
         \/ /\ next # {}
            /\ active' = Started(left, pending[i]) /\ slots' = slots
            /\ pending' = SubSeq(pending, i + 1, Len(pending))
  /\ UNCHANGED <<pods, feed, watcher, tail, known, missed, podSteps>>

(* The stop function of StartWithStop: cancel, then wait for the goroutines. *)
StopTail ==
  /\ tail = "open" /\ watcher.of # "start"
  /\ tail' = "cancelled"
  /\ UNCHANGED <<pods, feed, watcher, active, slots, pending, known, missed, podSteps>>

TailReturns ==
  /\ tail = "cancelled" /\ watcher.pc = "done" /\ DOMAIN active = {}
  /\ tail' = "returned"
  /\ UNCHANGED <<pods, feed, watcher, active, slots, pending, known, missed, podSteps>>

(* A pod goes, or one of its name comes, or its status changes. *)
PodChanges ==
  /\ podSteps < MaxPodSteps /\ tail = "open"
  /\ \E p \in TailPods, want \in SUBSET TailContainers :
       /\ want = {} \/ pods[p] = {} \/ want = pods[p]
       /\ want # {} \/ pods[p] # {}
       /\ pods' = [pods EXCEPT ![p] = want]
       /\ feed' = IF watcher.of # "start" /\ watcher.pc \in {"work", "watch"}
                  THEN Append(feed, [pod |-> p, want |-> want]) ELSE feed
  /\ podSteps' = podSteps + 1
  /\ UNCHANGED <<watcher, active, slots, pending, tail, known, missed>>

WatcherNext ==
  \/ TakePod \/ Ensure \/ Trim \/ WorkDone
  \/ ListPods \/ HandlePodEvent \/ WatchFails \/ BackoffOver \/ WatcherStops

TailNext ==
  \/ StartTail \/ WatcherNext \/ StopTail \/ TailReturns \/ PodChanges
  \/ \E t \in Targets : StreamEnds(t)

(* The watch goroutine goes on (its lists and watches fail finitely often), a
   cancelled stream ends, and stop returns when nothing is left to wait for. *)
TailFairness ==
  /\ WF_tailVars(WatcherNext) /\ WF_tailVars(TailReturns)
  /\ \A t \in Targets : WF_tailVars(StreamEnds(t))

TailSpec == TailInit /\ [][TailNext]_tailVars
-----------------------------------------------------------------------------
TailTypeOK ==
  /\ pods \in [TailPods -> SUBSET TailContainers] /\ known \in [TailPods -> SUBSET TailContainers]
  /\ DOMAIN active \subseteq Targets /\ \A t \in DOMAIN active : active[t] \in {"following", "ending"}
  /\ pending \in Seq(Targets) /\ missed \subseteq Targets
  /\ slots \in 0..MaxLogRequests /\ podSteps \in 0..MaxPodSteps

(* A slot is taken exactly for each active stream, whatever order streams end,
   pods go and waiters are called in; nobody waits while a slot is free, and
   nobody waits twice or has a stream already. *)
SlotsTrue ==
  /\ slots = Cardinality(DOMAIN active)
  /\ pending # <<>> => slots = MaxLogRequests
  /\ IsInjective(pending) /\ Range(pending) \cap DOMAIN active = {}
  /\ Len(pending) <= MaxLogRequests * pendingMultiplier

(* What the watch knows to run is followed or waits in line; but for what was
   dropped from a full line, or came back while its old stream was ending. *)
KnownFollowed ==
  tail = "open" =>
    \A p \in TailPods : \A c \in known[p] :
      LET t == <<p, c>>
      IN  t \in missed \/ t \in Range(pending) \/ (t \in DOMAIN active /\ active[t] = "following")

(* Nothing else is: a container that went is neither followed nor waits, once
   the watch has handled its pod. *)
OnlyKnown ==
  \A t \in Targets :
    t \in Range(pending) \/ (t \in DOMAIN active /\ active[t] = "following") =>
      t[2] \in known[t[1]] \/ (watcher.pod = t[1] /\ t[2] \in watcher.want)

(* The follows of a tail are those of the pods the watch knows, as many at a time
   as there are slots, however the ends of streams meet changes of pods, relists
   and a full line (log_streamer.go:162). *)
FollowsHold == TailTypeOK /\ SlotsTrue /\ KnownFollowed /\ OnlyKnown

(* A stopped tail returns, and a container that has gone for good loses its
   stream, also when the watch was down while it went (log_streamer.go:347). *)
TailEnds ==
  /\ tail = "cancelled" ~> tail = "returned"
  /\ <>[](\A t \in DOMAIN active : t[2] \in pods[t[1]])
=============================================================================
