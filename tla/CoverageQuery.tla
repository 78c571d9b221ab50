---------------------------- MODULE CoverageQuery ----------------------------
(***************************************************************************)
(* What a reader of the history is told: the sessions and gaps that        *)
(* Store.Coverage computes from the coverage table (coverage.go), after    *)
(* any sequence of recording, outages, sleeps, stops, crashes and prunes.  *)
(*                                                                         *)
(* Time is counted in units; unit t lasts from moment t to moment t + 1.   *)
(* The recorder's own steps are atomic here: RecorderCoverage has their    *)
(* interleavings.                                                          *)
(***************************************************************************)
EXTENDS Integers, Sequences, SequencesExt, FiniteSetsExt, TLC

CONSTANTS
    EventTTL,     \* how long the API server keeps an event
    GapTolerance, \* the largest hole that is not reported
    Ages,         \* retention periods the user may choose
    MaxClock,     \* bound: the last moment
    MaxRows       \* bound: coverage rows ever begun

ASSUME QueryAssumption ==
    /\ EventTTL \in Nat /\ GapTolerance \in Nat
    /\ Ages \subseteq Nat \ {0}
    /\ MaxClock \in Nat \ {0} /\ MaxRows \in Nat

Reasons == {"", "klew_closed", "cluster_unreachable", "system_sleep"}

VARIABLES
    now,     \* the wall clock
    rows,    \* the coverage table of one cluster, in the order of id
    next,    \* rows ever begun
    open,    \* the recorder's sessionID, an id, or 0
    touched, \* the recorder's lastTouch
    live,    \* "up" while a stream delivers events
    kept,    \* ghost: units whose events are in the store
    watched, \* ghost: units during which a stream was live
    cutoff   \* ghost: everything before this moment has been pruned

vars == <<now, rows, next, open, touched, live, kept, watched, cutoff>>

-------------------------------------------------------------------------------
(* The coverage table.                                                     *)

Row(id, start, backfilled) ==
    [id |-> id, start |-> start, end |-> start, backfilled |-> backfilled, reason |-> ""]

Exists(id) == \E i \in DOMAIN rows : rows[i].id = id

\* UPDATE coverage ... WHERE id = ?
Updated(id, Change(_)) ==
    [i \in DOMAIN rows |-> IF rows[i].id = id THEN Change(rows[i]) ELSE rows[i]]
TouchSession(id, t) ==
    Updated(id, LAMBDA r : [r EXCEPT !.end = Max({@, t}), !.reason = ""])
SetEndReason(id, reason) == Updated(id, LAMBDA r : [r EXCEPT !.reason = reason])
EndSession(id, t, reason) ==
    Updated(id, LAMBDA r : [r EXCEPT !.end = Max({@, t}), !.reason = reason])

BeginSession(table, t, backfilled) ==
    /\ next < MaxRows
    /\ next' = next + 1
    /\ rows' = Append(table, Row(next + 1, t, backfilled))
    /\ open' = next + 1 /\ touched' = t

-------------------------------------------------------------------------------
(* The recorder.                                                           *)

Init ==
    /\ now = 1 /\ rows = <<>> /\ next = 0 /\ open = 0 /\ touched = 0 /\ live = "down"
    /\ kept = {} /\ watched = {} /\ cutoff = 1

\* A list, or a watch resumed from a known resourceVersion, brings in all that
\* the API server still holds.
CatchUp == kept' = kept \cup {u \in cutoff..(now - 1) : u >= now - EventTTL}

\* coverageEstablished
Up ==
    /\ live = "down"
    /\ live' = "up"
    /\ CatchUp
    /\ \/ /\ Exists(open) /\ now - touched <= GapTolerance
          /\ rows' = [i \in DOMAIN rows |->
               IF rows[i].id = open
               THEN [rows[i] EXCEPT !.end = now, !.reason = "",
                                    !.backfilled = @ \/ now - rows[i].start <= GapTolerance]
               ELSE rows[i]]
          /\ touched' = now
          /\ UNCHANGED <<next, open>>
       \/ /\ ~Exists(open) \/ now - touched > GapTolerance
          /\ BeginSession(rows, now, TRUE)
    /\ UNCHANGED <<now, watched, cutoff>>

Down ==
    /\ live = "up"
    /\ live' = "down"
    /\ UNCHANGED <<now, rows, next, open, touched, kept, watched, cutoff>>

\* A unit passes; the heartbeat touches the session while a stream is live.
Tick ==
    /\ now < MaxClock
    /\ now' = now + 1
    /\ \/ /\ live = "up"
          /\ rows' = TouchSession(open, now + 1)
          /\ touched' = now + 1
          /\ kept' = kept \cup {now} /\ watched' = watched \cup {now}
       \/ /\ live = "down"
          /\ UNCHANGED <<rows, touched, kept, watched>>
    /\ UNCHANGED <<next, open, live, cutoff>>

\* coverageTick: down for longer than the tolerance.
Stalled ==
    /\ live = "down" /\ open # 0 /\ now - touched > GapTolerance
    /\ rows' = SetEndReason(open, "cluster_unreachable")
    /\ open' = 0
    /\ UNCHANGED <<now, next, touched, live, kept, watched, cutoff>>

\* coverageTick: the clock jumped while live.  A session without backfill begins,
\* and the resync takes the streams down.
Sleep(reason) ==
    /\ live = "up" /\ now + GapTolerance + 1 <= MaxClock
    /\ now' = now + GapTolerance + 1
    /\ live' = "down"
    /\ BeginSession(SetEndReason(open, reason), now', FALSE)
    /\ UNCHANGED <<kept, watched, cutoff>>

\* finishCoverage
Stop(reason) ==
    /\ open # 0
    /\ live' = "down" /\ open' = 0
    /\ rows' = IF now - touched > GapTolerance THEN rows ELSE EndSession(open, now, reason)
    /\ UNCHANGED <<now, next, touched, kept, watched, cutoff>>

Crash ==
    /\ open # 0
    /\ live' = "down" /\ open' = 0
    /\ UNCHANGED <<now, rows, next, touched, kept, watched, cutoff>>

\* Store.Prune by age: old events go, old sessions go, the rest is trimmed.
Prune(age) ==
    LET cut == now - age IN
    /\ cut > cutoff
    /\ cutoff' = cut
    /\ rows' = LET left == SelectSeq(rows, LAMBDA r : r.end >= cut)
               IN  [i \in DOMAIN left |-> [left[i] EXCEPT !.start = Max({@, cut})]]
    /\ kept' = {u \in kept : u >= cut}
    /\ UNCHANGED <<now, next, open, touched, live, watched>>

Next ==
    \/ Up \/ Down \/ Tick \/ Stalled \/ Crash
    \/ \E reason \in {"", "system_sleep"} : Sleep(reason)
    \/ \E reason \in {"", "klew_closed"} : Stop(reason)
    \/ \E age \in Ages : Prune(age)

Spec == Init /\ [][Next]_vars

-------------------------------------------------------------------------------
(* Store.Coverage(since, until = now).                                     *)

ByStart(s) == SortSeq(s, LAMBDA a, b : a.start < b.start)

\* The rows the query selects.
Selected(since) ==
    SelectSeq(rows, LAMBDA r : r.start <= now + EventTTL /\ r.end >= since - EventTTL - GapTolerance)

\* Mutant: every session gets the backfill credit.
BackdatedAlways(r, prevEnd) == [r EXCEPT !.start = Min({@, Max({@ - EventTTL, prevEnd})})]

Backdated(r, prevEnd) ==
    [r EXCEPT !.start = IF r.backfilled THEN Min({@, Max({@ - EventTTL, prevEnd})}) ELSE @]

\* prevEnd is the latest end of the rows before.
EffectiveSessions(s) ==
    LET in == ByStart(s)
    IN  [i \in DOMAIN in |-> Backdated(in[i], Max({-EventTTL} \cup {in[j].end : j \in 1..(i - 1)}))]

Joined(last, r) ==
    [last EXCEPT !.end = Max({@, r.end}),
                 !.reason = IF r.end > last.end THEN r.reason ELSE @,
                 !.backfilled = @ \/ r.backfilled]

\* Mutant: a hole of exactly the tolerance is not bridged.
MergeSessionsStrict(s) ==
    LET in == ByStart(s)
        Out[n \in 0..Len(in)] ==
            IF n = 0 THEN <<>>
            ELSE LET out == Out[n - 1]
                 IN  IF out # <<>> /\ in[n].start < Last(out).end + GapTolerance
                     THEN Append(Front(out), Joined(Last(out), in[n]))
                     ELSE Append(out, in[n])
    IN  Out[Len(in)]

MergeSessions(s) ==
    LET in == ByStart(s)
        Out[n \in 0..Len(in)] ==
            IF n = 0 THEN <<>>
            ELSE LET out == Out[n - 1]
                 IN  IF out # <<>> /\ in[n].start <= Last(out).end + GapTolerance
                     THEN Append(Front(out), Joined(Last(out), in[n]))
                     ELSE Append(out, in[n])
    IN  Out[Len(in)]

ClipSessions(s, since) ==
    LET in == SelectSeq(s, LAMBDA r : r.end >= since /\ r.start <= now)
    IN  [i \in DOMAIN in |-> [in[i] EXCEPT !.start = Max({@, since}), !.end = Min({@, now})]]

Gap(from, to, reason) == [from |-> from, to |-> to, reason |-> reason]

GapsBetween(s) ==
    LET inner == [i \in 1..(Len(s) - 1) |-> Gap(s[i].end, s[i + 1].start, s[i].reason)]
    IN  IF s # <<>> /\ now - Last(s).end > GapTolerance
        THEN Append(inner, Gap(Last(s).end, now, Last(s).reason))
        ELSE inner

Coverage(table, since) == ClipSessions(MergeSessions(EffectiveSessions(table)), since)

-------------------------------------------------------------------------------
(* Properties.                                                             *)

TypeOK ==
    /\ now \in 1..MaxClock /\ next \in 0..MaxRows /\ open \in 0..next /\ touched \in 0..now
    /\ live \in {"up", "down"} /\ cutoff \in 1..now /\ kept \cup (watched \cap cutoff..now) \subseteq cutoff..(now - 1)
    /\ \A i \in DOMAIN rows :
         /\ rows[i].id \in 1..next /\ rows[i].start \in cutoff..rows[i].end /\ rows[i].end <= now
         /\ rows[i].backfilled \in BOOLEAN /\ rows[i].reason \in Reasons

Starts == cutoff..now

\* Sessions and gaps alternate and leave nothing out: from the first session to
\* now every unit is in exactly one session or gap, or in a tail no longer than the
\* tolerance, and no gap is within the tolerance (mergeSessions, gapsBetween).
Tiled ==
    \A since \in Starts :
        LET s    == Coverage(Selected(since), since)
            gaps == GapsBetween(s)
            In(u) == Cardinality({i \in DOMAIN s : s[i].start <= u /\ u < s[i].end})
                     + Cardinality({i \in DOMAIN gaps : gaps[i].from <= u /\ u < gaps[i].to})
        IN  /\ \A i \in DOMAIN gaps : gaps[i].to - gaps[i].from > GapTolerance
            /\ s # <<>> => \A u \in s[1].start..(now - 1) :
                  In(u) = 1 \/ (In(u) = 0 /\ u >= Max({Last(s).end, now - GapTolerance}))

\* The rows the query leaves out never matter: what a reader is told is computed
\* from the selected rows as from the whole table (Coverage's WHERE).
PrefilterExact ==
    \A since \in Starts :
        LET a == Coverage(Selected(since), since)
            b == Coverage(rows, since)
        IN  /\ GapsBetween(a) = GapsBetween(b)
            /\ [i \in DOMAIN a |-> <<a[i].start, a[i].end>>] = [i \in DOMAIN b |-> <<b[i].start, b[i].end>>]

\* A session a reader is shown has the events: no stretch of it longer than twice
\* the tolerance is without stored events, whatever was backfilled, merged and
\* pruned.  Twice, because finishCoverage extends a session whose streams have just
\* gone down, or a backfill arrives a little late, and mergeSessions then bridges
\* another hole.
CoverageHonest ==
    \A since \in Starts : \A r \in ToSet(Coverage(Selected(since), since)) :
        \A t \in r.start..(r.end - 2 * GapTolerance - 1) : t..(t + 2 * GapTolerance) \cap kept # {}

\* A gap a reader is shown is one: no stream was live in it, and the reason given
\* is that of a session that ended where it begins.
GapsReal ==
    \A since \in Starts : \A g \in ToSet(GapsBetween(Coverage(Selected(since), since))) :
        /\ g.from..(g.to - 1) \cap watched = {}
        /\ \E i \in DOMAIN rows : rows[i].end = g.from /\ rows[i].reason = g.reason

\* What a reader is told follows from the table: sessions and gaps tile the range
\* asked for, the rows left out by the query change nothing, and a gap is one.
AnswerExact == TypeOK /\ Tiled /\ PrefilterExact /\ GapsReal

===============================================================================
