---------------------------- MODULE LogPatterns ----------------------------
(***************************************************************************)
(* Log templates and the timeline signals made from them: the Drain        *)
(* clusterer of lib/drain.js, the summary of lib/logPatterns.js and the    *)
(* correlation of lib/logCorrelation.js.                                   *)
(*                                                                         *)
(* A message is the sequence of tokens that masking and splitting leave; W *)
(* is the wildcard.  Severities are their rank.  Time is counted in        *)
(* quarters of the correlation window.  Scores are doubled, which makes    *)
(* them whole.  The word ranking (logarithms) is left out.                 *)
(***************************************************************************)
EXTENDS Integers, Sequences, FiniteSets, SequencesExt, FiniteSetsExt

CONSTANTS W,             \* the wildcard token
          LogLines,      \* what containers print: [tokens, pod, sev, count, gap], gap after the line before
          LogEvents,     \* events of the timeline: [pod, sev, change, ts, words]
          Kin,           \* pairs of pods whose names share a word
          MaxChildren,   \* fan-out of a node of the search tree
          MaxLines       \* bound: lines in the window

VARIABLES
  lines,     \* the log evidence, oldest first: [tokens, pod, sev, count, ts]
  timeline   \* the event of the timeline, if any: a set of at most one

patternVars == <<lines, timeline>>

Info == 1
Warning == 2
High == 4
Critical == 5
Window == 4       \* WINDOW_MS in quarters
Buckets == 3      \* HIST_BUCKETS, smaller here
PrefixLayers == 2 \* depth - 2

-----------------------------------------------------------------------------
(* drain.js *)

EmptyDrain == [nodes |-> {}, clusters |-> <<>>]

(* one layer down: the token's own child, or the wildcard's when the node is
   full *)
Descend(nodes, path, token) ==
  LET own      == Append(path, token)
      children == {n \in nodes : Len(n) = Len(path) + 1 /\ SubSeq(n, 1, Len(path)) = path}
  IN  IF own \in nodes \/ Cardinality(children) < MaxChildren THEN own ELSE Append(path, W)

(* the node of a line, and the nodes after the layers on the way to it *)
Walk(nodes, tokens) ==
  LET depth == Min({PrefixLayers, Len(tokens)})
      walk[i \in 0..depth] ==
        IF i = 0 THEN [nodes |-> nodes, path |-> <<Len(tokens)>>]
        ELSE LET next == Descend(walk[i - 1].nodes, walk[i - 1].path, tokens[i])
             IN  [nodes |-> walk[i - 1].nodes \cup {next}, path |-> next]
  IN  walk[depth]

(* equal tokens; a wildcard equals nothing *)
Equal(template, tokens) == Cardinality({i \in DOMAIN template : template[i] = tokens[i] /\ template[i] # W})

(* the clusters of a node have the line's length, so at least half the tokens
   must be equal; the first of the best is taken *)
BestCluster(clusters, path, tokens) ==
  LET here == {k \in DOMAIN clusters : clusters[k].path = path}
      good == {k \in here : \A j \in here : Equal(clusters[j].template, tokens) <= Equal(clusters[k].template, tokens)}
  IN  {k \in good : (\A j \in good : k <= j) /\ 2 * Equal(clusters[k].template, tokens) >= Len(tokens)}

MergeTemplate(a, b) == [i \in DOMAIN a |-> IF a[i] = b[i] THEN a[i] ELSE W]

AbsorbMeta(c, line) ==
  [c EXCEPT !.pods = @ \cup {line.pod},
            !.samples = IF Len(@) < 5 THEN Append(@, line) ELSE @,
            !.sev = IF line.sev > @ THEN line.sev ELSE @]

DrainAdd(d, line) ==
  LET walk == Walk(d.nodes, line.tokens)
      best == BestCluster(d.clusters, walk.path, line.tokens)
      new  == [path |-> walk.path, template |-> line.tokens, count |-> line.count, sev |-> line.sev,
               pods |-> {}, samples |-> <<>>]
  IN  IF best # {}
      THEN LET k == CHOOSE k \in best : TRUE
           IN  [d EXCEPT !.clusters[k] = AbsorbMeta([@ EXCEPT !.template = MergeTemplate(@, line.tokens),
                                                              !.count = @ + line.count], line)]
      ELSE [nodes |-> walk.nodes, clusters |-> Append(d.clusters, AbsorbMeta(new, line))]

ContentTokens(template) == {template[i] : i \in DOMAIN template} \ {W}

(* Jaccard overlap of at least 0.72 *)
Alike(a, b) ==
  LET A == ContentTokens(a)
      B == ContentTokens(b)
  IN  100 * Cardinality(A \cap B) >= 72 * Cardinality(A \cup B)

MergeUnequal(a, b) ==
  LET longer  == IF Len(a) >= Len(b) THEN a ELSE b
      shorter == IF Len(a) >= Len(b) THEN b ELSE a
  IN  IF Len(a) = Len(b) THEN MergeTemplate(a, b)
      ELSE [i \in DOMAIN longer |-> IF longer[i] \in ContentTokens(shorter) THEN longer[i] ELSE W]

Mergeable(base, other) ==
  /\ Len(base.template) - Len(other.template) \in -3..3
  /\ Alike(base.template, other.template)

(* Mutant: the other cluster's lines are not counted. *)
MergeIntoNoCount(base, other) == [base EXCEPT !.template = MergeUnequal(@, other.template), !.pods = @ \cup other.pods]

MergeInto(base, other) ==
  [base EXCEPT !.template = MergeUnequal(@, other.template), !.count = @ + other.count,
               !.pods = @ \cup other.pods, !.samples = SubSeq(@ \o other.samples, 1, Min({5, Len(@ \o other.samples)})),
               !.sev = Max({@, other.sev})]

ByCount(clusters) ==
  LET order == SetToSortSeq(DOMAIN clusters, LAMBDA i, j : \/ clusters[i].count > clusters[j].count
                                                           \/ clusters[i].count = clusters[j].count /\ i < j)
  IN  [i \in DOMAIN order |-> clusters[order[i]]]

(* one round: the first that is left is the base, which grows while the others
   are scanned *)
MergeRound(state) ==
  LET Scan(acc, other) == IF Mergeable(acc.base, other) THEN [acc EXCEPT !.base = MergeInto(@, other)]
                          ELSE [acc EXCEPT !.rest = Append(@, other)]
      round == FoldLeft(Scan, [base |-> Head(state.rest), rest |-> <<>>], Tail(state.rest))
  IN  [merged |-> Append(state.merged, round.base), rest |-> round.rest]

MergeSimilar(list) ==
  LET rounds[n \in 0..Len(list)] ==
        IF n = 0 THEN [merged |-> <<>>, rest |-> list]
        ELSE IF rounds[n - 1].rest = <<>> THEN rounds[n - 1] ELSE MergeRound(rounds[n - 1])
  IN  rounds[Len(list)].merged

-----------------------------------------------------------------------------
(* logPatterns.js *)

IsSignal(sev) == sev >= Warning

(* extractLogPatterns's lines: with errorOnly the signal lines, if any *)
AnalyzedLines(errorOnly) ==
  LET signal == SelectSeq(lines, LAMBDA l : IsSignal(l.sev))
  IN  IF errorOnly /\ signal # <<>> THEN signal ELSE lines

Clusters(ls) == FoldLeft(DrainAdd, EmptyDrain, ls).clusters

Templates(ls) == MergeSimilar(ByCount(Clusters(ls)))

Total(s) == FoldLeft(LAMBDA n, l : n + l.count, 0, s)

SeverityCounts(ls) == [v \in {Info, Warning, High, Critical} |-> Total(SelectSeq(ls, LAMBDA l : l.sev = v))]

Times(ls) == FoldLeft(LAMBDA ts, l : ts \o [k \in 1..Min({l.count, 8}) |-> l.ts], <<>>, ls)

Bucket(t, lo, span) == 1 + Min({Buckets - 1, ((t - lo) * Buckets) \div span})

Histogram(times) ==
  IF times = <<>> THEN [b \in 1..Buckets |-> 0]
  ELSE LET lo   == Min(Range(times))
           span == Max({1, Max(Range(times)) - lo})
       IN  [b \in 1..Buckets |-> Cardinality({k \in DOMAIN times : Bucket(times[k], lo, span) = b})]

(* the time of the summary: when the newest line arrived *)
Now == lines[Len(lines)].ts

(* the share of the times in the later half of their span, or in the last
   minute (two quarters) when they are all the same *)
Trend(c) ==
  LET times  == [k \in DOMAIN c.samples |-> c.samples[k].ts]
      lo     == Min(Range(times))
      span   == Max(Range(times)) - lo
      cutoff == IF span > 0 THEN 2 * lo + span ELSE 2 * (Now - 2)
      recent == Cardinality({k \in DOMAIN times : 2 * times[k] >= cutoff})
  IN  IF Len(times) < 3 THEN "flat"
      ELSE IF 100 * recent >= 65 * Len(times) THEN "up"
      ELSE IF 100 * recent <= 35 * Len(times) THEN "down" ELSE "flat"

-----------------------------------------------------------------------------
(* logCorrelation.js *)

Nearest(ev, tpl) ==
  LET Gap(t) == IF t >= ev.ts THEN t - ev.ts ELSE ev.ts - t
  IN  Min({Gap(tpl.samples[k].ts) : k \in DOMAIN tpl.samples})

LinkScore(ev, tpl) ==
  LET words == Cardinality({i \in DOMAIN tpl.template : tpl.template[i] \in ev.words})
  IN  2 * (Window - Nearest(ev, tpl))
      + (IF ev.pod \in tpl.pods THEN 8 ELSE IF \E p \in tpl.pods : <<p, ev.pod>> \in Kin THEN 4 ELSE 0)
      + Min({8, 3 * words})
      + (IF ev.sev >= Warning /\ tpl.sev >= High THEN 3 ELSE 0)
      + (IF ev.change /\ Trend(tpl) = "up" THEN 2 ELSE 0)
      + (IF tpl.count >= 10 THEN 2 ELSE 0) + (IF tpl.count >= 50 THEN 2 ELSE 0)

ScoreLink(ev, tpl) ==
  IF Nearest(ev, tpl) > Window \/ LinkScore(ev, tpl) < 7 THEN {} ELSE {LinkScore(ev, tpl)}

Correlations(templates) ==
  {c \in [ev : timeline, tpl : DOMAIN templates, score : 0..40] :
     (c.ev.sev >= Warning \/ c.ev.change) /\ c.score \in ScoreLink(c.ev, templates[c.tpl])}

LogOnly(templates) ==
  {[source |-> "LOG", tpl |-> k, strong |-> templates[k].count >= 20 \/ templates[k].sev = Critical] :
     k \in {k \in DOMAIN templates : k <= 3 /\ (templates[k].count >= 2 \/ templates[k].sev = Critical)}}

(* Signals: the best link of each template, at most eight *)
Signals(templates) ==
  LET all  == Correlations(templates)
      best == {c \in all : \A d \in all : d.tpl = c.tpl => d.score <= c.score}
  IN  IF templates = <<>> \/ timeline = {} THEN LogOnly(templates)
      ELSE {[source |-> "LOG+EVENT", tpl |-> c.tpl, strong |-> c.score >= 16] : c \in best}

-----------------------------------------------------------------------------
PatternInit == lines = <<>> /\ timeline = {}

LogArrives ==
  /\ Len(lines) < MaxLines
  /\ \E l \in LogLines :
       lines' = Append(lines, [tokens |-> l.tokens, pod |-> l.pod, sev |-> l.sev, count |-> l.count,
                               ts |-> l.gap + IF lines = <<>> THEN 1 ELSE Now])
  /\ UNCHANGED timeline

EventArrives ==
  /\ timeline = {} /\ lines # <<>>
  /\ \E e \in LogEvents : timeline' = {e}
  /\ UNCHANGED lines

PatternNext == LogArrives \/ EventArrives

-----------------------------------------------------------------------------
(* No line is lost or counted twice on the way through the search tree, the
   clusters and the merging of similar clusters: the templates' counts, the
   severity counts and the lines add up to the same. *)
WeightKept ==
  \A e \in BOOLEAN :
    LET ls == AnalyzedLines(e)
        by == SeverityCounts(ls)
    IN  /\ Total(Templates(ls)) = Total(ls)
        /\ by[Info] + by[Warning] + by[High] + by[Critical] = Total(ls)

(* A template says only what all of its lines say: each token that is not a
   wildcard occurs in each of them, also after templates of different length
   were merged. *)
TemplateCovers ==
  LET ts == Templates(lines)
  IN  \A k \in DOMAIN ts : \A s \in DOMAIN ts[k].samples :
        ContentTokens(ts[k].template) \subseteq ContentTokens(ts[k].samples[s].tokens)

(* A template is as severe as its worst line: a critical line is not hidden in
   a cluster of harmless ones. *)
WorstShown ==
  LET ts == Templates(lines)
  IN  \A k \in DOMAIN ts : ts[k].sev = Max({ts[k].samples[s].sev : s \in DOMAIN ts[k].samples})

(* The histogram shows every time once, the newest one too. *)
HistogramTotal ==
  LET times == Times(lines)
      h     == Histogram(times)
  IN  FoldFunction(LAMBDA a, b : a + b, 0, h) = Len(times)

(* A signal that joins logs to an event has a line within the window of it. *)
SignalsNear ==
  LET ts == Templates(AnalyzedLines(TRUE))
  IN  \A s \in Signals(ts) : s.source = "LOG+EVENT" =>
        \E e \in timeline : \E k \in DOMAIN ts[s.tpl].samples :
           ts[s.tpl].samples[k].ts - e.ts \in -Window..Window

(* What the templates, the histogram and the signals say of the logs is true of
   the lines they were made from. *)
PatternsTrue == WeightKept /\ TemplateCovers /\ WorstShown /\ HistogramTotal /\ SignalsNear
=============================================================================
