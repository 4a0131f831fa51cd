---------------------------- MODULE AnomalyEngine ----------------------------
(***************************************************************************)
(* From two windows of metric series to ranked anomalies.  A sample's      *)
(* value is its signed deviation from the baseline's centre, in units of   *)
(* the baseline's scale and as the strictest of the three z-scores sees    *)
(* it, or NotFinite.  Statistical scores are in sixths (six units saturate *)
(* them), forest scores in tenths, and combined scores in 600ths.          *)
(***************************************************************************)
EXTENDS TelemetryClients, Ordering, FiniteSetsExt, SequencesExt

CONSTANTS
  Signals,              \* sequence of the signals, in the catalog's order
  NotFinite,            \* the value of a sample that is NaN or infinite
  MinimumBaseline,      \* finite samples a baseline needs
  MinimumScore,         \* a reported anomaly has, in 600ths
  Place                 \* of a service or signal in the order of names

Names == DOMAIN Place

ASSUME EngineAssumption ==
  /\ MinimumBaseline \in Nat \ {0} /\ MinimumScore \in 0 .. 600
  /\ Place \in [Names -> Nat] /\ IsInjective(Place)
  /\ None \notin Int \cup Names

Magnitude(z) == IF z < 0 THEN -z ELSE z

Finite(samples) == {x \in ToSet(samples) : x.value # NotFinite}

---------------------------------------------------------------------------
(* Statistical screening *)

SampleScore(sample) == Min({Magnitude(sample.value), 6})

\* Half of the saturated score and more.
Anomalous(sample) == SampleScore(sample) >= 3

\* What a series can be screened with.
Scorable(series) ==
  Cardinality(Finite(series.baseline)) >= MinimumBaseline /\ Finite(series.incident) # {}

\* The first of the greatest scores is the peak, the first anomalous one the
\* onset.
Screen(series) ==
  LET samples == Finite(series.incident)
      peak == CHOOSE x \in samples : \A y \in samples :
        \/ SampleScore(x) > SampleScore(y)
        \/ SampleScore(x) = SampleScore(y) /\ x.at <= y.at
      anomalous == {x.at : x \in {y \in samples : Anomalous(y)}}
  IN [series |-> series, score |-> SampleScore(peak), peak |-> peak.at,
      direction |-> IF peak.value >= 0 THEN "high" ELSE "low",
      start |-> IF anomalous = {} THEN None ELSE Min(anomalous)]

---------------------------------------------------------------------------
(* The isolation forest of one service *)

\* Times at which all its signals have a finite value.
AlignedRows(windows) ==
  {at \in UNION {{x.at : x \in ToSet(w)} : w \in windows} :
     \A w \in windows : \E x \in Finite(w) : x.at = at}

\* The times the forest has a percentile for, if its baseline is long enough.
ForestRows(group) ==
  IF Cardinality(AlignedRows({s.baseline : s \in group})) < MinimumBaseline THEN {}
  ELSE AlignedRows({s.incident : s \in group})

\* The time among rows that is nearest, the earlier of two.
Nearest(rows, at) ==
  CHOOSE x \in rows : \A y \in rows :
    \/ Magnitude(x - at) < Magnitude(y - at)
    \/ Magnitude(x - at) = Magnitude(y - at) /\ x <= y

---------------------------------------------------------------------------
(* Combination and ranking *)

\* Mutant: both detectors count the same.
CombinedEqually(result, rows, percentile) ==
  IF rows = {} THEN 100 * result.score
  ELSE 50 * result.score + 30 * percentile[result.series.service][Nearest(rows, result.peak)]

Combined(result, rows, percentile) ==
  IF rows = {} THEN 100 * result.score
  ELSE 70 * result.score + 18 * percentile[result.series.service][Nearest(rows, result.peak)]

\* Ranked before: the higher score, the earlier onset, the names.
RanksBefore(a, b) ==
  LET Key(x) == <<-x.score, x.start, Place[x.service], Place[x.signal]>>
  IN \E i \in 1 .. 4 :
       Key(a)[i] < Key(b)[i] /\ \A j \in 1 .. i - 1 : Key(a)[j] = Key(b)[j]

Analyze(collected, percentile) ==
  LET results == {Screen(s) : s \in {x \in collected : Scorable(x)}}
      candidates == {r \in results : r.start # None}
      Rows(service) ==
        ForestRows({r.series : r \in {x \in results : x.series.service = service}})
      Anomaly(r) ==
        [service |-> r.series.service, signal |-> r.series.signal,
         score |-> Combined(r, Rows(r.series.service), percentile),
         direction |-> r.direction, start |-> r.start, peak |-> r.peak,
         references |-> r.series.references]
      anomalies == {a \in {Anomaly(r) : r \in candidates} : a.score >= MinimumScore}
  IN [anomalies |->
        InOrder(anomalies, [a \in anomalies |-> {b \in anomalies : RanksBefore(b, a)}]),
      warnings |->
        {<<s.service, s.signal>> : s \in {x \in collected : ~Scorable(x)}}
        \cup (IF candidates # {} /\ \A r \in candidates : Rows(r.series.service) = {}
              THEN {<<"forest", "skipped">>} ELSE {})]

---------------------------------------------------------------------------
(* Collecting the series of both windows *)

\* The last series of a service is the one that counts.
ByService(series) ==
  [s \in {x.service : x \in ToSet(series)} \ {None} |->
     series[Max({i \in DOMAIN series : series[i].service = s})].samples]

\* Mutant: the responses are taken as all baselines followed by all incidents.
PairHalves(responses, i) == <<responses[i], responses[Len(Signals) + i]>>

\* Signal by signal, the baseline's response comes before the incident's.
Pair(responses, i) == <<responses[2 * i - 1], responses[2 * i]>>

Collect(responses) ==
  UNION {LET pair == Pair(responses, i)
             before == ByService(pair[1].data)
             during == ByService(pair[2].data)
         IN {[service |-> s, signal |-> Signals[i],
              baseline |-> before[s], incident |-> during[s],
              references |-> <<pair[1].reference, pair[2].reference>>] :
               s \in DOMAIN before \cap DOMAIN during} : i \in DOMAIN Signals}

\* Services that one window only has, by signal.
Absent(responses) ==
  UNION {LET pair == Pair(responses, i)
             before == DOMAIN ByService(pair[1].data)
             during == DOMAIN ByService(pair[2].data)
         IN {<<s, Signals[i]>> : s \in (before \ during) \cup (during \ before)} :
           i \in DOMAIN Signals}
=============================================================================
