------------------------------ MODULE FlapScore ------------------------------
(***************************************************************************)
(* The z-score of one speaker's flaps, over the points that its messages   *)
(* and the rollups write (Rollup): what the detector's two queries return  *)
(* (InfluxDBConnector.query_route_stats), the baseline and the current     *)
(* point made of them (_compute_baseline, detect_anomalies), and the       *)
(* verdict (_detect_z_score_anomalies, _compute_severity).                 *)
(*                                                                         *)
(* A z-score is compared by its square: with n points of total S and       *)
(* squares Q, z = (n x - S) / sqrt(n Q - S^2).  The code computes it in    *)
(* floating point, so that a score next to the number it is compared with  *)
(* may come out on either side of it.                                      *)
(***************************************************************************)
EXTENDS Rollup

CONSTANTS
  Lookback,  \* lookback_days, in ticks; the current points are of one Period
  Threshold, \* z_score_threshold
  Warning,   \* the z-scores of _compute_severity
  Critical,
  Precision  \* rounding changes the square of a score by one part in Precision at most

ASSUME ScoreAssumption ==
  /\ Lookback \in Nat /\ Period <= Lookback
  /\ Threshold \in Nat \ {0} /\ Warning \in Nat \ {0} /\ Critical \in Nat
  /\ Warning <= Critical
  /\ Precision \in Nat /\ Precision > Critical * Critical
  /\ Precision > Threshold * Threshold

VARIABLE run  \* locals of the detector: the points of the history, the current one,
              \* when it was judged, and the verdict

scoreVars == <<vars, run>>

Idle == [state |-> "idle", baseline |-> {}, current |-> {}, judged |-> 0,
         severity |-> "none"]

ScoreInit == Init /\ run = Idle

-----------------------------------------------------------------------------
\* The points of one set of tags: of one neighbor, or the rollups.
SameSeries(p, q) == p.neighbor = q.neighbor

\* Mutant: the points come in the order they were written.
LastResults_Ascending(ps) ==
  {p \in ps : \A q \in ps : SameSeries(p, q) => q.no <= p.no}

\* The result is a table for each series, newest point first; which table is
\* last is not determined.
LastResults(ps) ==
  {p \in ps : \A q \in ps : SameSeries(p, q) => p.no <= q.no}

Sqr(x) == x * x

Squares(ps) == SumFunction([p \in ps |-> Sqr(p.flap_count)])

\* Mutant: the mean is rounded down.
Deviation_RoundedMean(x, ps) ==
  Cardinality(ps) * (x - Total(ps) \div Cardinality(ps))

\* n (x - mean)
Deviation(x, ps) == Cardinality(ps) * x - Total(ps)

\* n^2 std^2
Variance(ps) == Cardinality(ps) * Squares(ps) - Sqr(Total(ps))

\* The same where a standard deviation of 0 counts as 1.
Spread(ps) == IF Variance(ps) = 0 THEN Sqr(Cardinality(ps)) ELSE Variance(ps)

Distance(a, b) == IF a >= b THEN a - b ELSE b - a

\* (x - mean) / std is so close to z that rounding decides how they compare.  A
\* deviation of 0 is computed exactly, and so is a score that is divided by 1.
Near(x, ps, z) ==
  /\ Deviation(x, ps) > 0 /\ Variance(ps) # 0
  /\ Precision * Distance(Sqr(Deviation(x, ps)), Sqr(z) * Spread(ps))
       <= Sqr(z) * Spread(ps)

\* (x - mean) / std > z, and >= z, where a near score leans to z's left (-1), to its
\* right (1) or is z (0).
Above(x, ps, z, lean) ==
  IF Near(x, ps, z) THEN lean > 0
  ELSE Deviation(x, ps) > 0 /\ Sqr(Deviation(x, ps)) > Sqr(z) * Spread(ps)
AtLeast(x, ps, z, lean) ==
  IF Near(x, ps, z) THEN lean >= 0
  ELSE Deviation(x, ps) > 0 /\ Sqr(Deviation(x, ps)) >= Sqr(z) * Spread(ps)

SeverityOf(x, ps, lean) ==
  IF ~Above(x, ps, Threshold, lean) THEN "none"
  ELSE IF AtLeast(x, ps, Critical, lean) THEN "CRITICAL"
  ELSE IF AtLeast(x, ps, Warning, lean) THEN "WARNING" ELSE "INFO"

-----------------------------------------------------------------------------
\* detect_anomalies queries the history; without any it returns.
ReadHistory ==
  /\ run.state = "idle" /\ InRange(Lookback) # {}
  /\ run' = [run EXCEPT !.state = "read", !.baseline = InRange(Lookback)]
  /\ UNCHANGED vars

\* It queries the current points and takes the last result for the current one.
Judge ==
  /\ run.state = "read"
  /\ IF InRange(Period) = {}
     THEN run' = [run EXCEPT !.state = "judged", !.judged = now]
     ELSE \E p \in LastResults(InRange(Period)), lean \in {-1, 0, 1} :
            run' = [run EXCEPT !.state = "judged", !.current = {p}, !.judged = now,
                               !.severity = SeverityOf(p.flap_count, run.baseline, lean)]
  /\ UNCHANGED vars

\* The second query raises; when the first one does, nothing was read.
QueryFails ==
  /\ run.state = "read"
  /\ run' = Idle
  /\ UNCHANGED vars

\* The rest of detect_anomalies does not come back to the points.
Return ==
  /\ run.state = "judged"
  /\ run' = Idle
  /\ UNCHANGED vars

ScoreNext ==
  \/ Next /\ UNCHANGED run
  \/ ReadHistory
  \/ Judge
  \/ QueryFails
  \/ Return

ScoreSpec == ScoreInit /\ [][ScoreNext]_scoreVars

-----------------------------------------------------------------------------
\* Safety.

\* A point that is part of its own baseline raises an alarm only if the baseline
\* has more than Threshold^2 points, and a critical one only if it has more than
\* Critical^2, however the scores are rounded: with 3.0 and 5.0 a speaker's first
\* nine points never alarm, whatever they are, and the first 25 are never critical.
FewSamplesNeverAlarm ==
  run.state = "judged" /\ run.current \subseteq run.baseline =>
    /\ run.severity # "none" => Cardinality(run.baseline) > Sqr(Threshold)
    /\ run.severity = "CRITICAL" => Cardinality(run.baseline) > Sqr(Critical)

\* A point outside of its baseline is one that was written after the history
\* was read: everything older of its neighbor has been aged out meanwhile.
OutsideOnlyIfNewer ==
  run.state = "judged" =>
    \A p \in run.current \ run.baseline : \A q \in run.baseline :
      SameSeries(p, q) => q.no < p.no /\ q.at < run.judged - Period

\* A router whose messages all withdraw equally much never raises an alarm by
\* them; when it does raise one, what was judged is a rollup's sum of several.
SteadyAlarmsOnlyByRollup ==
  /\ run.state = "judged" /\ run.severity # "none"
  /\ \A p, q \in points : p.beat = 0 /\ q.beat = 0 => p.flap_count = q.flap_count
  => \A p \in run.current : p.beat # 0

-----------------------------------------------------------------------------
\* What the documents say and the code does not do.

\* "current_flap_rate": the point that is judged is the latest one of its neighbor.
NewestPointJudged ==
  run.state = "judged" =>
    \A q \in run.current, p \in points :
      SameSeries(p, q) /\ p.at < run.judged /\ p.at >= run.judged - Period => p.no <= q.no
=============================================================================
