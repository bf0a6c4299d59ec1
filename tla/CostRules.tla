-------------------------------- MODULE CostRules --------------------------------
(***************************************************************************)
(* `tend cost scan`: the daily costs AWS gives for each service are summed *)
(* up and the last day is compared with the average of the days before it. *)
(* Amounts are cents and dates are day numbers; percentages are compared   *)
(* by cross-multiplication where the code divides float64 numbers.  An     *)
(* answer is a sequence of days, a day maps the services it has to cents.  *)
(***************************************************************************)
EXTENDS Integers, Sequences, FiniteSets, SequencesExt

RollingWindow == 7
ThresholdAbs  == 500  \* cents; the relative threshold is a fifth

\* resolvePeriod: since 0 is no --since; the end is yesterday and exclusive.
PeriodStart(since, today) == IF since = 0 THEN today - 31 ELSE since
PeriodEnd(today) == today - 1

Services(answer) == UNION {DOMAIN answer[d] : d \in DOMAIN answer}

\* A service costs nothing on a day that does not have it.
CostsOf(service, answer) ==
  [d \in DOMAIN answer |-> IF service \in DOMAIN answer[d] THEN answer[d][service] ELSE 0]

CostTotal(service, answer) == SumFunction(CostsOf(service, answer))

\* The services of the report: one that costs less than a cent is left out.
RecordsOf(answer) == {s \in Services(answer) : CostTotal(s, answer) >= 1}

\* Mutant: the window holds the last day, too.
Window_WithLast(costs) == SubSeq(costs, Len(costs) - RollingWindow + 1, Len(costs))

\* The days the last one is compared with.
Window(costs) == SubSeq(costs, Len(costs) - RollingWindow, Len(costs) - 1)

\* The last day is more than a fifth and more than $5 above the average.
IsAnomaly(costs) ==
  /\ Len(costs) > RollingWindow
  /\ LET last == Last(costs)
         sum  == SumFunction(Window(costs))
     IN /\ sum > 0
        /\ 5 * (RollingWindow * last - sum) > sum
        /\ RollingWindow * last - sum > RollingWindow * ThresholdAbs

CostAnomalies(answer) == {s \in RecordsOf(answer) : IsAnomaly(CostsOf(s, answer))}

\* The relative increase in hundredths of a percent, rounded as it is printed.
DeltaPct(costs) ==
  LET sum == SumFunction(Window(costs))
  IN (20000 * (RollingWindow * Last(costs) - sum) + sum) \div (2 * sum)

\* The order of the anomalies.
AnomalyBefore(s, t, answer) == DeltaPct(CostsOf(s, answer)) > DeltaPct(CostsOf(t, answer))

\* CostAnalyzer.Analyze: gcp and azure only say that they are not there yet.
AsksAWS(provider) == provider \in {"aws", ""}

\* runCostScan: no anomaly, no problem.
CostExit(provider, answers, answer) ==
  IF ~AsksAWS(provider) \/ ~answers THEN 1
  ELSE IF CostAnomalies(answer) # {} THEN 2 ELSE 0
=============================================================================
