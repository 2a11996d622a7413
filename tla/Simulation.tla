----------------------------- MODULE Simulation -----------------------------
(***************************************************************************)
(* domain/simulation/engine.py: one-time and recurring spends projected    *)
(* over monthly periods.  A date is <<year, month, day>>, and days are     *)
(* compared by their ordinal.                                              *)
(***************************************************************************)
EXTENDS Integers, Sequences, FiniteSets, FiniteSetsExt

\* The proleptic Gregorian calendar of datetime.date.
Leap(y) == y % 4 = 0 /\ (y % 100 # 0 \/ y % 400 = 0)
DaysIn(y, m) == IF m = 2 THEN (IF Leap(y) THEN 29 ELSE 28) ELSE IF m \in {4, 6, 9, 11} THEN 30 ELSE 31
Ordinal(d) ==
  365 * d[1] + (d[1] - 1) \div 4 - (d[1] - 1) \div 100 + (d[1] - 1) \div 400
    + MapThenSumSet(LAMBDA m : DaysIn(d[1], m), 1..(d[2] - 1)) + d[3]

\* _add_months: the same day, or the last one of a shorter month.
add_months(d, n) ==
  LET m == d[2] - 1 + n
      year == d[1] + m \div 12
      month == (m % 12) + 1
  IN  <<year, month, IF d[3] > DaysIn(year, month) THEN DaysIn(year, month) ELSE d[3]>>

\* The day of the n-th occurrence of a spend; a one-time spend has one.
Occurrence(spend, n) ==
  CASE spend.type = "one_time" -> Ordinal(spend.date)
    [] spend.type = "monthly" -> Ordinal(add_months(spend.date, n))
    [] spend.type = "weekly" -> Ordinal(spend.date) + 7 * n
OccurrencesOn(spend, days) == {n \in 0..(spend.occurrences - 1) : Occurrence(spend, n) \in days}

\* Bug form: a period ends on the 27th at the latest, so that there is such a day in every month.
PeriodDays_EndClamped(q, i) ==
  LET start == add_months(q.start, i)
      end == add_months(start, 1)
  IN  Ordinal(start)..(Ordinal(<<end[1], end[2], IF end[3] > 28 THEN 28 ELSE end[3]>>) - 1)
\* The days of the i-th period, which ends before the day a month after its own first one.
PeriodDays(q, i) ==
  LET start == add_months(q.start, i) IN Ordinal(start)..(Ordinal(add_months(start, 1)) - 1)

SpentOn(q, days) ==
  MapThenSumSet(LAMBDA k : q.spends[k].amount * Cardinality(OccurrencesOn(q.spends[k], days)), DOMAIN q.spends)

\* compute_simulation_projection: the spends of each period, and the liquidity they leave.
compute_simulation_projection(q) ==
  LET spent[i \in 0..(q.horizon - 1)] == SpentOn(q, PeriodDays(q, i))
      left[i \in 0..(q.horizon - 1)] == (IF i = 0 THEN q.liquidity ELSE left[i - 1]) - spent[i]
  IN  [i \in 0..(q.horizon - 1) |-> [total |-> spent[i], ending |-> left[i]]]
=============================================================================
