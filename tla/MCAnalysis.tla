----------------------------- MODULE MCAnalysis -----------------------------
(***************************************************************************)
(* AnalysisTools on small sets of questions.                               *)
(***************************************************************************)
EXTENDS AnalysisTools

\* Around each threshold of a reserve of two units and its halves, at zero and below, and amounts
\* that rounding moves across.
PostureQuestions ==
  {[tool |-> "compute_capital_posture",
    inputs |-> [liquidity |-> l, minimum_reserve |-> m, volatility_buffer |-> b]] :
     l \in {-60, 0, 5, 99994, 99995, 99980, 199984, 199985, 199990, 200000, 299975, 299985, 300000},
     m \in {-6, -5, 0, 4, 100000, 199995}, b \in {-20, 0, 100000}}

Inputs(l, m, b) == [liquidity |-> l, minimum_reserve |-> m, volatility_buffer |-> b]
Leg(id, entity, counterparty, direction, amount) ==
  [transfer |-> id, entity |-> entity, counterparty |-> counterparty, direction |-> direction, amount |-> amount]
\* No transfer, one, two in a ring, and those that do not mirror: in amount, direction, count or party.
Transfers ==
  {<<>>,
   <<Leg(1, "a", "b", "out", 55), Leg(1, "b", "a", "in", 60)>>,
   <<Leg(1, "a", "b", "in", 125), Leg(2, "b", "c", "out", 31), Leg(1, "b", "a", "out", 119), Leg(2, "c", "b", "in", 29)>>,
   <<Leg(1, "a", "b", "out", 14), Leg(1, "b", "a", "in", 16)>>,
   <<Leg(1, "a", "b", "out", 10), Leg(1, "b", "a", "out", 10)>>,
   <<Leg(1, "a", "b", "out", 10)>>,
   <<Leg(1, "a", "a", "out", 10), Leg(1, "a", "a", "in", 10)>>,
   <<Leg(1, "a", "b", "out", 4), Leg(1, "b", "a", "in", 4)>>,
   <<Leg(1, "a", "d", "out", 10), Leg(1, "d", "a", "in", 10)>>}
ConsolidationQuestions ==
  {[tool |-> "compute_consolidated_posture",
    entities |-> ("a" :> Inputs(l, m, 35)) @@ ("b" :> Inputs(k, n, 0)) @@ ("c" :> Inputs(75, 40, b)), legs |-> t] :
     l \in {-10, 50, 155}, m \in {0, 105}, k \in {15, 85, 400}, n \in {-8, 0, 85}, b \in {0, 60}, t \in Transfers}

Spend(type, date, occurrences, amount) ==
  [type |-> type, date |-> date, occurrences |-> occurrences, amount |-> amount]
\* Horizons that start late in a month, leap years and centuries among them.
SimulationQuestions ==
  {[tool |-> "simulate_spend", liquidity |-> 50, start |-> s, horizon |-> h,
    spends |-> <<Spend("one_time", d, 1, 7), r>>] :
     s \in {<<2023, 1, 28>>, <<2023, 1, 30>>, <<2024, 1, 31>>, <<2023, 12, 31>>, <<2024, 2, 29>>, <<2099, 12, 29>>},
     h \in {1, 3, 5},
     d \in {<<2023, 1, 29>>, <<2023, 3, 1>>, <<2023, 3, 28>>, <<2023, 3, 29>>, <<2024, 1, 31>>, <<2024, 2, 29>>,
            <<2024, 3, 30>>, <<2100, 3, 28>>},
     r \in {Spend("monthly", <<2022, 12, 30>>, 18, 1), Spend("monthly", <<2024, 1, 31>>, 4, 1),
            Spend("weekly", <<2023, 1, 28>>, 60, 1), Spend("weekly", <<2099, 12, 31>>, 9, 1)}}

Liability(id, balance, apr, minimum) == [id |-> id, balance |-> balance, apr |-> apr, minimum |-> minimum]
\* Equal liabilities, paid-off ones, and interest on the edge of rounding.
DebtQuestions ==
  {[tool |-> "analyze_debt", payoff |-> p,
    liabilities |-> <<Liability(2, b1, a1, m1), Liability(1, b2, a2, 100), Liability(3, b3, 30000, m3)>>] :
     p \in {0, 20000, 50000, 90000, 150000}, b1 \in {0, 50000, 20000}, b2 \in {0, 50000}, b3 \in {50000, 25},
     a1 \in {10, 30000}, a2 \in {30, 30000}, m1 \in {0, 100}, m3 \in {0, 100}}

MCQuestions ==
  PostureQuestions \union ConsolidationQuestions \union SimulationQuestions \union DebtQuestions
    \union {[tool |-> "reconcile_account"]}

\* Postings that round, on and before the date of a snapshot.
MCEntries == {[key |-> <<"x">>, date |-> 1, amount |-> 25], [key |-> <<"y">>, date |-> 2, amount |-> -15]}
=============================================================================
