--------------------------- MODULE AnalysisTools ---------------------------
(***************************************************************************)
(* The tools that compute and change nothing: each behaviour asks one      *)
(* question, or reconciles one account over time.                          *)
(***************************************************************************)
EXTENDS Posture, Simulation, Debt, Reconciliation

CONSTANT Questions  \* inputs of the pure tools, [tool, ...], and [tool |-> "reconcile_account"]

\* The lists and amounts that ComputeConsolidatedPostureIn parses: at least one entity.
ASSUME QuestionsAssumption ==
  \A q \in Questions : q.tool = "compute_consolidated_posture" =>
    /\ IsFiniteSet(DOMAIN q.entities) /\ DOMAIN q.entities # {}
    /\ \A e \in DOMAIN q.entities :
         /\ DOMAIN q.entities[e] = {"liquidity", "minimum_reserve", "volatility_buffer"}
         /\ \A f \in DOMAIN q.entities[e] : q.entities[e][f] \in Int
    /\ Len(q.legs) \in Nat /\ DOMAIN q.legs = 1..Len(q.legs)
    /\ \A i \in DOMAIN q.legs : q.legs[i].amount \in Int /\ q.legs[i].direction \in {"in", "out"}

\* The spends that SimulationInputs parses: over one period or more, of amounts that are not negative.
ASSUME SpendsAssumption ==
  \A q \in Questions : q.tool = "simulate_spend" =>
    /\ q.liquidity \in Int /\ q.horizon \in Nat \ {0}
    /\ q.start \in Nat \X (1..12) \X (1..31) /\ q.start[3] <= DaysIn(q.start[1], q.start[2])
    /\ IsFiniteSet(DOMAIN q.spends)
    /\ \A k \in DOMAIN q.spends : q.spends[k].amount \in Nat /\ q.spends[k].occurrences \in Nat

\* The liabilities that DebtAnalysisInputs parses: no id twice, and no number below zero.
ASSUME LiabilitiesAssumption ==
  \A q \in Questions : q.tool = "analyze_debt" =>
    /\ q.payoff \in Nat
    /\ Len(q.liabilities) \in Nat /\ DOMAIN q.liabilities = 1..Len(q.liabilities)
    /\ \A i \in DOMAIN q.liabilities :
         LET l == q.liabilities[i] IN l.id \in Int /\ l.balance \in Nat /\ l.apr \in Nat /\ l.minimum \in Nat
    /\ \A i, j \in DOMAIN q.liabilities : q.liabilities[i].id = q.liabilities[j].id => i = j

VARIABLES question, answer

vars == <<question, answer, account>>

Asked(tool) == question.tool = tool /\ answer.status = "awaited"
\* A question is answered, or refused by its schema.
Gives(fits, value) ==
  /\ answer' = IF fits THEN [status |-> "given", value |-> value]
               ELSE [status |-> "refused", value |-> NULL]
  /\ UNCHANGED <<question, account>>

AnswersPosture ==
  /\ Asked("compute_capital_posture")
  /\ LET in == PostureInputs(question.inputs) IN Gives(PostureFits(in), compute_posture_metrics(in))

AnswersConsolidation ==
  /\ Asked("compute_consolidated_posture")
  /\ Gives(ConsolidationFits(question), compute_consolidated_posture(question))

AnswersSimulation ==
  Asked("simulate_spend") /\ Gives(TRUE, compute_simulation_projection(question))

AnswersDebt ==
  Asked("analyze_debt") /\ Gives(TRUE, analyze_liabilities(question.liabilities, question.payoff))

Reconciling ==
  /\ Asked("reconcile_account")
  /\ ReconcileStep /\ UNCHANGED <<question, answer>>

Init == question \in Questions /\ answer = [status |-> "awaited", value |-> NULL] /\ ReconcileInit
Next ==
  \/ AnswersPosture \/ AnswersConsolidation \/ AnswersSimulation \/ AnswersDebt
  \/ Reconciling
Spec == Init /\ [][Next]_vars

----------------------------------------------------------------------------
Answered(tool) == question.tool = tool /\ answer.status = "given"
Value == answer.value

\* Transfers between the entities leave no trace in the consolidated liquidity, so none counts twice.
TransfersAreNeutral ==
  Answered("compute_consolidated_posture") =>
    Value.total.liquidity =
      MapThenSumSet(LAMBDA e : normalize_amount(question.entities[e].liquidity), DOMAIN question.entities)

\* The whole is never in a better band than its best entity, nor in a worse one than its worst, as long
\* as each entity has a reserve target.
WholeLiesBetweenItsParts ==
  Answered("compute_consolidated_posture") /\ (\A e \in DOMAIN Value.entities : Value.entities[e].target > 0) =>
    /\ \E e \in DOMAIN Value.entities : Value.entities[e].band >= Value.total.band
    /\ \E e \in DOMAIN Value.entities : Value.entities[e].band <= Value.total.band

\* What is taken off the liquidity is every occurrence of a spend within the horizon, once, but for
\* those on the days that no period holds: a period that starts on the last day of a month without the
\* start day ends before that day of the next month, which may come before the next period's start.
GapAfter(q, i) ==
  LET short == add_months(q.start, i)
      next == add_months(q.start, i + 1)
  IN  {Ordinal(<<next[1], next[2], d>>) : d \in DaysIn(short[1], short[2])..(next[3] - 1)}
GapDays(q) == UNION {GapAfter(q, i) : i \in 0..(q.horizon - 1)}
SpendsAreCountedOnce ==
  Answered("simulate_spend") =>
    LET horizon == Ordinal(question.start)..(Ordinal(add_months(question.start, question.horizon)) - 1)
        taken == question.liquidity - Value[question.horizon - 1].ending
    IN  taken = SpentOn(question, horizon \ GapDays(question))

\* The payoff is spent as far as there are debts, and in rank order: a liability gets money only
\* when those before it are paid in full, and nobody is paid more than is owed.  None of this depends on
\* the order in which the liabilities are listed, ties included.
PayoffFollowsTheRanking ==
  Answered("analyze_debt") =>
    LET owed == MapThenSumSet(LAMBDA i : question.liabilities[i].balance, DOMAIN question.liabilities)
        spent == MapThenSumSet(LAMBDA r : Value[r].applied, DOMAIN Value)
    IN  /\ spent = IF question.payoff < owed THEN question.payoff ELSE owed
        /\ \A j \in DOMAIN Value : Value[j].post >= 0 /\ Value[j].saved <= Value[j].interest
        /\ \A j \in DOMAIN Value : Value[j].applied > 0 => \A i \in 1..(j - 1) : Value[i].post = 0
        /\ \A p \in [DOMAIN Value -> DOMAIN Value] : (\A i, j \in DOMAIN Value : p[i] = p[j] => i = j) =>
             analyze_liabilities([i \in DOMAIN Value |-> question.liabilities[p[i]]], question.payoff) = Value

\* A suggestion that is recorded before anything else happens, and was never recorded before,
\* closes the difference: from then on the account has one balance on that date, whatever the policy.
AdjustmentsClose ==
  [][offered # NULL /\ offered' = NULL /\ offered.book = book /\ offered.snaps = snaps /\ book' # book =>
       \A date \in Dates : date = offered.posting.date =>
         Delta(date)' = 0 /\ \A m \in Methods : AccountBalance(date, m)' = LedgerBalance(date)']_account
=============================================================================
