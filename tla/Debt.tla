-------------------------------- MODULE Debt --------------------------------
(***************************************************************************)
(* domain/debt/engine.py: liabilities scored, ranked, and paid off in rank *)
(* order.  Amounts and percentages are in quanta; reserve_floor is         *)
(* accepted and never read.                                                *)
(***************************************************************************)
EXTENDS Money

\* balance * apr / 100, of two numbers in quanta.
InterestOn(amount, apr) == RoundHalfEven(amount * apr, 1000000)

\* The share of the balance that the payoff covers; nothing to pay off counts as covered, unless
\* there is no payoff.
PayoffReadiness(l, payoff) ==
  IF payoff = 0 THEN 0
  ELSE IF payoff >= l.balance THEN 10000
  ELSE RoundHalfEven(payoff * 10000, l.balance)

Score(l, payoff) == InterestOn(l.balance, l.apr) + l.minimum + 100 * PayoffReadiness(l, payoff)

\* Descending score, apr and minimum payment, then the id.
RankedBefore(payoff, l, m) ==
  LET place(x) == <<Score(x, payoff), x.apr, x.minimum, 0 - x.id>>
  IN  \E i \in 1..4 : (\A j \in 1..(i - 1) : place(l)[j] = place(m)[j]) /\ place(l)[i] > place(m)[i]

\* The sort is stable: a liability comes after those of a better key and those of an equal key that
\* are listed before it.
Place(liabilities, payoff, i) ==
  1 + Cardinality({j \in DOMAIN liabilities :
                     \/ RankedBefore(payoff, liabilities[j], liabilities[i])
                     \/ j < i /\ ~RankedBefore(payoff, liabilities[i], liabilities[j])})
Ranked(liabilities, payoff) ==
  [r \in DOMAIN liabilities |-> liabilities[CHOOSE i \in DOMAIN liabilities : Place(liabilities, payoff, i) = r]]

\* Bug form: each liability draws on the whole payoff.
Drawn_Whole(remaining, l, payoff) == IF payoff < l.balance THEN payoff ELSE l.balance
\* What a liability draws of what is left of the payoff.
Drawn(remaining, l, payoff) == IF remaining < l.balance THEN remaining ELSE l.balance

\* What the answer says of a liability that draws that much.
RankedLiability(l, applied, payoff) ==
  [id |-> l.id, score |-> Score(l, payoff), applied |-> applied, post |-> l.balance - applied,
   saved |-> InterestOn(applied, l.apr),
   freed |-> IF l.balance = applied THEN l.minimum ELSE 0,
   interest |-> InterestOn(l.balance, l.apr)]

\* The payoff goes from one ranked liability to the next.
PaidOff(ranked, payoff) ==
  LET left[r \in {0} \union DOMAIN ranked] ==
        IF r = 0 THEN payoff ELSE left[r - 1] - Drawn(left[r - 1], ranked[r], payoff)
  IN  [r \in DOMAIN ranked |-> RankedLiability(ranked[r], Drawn(left[r - 1], ranked[r], payoff), payoff)]

\* With NULL for an absent payoff amount read as zero.
analyze_liabilities(liabilities, payoff) == PaidOff(Ranked(liabilities, payoff), payoff)
=============================================================================
