------------------------------- MODULE Money -------------------------------
(***************************************************************************)
(* Fixed-point money of the ledger (domain/ledger/invariants.py).  A      *)
(* client's amount is a decimal with more digits than the ledger keeps; it *)
(* is counted here in steps of a tenth of the ledger's quantum (0.00001),  *)
(* and a normalized amount in quanta (MONEY_QUANT = 0.0001).              *)
(***************************************************************************)
EXTENDS Integers, Sequences, SequencesExt

\* Decimal.quantize(..., ROUND_HALF_EVEN) of x/d, for a positive integer d.
RoundHalfEven(x, d) ==
  LET q == x \div d
      r == x % d
  IN  IF 2 * r < d \/ (2 * r = d /\ q % 2 = 0) THEN q ELSE q + 1

RawPerQuantum == 10

normalize_amount(raw) == RoundHalfEven(raw, RawPerQuantum)

AbsValue(n) == IF n < 0 THEN -n ELSE n

\* The sum of op(p) over a sequence of postings.
SumOver(op(_), postings) ==
  FoldLeft(LAMBDA total, p : total + op(p), 0, postings)

NormalizedTotal(postings) ==
  SumOver(LAMBDA p : normalize_amount(p.amount), postings)

\* Bug form: the total is taken before rounding each leg.
ensure_balanced_RawTotal(postings) == SumOver(LAMBDA p : p.amount, postings) = 0

\* A bundle is accepted when its normalized legs cancel exactly.
ensure_balanced(postings) == NormalizedTotal(postings) = 0

\* Half the absolute movement of the bundle, in quanta.
transaction_impact_amount(postings) ==
  RoundHalfEven(SumOver(LAMBDA p : AbsValue(normalize_amount(p.amount)), postings), 2)

\* The (account, normalized amount) legs a bundle asks the duplicate search for.
MatchKeys(postings) ==
  {<<postings[i].account, normalize_amount(postings[i].amount)>> : i \in DOMAIN postings}
=============================================================================
