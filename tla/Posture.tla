------------------------------ MODULE Posture ------------------------------
(***************************************************************************)
(* domain/posture: the reserve ratio and risk band of one set of inputs,   *)
(* and of several entities together.  Burns are passed through and left    *)
(* out here.                                                               *)
(***************************************************************************)
EXTENDS Money

\* Ratios are kept in quanta like amounts.
One == 10000

\* Inputs are normalized first, then refused when a reserve is negative.
PostureInputs(raw) == [f \in DOMAIN raw |-> normalize_amount(raw[f])]
PostureFits(in) == in.minimum_reserve >= 0 /\ in.volatility_buffer >= 0

\* critical, elevated, guarded, stable: how many of the thresholds the ratio reaches.
RiskBand(ratio) == Cardinality({t \in {5000, 10000, 15000} : ratio >= t})

ReserveTarget(in) == in.minimum_reserve + in.volatility_buffer
ReserveRatio(in) ==
  IF ReserveTarget(in) = 0 THEN 0 ELSE RoundHalfEven(in.liquidity * One, ReserveTarget(in))

compute_posture_metrics(in) ==
  [liquidity |-> in.liquidity, target |-> ReserveTarget(in),
   surplus |-> in.liquidity - ReserveTarget(in),
   ratio |-> ReserveRatio(in), band |-> RiskBand(ReserveRatio(in))]

----------------------------------------------------------------------------
\* A transfer has one leg in and one leg out, which mirror each other.
\* Bug form of the amounts: they are not compared.
SameAmount_Any(a, b) == TRUE
SameAmount(a, b) == normalize_amount(a.amount) = normalize_amount(b.amount)
Mirrored(a, b) ==
  /\ a.direction # b.direction
  /\ a.entity = b.counterparty /\ b.entity = a.counterparty
  /\ SameAmount(a, b)

TransfersFit(legs, entities) ==
  \A i \in DOMAIN legs :
    /\ legs[i].entity # legs[i].counterparty
    /\ {legs[i].entity, legs[i].counterparty} \subseteq entities
    /\ normalize_amount(legs[i].amount) > 0
    /\ \E j \in DOMAIN legs \ {i} :
         /\ {k \in DOMAIN legs : legs[k].transfer = legs[i].transfer} = {i, j}
         /\ Mirrored(legs[i], legs[j])

ConsolidationFits(q) ==
  /\ \A e \in DOMAIN q.entities : PostureFits(PostureInputs(q.entities[e]))
  /\ TransfersFit(q.legs, DOMAIN q.entities)

\* What the transfers moved into an entity, and its inputs without that.
TransferNet(q, e) ==
  MapThenSumSet(LAMBDA i : IF q.legs[i].direction = "in" THEN normalize_amount(q.legs[i].amount)
                           ELSE 0 - normalize_amount(q.legs[i].amount),
                {i \in DOMAIN q.legs : q.legs[i].entity = e})
NeutralInputs(q, e) ==
  LET in == PostureInputs(q.entities[e]) IN [in EXCEPT !.liquidity = @ - TransferNet(q, e)]

\* Bug form: the buffers of the entities are forgotten in the sum.
SummedInputs_NoBuffer(q) ==
  [f \in {"liquidity", "minimum_reserve", "volatility_buffer"} |->
     IF f = "volatility_buffer" THEN 0
     ELSE MapThenSumSet(LAMBDA e : NeutralInputs(q, e)[f], DOMAIN q.entities)]
SummedInputs(q) ==
  [f \in {"liquidity", "minimum_reserve", "volatility_buffer"} |->
     MapThenSumSet(LAMBDA e : NeutralInputs(q, e)[f], DOMAIN q.entities)]

compute_consolidated_posture(q) ==
  [entities |-> [e \in DOMAIN q.entities |-> compute_posture_metrics(NeutralInputs(q, e))],
   total |-> compute_posture_metrics(SummedInputs(q))]
=============================================================================
