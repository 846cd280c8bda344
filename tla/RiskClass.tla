------------------------------ MODULE RiskClass -------------------------------
(***************************************************************************)
(* The charge of a risk class from the K_b and S_b of its buckets, under a *)
(* correlation regime (sbm/reduce.ts, curvatureCommon.ts): the fan-out     *)
(* answers bucket by bucket, finalizeSbmCharge scales the correlations     *)
(* between buckets and reduces what there is.                              *)
(* A charge is kept as its square, times Den: correlations are fractions.  *)
(***************************************************************************)
EXTENDS Integers, FiniteSets, FiniteSetsExt

CONSTANTS
  Bucket,
  Result,    \* what a bucket may answer: <<K_b, S_b>>, K_b >= 0
  Corr,      \* correlations of a schema: [label |-> labels, of |-> numerators over GammaD];
             \* a constant labels every bucket and has one numerator
  GammaD

VARIABLES
  cell,      \* what is asked: leg, regime and the correlations of the schema
  results,       \* the results of the buckets that answered
  charge     \* the answer, or NoCharge

cellVars == <<cell, results, charge>>

NoCharge == [square |-> -1, branch |-> "none"]
CORRELATION_REGIME_FACTOR == [low |-> 3, medium |-> 4, high |-> 5]   \* quarters

Init ==
  /\ cell \in [leg : {"delta", "vega", "curvature"},
               regime : DOMAIN CORRELATION_REGIME_FACTOR, corr : Corr]
  /\ results = [b \in {} |-> <<>>] /\ charge = NoCharge

\* One bucket's result joins those of the fan-out.
Answers(b, r) ==
  /\ charge = NoCharge /\ b \notin DOMAIN results
  /\ results' = [c \in DOMAIN results \cup {b} |-> IF c = b THEN r ELSE results[c]]
  /\ UNCHANGED <<cell, charge>>

-------------------------------------------------------------------------------
(* The correlation between two buckets, over One *)

One == 4 * GammaD
clamp(x, lo, hi) == IF x < lo THEN lo ELSE IF x > hi THEN hi ELSE x

\* Mutant: the high regime is not capped at 1.
scaleCorrelationSpec_Uncapped(corr, regime) ==
  [corr EXCEPT !.of = [p \in DOMAIN @ |-> @[p] * CORRELATION_REGIME_FACTOR[regime]]]

\* Scaled by the regime and capped at 1 on either side.
scaleCorrelationSpec(corr, regime) ==
  [corr EXCEPT !.of = [p \in DOMAIN @ |->
     clamp(@[p] * CORRELATION_REGIME_FACTOR[regime], -One, One)]]

\* Buckets that the matrix does not label are uncorrelated.
gammaOf(corr, b, c) == IF {b, c} \subseteq corr.label THEN corr.of[<<b, c>>] ELSE 0

Den == IF cell.leg = "curvature" THEN One * One ELSE One

\* Curvature squares the correlation, and two losses have none.
psi(x, y) == IF x < 0 /\ y < 0 THEN 0 ELSE 1
Cross(corr, S, b, c) ==
  LET g == gammaOf(corr, b, c)
  IN S[b] * S[c] * IF cell.leg = "curvature" THEN g * g * psi(S[b], S[c]) ELSE g

Interior(corr, S) ==
  Den * MapThenSumSet(LAMBDA b : results[b][1] * results[b][1], DOMAIN results)
    + MapThenSumSet(LAMBDA p : Cross(corr, S, p[1], p[2]),
                    {p \in (DOMAIN results) \X (DOMAIN results) : p[1] # p[2]})

Clipped == [b \in DOMAIN results |-> clamp(results[b][2], -results[b][1], results[b][1])]

\* reduceRiskClassCharge, aggregateAcrossBuckets: the alternative when the
\* interior is negative, and no less than nothing.
reduceCharge(corr) ==
  LET plain == Interior(corr, [b \in DOMAIN results |-> results[b][2]])
      alt == Interior(corr, Clipped)
      branch(name) == IF cell.leg = "curvature" THEN name ELSE "none"
  IN IF plain >= 0 THEN [square |-> plain, branch |-> branch("positive_interior")]
     ELSE [square |-> IF alt > 0 THEN alt ELSE 0, branch |-> branch("fallback_clipped_s")]

\* finalizeSbmCharge
Finalize ==
  /\ charge = NoCharge
  /\ charge' = reduceCharge(scaleCorrelationSpec(cell.corr, cell.regime))
  /\ UNCHANGED <<cell, results>>

Next == Finalize \/ \E b \in Bucket, r \in Result : Answers(b, r)

Spec == Init /\ [][Next]_cellVars

-------------------------------------------------------------------------------
(* Properties *)

\* What the buckets have when nothing offsets.
Larger(b) == LET k == results[b][1]
                 s == IF results[b][2] < 0 THEN -results[b][2] ELSE results[b][2]
             IN IF k > s THEN k ELSE s
Undiversified == MapThenSumSet(Larger, DOMAIN results)

Constant(corr) == corr.label = Bucket /\ Cardinality({corr.of[p] : p \in Bucket \X Bucket}) = 1
Positive(corr) == \A p \in DOMAIN corr.of : corr.of[p] >= 0
Scaled == scaleCorrelationSpec(cell.corr, cell.regime)

\* Diversification never adds to a charge: in every regime it is at most the sum
\* of what its buckets have on their own.  And Math.max(sumAlt, 0) never hides a
\* charge of delta or vega under one correlation that is not negative.
ChargeIsBounded ==
  charge # NoCharge =>
    /\ charge.square <= Den * Undiversified * Undiversified
    /\ cell.leg # "curvature" /\ Constant(cell.corr) /\ Positive(cell.corr)
         => Interior(Scaled, Clipped) >= 0

===============================================================================
