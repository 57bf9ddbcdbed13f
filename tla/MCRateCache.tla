----------------------------- MODULE MCRateCache ------------------------------
(* Instances of RateCache for TLC. *)
EXTENDS RateCache, TLC

CONSTANTS p1, p2, i1, i2, q1, q2, v1, w1, on, off, fine

OnePair == (i1 :> p1) @@ (i2 :> p1)
TwoPairs == (i1 :> p1) @@ (i2 :> p2)
OneRow == (i1 :> p1)

\* `fine` is an active fee with more digits than the column has, 3 such a rate.
RoundedTerms == [t \in Terms |-> IF t = fine THEN on ELSE t]
RoundedRate == [r \in Rate |-> IF r = 3 THEN 2 ELSE r]

Symmetry == Permutations(Req)

\* Rows of one pair differ in nothing, nor do rates that no column rounds.
RowSymmetry == Permutations(Id) \cup Permutations(Rate)
===============================================================================
