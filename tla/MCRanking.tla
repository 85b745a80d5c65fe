------------------------------ MODULE MCRanking ------------------------------
(* Ranking with the default weights: 0.35, 0.40 and 0.25 in twentieths, and  *)
(* boosts in units of 1/2000, where the extremes of recency give -7 and 7    *)
(* and those of importance -13 and 13.  The denominator is 61 * 62 * 63.     *)
EXTENDS Ranking

MCWeight == [vector |-> 7, keyword |-> 8, graph |-> 5]
MCBoosts == {-20, 20}
=============================================================================
