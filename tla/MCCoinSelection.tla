--------------------------- MODULE MCCoinSelection --------------------------
(* Instances of CoinSelection for TLC.                                     *)
EXTENDS CoinSelection

\* A fee is 8 for one input, one output and one change output: values on both
\* sides of it, and sums that meet amount + fee exactly.
MCValues == {1, 4, 9, 13}
MCAmounts == 1 .. 14
MCSoftLimits == 0 .. 3
MCChangeCounts == 0 .. 3
=============================================================================
