---------------------------- MODULE MCFlapScore ----------------------------
(***************************************************************************)
(* FlapScore with thresholds 1 and 2 instead of 3 and 5, so that an alarm  *)
(* needs two points and a critical one five, and beats two ticks apart.    *)
(***************************************************************************)
EXTENDS FlapScore, TLC

\* The neighbors are alike.
Symmetry == Permutations(Neighbor)
=============================================================================
