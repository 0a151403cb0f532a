--------------------------- MODULE MCCorrelation ---------------------------
(***************************************************************************)
(* A small instance of Correlation for TLC: every tree of three goals.     *)
(***************************************************************************)
EXTENDS Correlation, TLC

CONSTANTS g1, g2, g3

ThreeGoals == <<g1, g2, g3>>

\* The default discount, 0.8.
FourFifths == [s \in 0..Top |-> (s * 4) \div 5]

=============================================================================
