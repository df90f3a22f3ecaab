-------------------------- MODULE MCCycleDetector --------------------------
(* CycleDetector on graphs of three assets.                                 *)
EXTENDS CycleDetector

CONSTANTS usdt, btc, eth, v1, v2

\* One step of the grid worse than free, and two better.
MCWeights == {-2, 1}

\* Every conversion at one venue, and one of them at a second.
MCLinks ==
  {<<a, b, v1>> : <<a, b>> \in {p \in Assets \X Assets : p[1] # p[2]}} \cup {<<usdt, btc, v2>>}
============================================================================
