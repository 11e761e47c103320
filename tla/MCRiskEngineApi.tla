-------------------------- MODULE MCRiskEngineApi --------------------------
(***************************************************************************)
(* TLC instance of RiskedTrade, and with it of RiskEngineApi.              *)
(***************************************************************************)
EXTENDS RiskedTrade

Percents == [level \in {"base", "escalated"} |-> IF level = "base" THEN 20 ELSE 40]
TwoSteps == << [profit |-> 2, lock |-> 1], [profit |-> 4, lock |-> 3] >>
=============================================================================
