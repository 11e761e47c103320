------------------------ MODULE MCExecutionPipeline ------------------------
(***************************************************************************)
(* TLC instances of ExecutionPipeline: two or three signals, a BUY and     *)
(* SELLs, whose ids end differently (ApartSuffix) or alike (SameSuffix).   *)
(***************************************************************************)
EXTENDS ExecutionPipeline

CONSTANTS s1, s2, s3

TwoSignals == {s1, s2}
ThreeSignals == {s1, s2, s3}

BuyThenSell == [s \in Signals |-> IF s = s1 THEN 1 ELSE -1]
AllBuy == [s \in Signals |-> 1]

Endings == {"000001", "000002", "000003"}
ApartSuffix ==
    [s \in Signals |-> CASE s = s1 -> "000001" [] s = s2 -> "000002" [] OTHER -> "000003"]
SameSuffix == [s \in Signals |-> "000001"]
=============================================================================
