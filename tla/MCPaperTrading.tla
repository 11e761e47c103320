--------------------------- MODULE MCPaperTrading ---------------------------
(***************************************************************************)
(* TLC instance of PaperTrading: three signals, a BUY and two SELLs, and a *)
(* market that is at either of two prices whenever an order meets it.      *)
(***************************************************************************)
EXTENDS MCExecutionPipeline, PaperTrading
=============================================================================
