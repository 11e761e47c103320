------------------------- MODULE MCTrackedPipeline -------------------------
(***************************************************************************)
(* TLC instance of TrackedPipeline.                                        *)
(***************************************************************************)
EXTENDS MCExecutionPipeline, TrackedPipeline
=============================================================================
