-------------------------- MODULE MCAnalysisServer --------------------------
(* A small analysis server for TLC: the batches are those the model's       *)
(* bounds allow.                                                            *)
EXTENDS AnalysisServer

MCBatch == ServerBatch
=============================================================================
