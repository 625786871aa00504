----------------------------- MODULE MCPipeline -----------------------------
(***************************************************************************)
(* Instances of Pipeline for TLC, with the texts of MCStream.              *)
(***************************************************************************)
EXTENDS Pipeline, MCStream
=============================================================================
