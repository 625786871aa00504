------------------------------ MODULE MCTQueue ------------------------------
(***************************************************************************)
(* Instances of TQueue for TLC.                                            *)
(***************************************************************************)
EXTENDS TQueue
=============================================================================
