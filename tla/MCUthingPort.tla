---------------------------- MODULE MCUthingPort ----------------------------
(***************************************************************************)
(* Instances of UthingPort for TLC.                                        *)
(***************************************************************************)
EXTENDS UthingPort
=============================================================================
