----------------------------- MODULE MCApproach ----------------------------
(***************************************************************************)
(* Approach on the stage of MCPlay, high enough for walks of two ticks.  *)
(***************************************************************************)
EXTENDS Approach, MCPlay

=============================================================================
