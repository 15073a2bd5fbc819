---------------------------- MODULE MCTalkSession ---------------------------
(***************************************************************************)
(* Talk with a few questions, which the child may send in any order.       *)
(***************************************************************************)
EXTENDS TalkSession

=============================================================================
