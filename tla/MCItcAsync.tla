---------------------------- MODULE MCItcAsync ----------------------------
(***************************************************************************)
(* ItcAsync with three sizes, so that a step is entered from another, and  *)
(* three iterations, so that a loop has a first, a middle and a last one.  *)
(***************************************************************************)
EXTENDS ItcAsync
=============================================================================
