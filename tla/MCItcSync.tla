----------------------------- MODULE MCItcSync -----------------------------
(***************************************************************************)
(* ItcSync with three sizes and three iterations, see MCItcAsync.          *)
(***************************************************************************)
EXTENDS ItcSync
=============================================================================
