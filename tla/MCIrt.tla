------------------------------- MODULE MCIrt -------------------------------
(***************************************************************************)
(* Irt with an odd number of iterations.                                   *)
(***************************************************************************)
EXTENDS Irt
=============================================================================
