--------------------------------- MODULE MCSim ---------------------------------
(***************************************************************************)
(* Sim with four windows a series and a limit of tail_sem that the gives   *)
(* of one series exceed.                                                   *)
(***************************************************************************)
EXTENDS Sim
=============================================================================
