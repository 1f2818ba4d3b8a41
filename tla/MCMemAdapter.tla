----------------------------- MODULE MCMemAdapter -----------------------------
(***************************************************************************)
(* MemAdapter with three granularities over an arena of eight units: up to *)
(* eight pieces, heaps that fragment, and requests that no longer fit.     *)
(***************************************************************************)
EXTENDS MemAdapter
=============================================================================
