-------------------------- MODULE MCNumberReadback --------------------------
(***************************************************************************)
(* Instances of NumberReadback.                                            *)
(***************************************************************************)
EXTENDS NumberReadback
=============================================================================
