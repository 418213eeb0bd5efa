------------------------------- MODULE MCBrain ------------------------------
(* Instances of Brain for TLC.                                              *)
EXTENDS Brain
=============================================================================
