----------------------------- MODULE MCPipeline -----------------------------
(* Instances of Pipeline for TLC.                                           *)
EXTENDS Pipeline

CONSTANTS m1, pl

OneLeague == [m \in Match |-> pl]
=============================================================================
