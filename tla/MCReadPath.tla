----------------------------- MODULE MCReadPath -----------------------------
(* Instances of ReadPath for TLC.  Requests are interchangeable.            *)
EXTENDS ReadPath, TLC

Symmetry == Permutations(Client)
=============================================================================
