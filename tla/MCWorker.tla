------------------------------ MODULE MCWorker ------------------------------
(* Instances of Worker for TLC.                                             *)
EXTENDS WorkerInv, TLC

CONSTANTS m1, m2, pl, cl

OneLeague == [m \in Match |-> pl]
TwoLeagues == (m1 :> pl) @@ (m2 :> cl)

\* Fixtures are told apart by nothing but their name, and so are daily runs as
\* long as no fairness is asked of the scheduled ones.
Symmetry == Permutations(Match) \cup Permutations(Daily)
=============================================================================
