---------------------------- MODULE ChangeNotice ----------------------------
(***************************************************************************)
(* What the outbox, the queue and the worker's runs promise together: every *)
(* committed change of a fixture is followed by a read of that fixture by   *)
(* the brain, at least once, and a read always sees the latest change.      *)
(***************************************************************************)
EXTENDS Integers

CONSTANT Match

VARIABLES change,  \* the number of the latest committed change of each fixture
          read     \* the number of the change each fixture was last read at

vars == <<change, read>>

Init ==
  /\ change = [m \in Match |-> 0]
  /\ read = [m \in Match |-> 0]

\* Changes are numbered upwards.
Commit(m) ==
  /\ change'[m] \in Int /\ change'[m] > change[m]
  /\ change' = [change EXCEPT ![m] = change'[m]]
  /\ UNCHANGED read

\* A read that finds nothing new is a stutter: duplicates are allowed.
Handle(m) ==
  /\ read[m] < change[m]
  /\ read' = [read EXCEPT ![m] = change[m]]
  /\ UNCHANGED change

Next == \E m \in Match : Commit(m) \/ Handle(m)

SafeSpec == Init /\ [][Next]_vars
Spec == SafeSpec /\ \A m \in Match : WF_vars(Handle(m))
=============================================================================
