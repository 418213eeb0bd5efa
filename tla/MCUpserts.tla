------------------------------ MODULE MCUpserts ------------------------------
(* Instances of Upserts for TLC: a league with a past season that has no row  *)
(* yet and the current one, a cup between two seasons, and a fixture with its *)
(* return fixture.                                                            *)
EXTENDS Upserts

CONSTANTS pl, ec, past, now, ars, che, first, return, d1

Listing == <<pl, ec>>
Current == [c \in Competition |-> IF c = pl THEN now ELSE None]
InPl == [s \in Season |-> pl]
Seasons == [m \in Match |-> IF m = first THEN past ELSE now]
Hosts == [m \in Match |-> IF m = first THEN ars ELSE che]
Guests == [m \in Match |-> IF m = first THEN che ELSE ars]

\* Either order of both fixtures; the scheduled run is handed one fixed order.
Orders == [r \in Run |->
  {<<first, return>>} \cup (IF r = d1 THEN {} ELSE {<<return, first>>})]
=============================================================================
