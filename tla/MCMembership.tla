---------------------------- MODULE MCMembership ----------------------------
(* Instances of Membership for TLC.                                        *)
EXTENDS Membership

CONSTANTS s1, f1

Plain == [policy |-> "rank", size |-> None, methods |-> {}]

Other ==
  [id |-> f1, incarnation |-> 1, publication |-> 0, value |-> 0,
   shape |-> Plain, leaving |-> FALSE, exclusive |-> FALSE, fits |-> TRUE,
   watch |-> FALSE, seen |-> None]

\* Another member comes and goes.
Visits == {Other, [Other EXCEPT !.leaving = TRUE]}

\* A later tenure takes the seat.
Rival == {[Other EXCEPT !.id = s1, !.incarnation = 2]}
=============================================================================
