---------------------- MODULE MCResultPublication ----------------------
(* Instances of the provider delivery and of the publication of results. *)
EXTENDS ResultPublication

CONSTANTS d1, d2, j1, j2, p1, p2

\* An event with two workflows from its first claim on; its results are not
\* published.
Delivering == [event |-> {1, 2}, delivered |-> FALSE, deliverers |-> {d1, d2},
               projectors |-> {j1}, publishers |-> {}]

\* An admitted run, two projection services and nobody who publishes
Projecting == [event |-> {1}, delivered |-> TRUE, deliverers |-> {},
               projectors |-> {j1, j2}, publishers |-> {}]

\* An admitted run, one projection service and two result workers
Publishing == [Projecting EXCEPT !.projectors = {j1}, !.publishers = {p1, p2}]

AllSetups == {Delivering, Projecting, Publishing}
OnlyDelivering == {Delivering}
OnlyProjecting == {Projecting}
=========================================================================
