---------------------------- MODULE MCControlPlane ----------------------------
(* Small instances of ControlPlane for TLC. *)
EXTENDS ControlPlane, TLC

CONSTANTS a1, a2, a3, w1, w2, w3

\* Three runs of one job each, all in the concurrency group.
ThreeRuns == [group |-> {w1, w2, w3},
              runOf |-> (a1 :> w1) @@ (a2 :> w2) @@ (a3 :> w3),
              needs |-> [a \in {a1, a2, a3} |-> {}]]

\* One run outside the group, whose job a3 needs a1 and a2.
Join == [group |-> {},
         runOf |-> [a \in {a1, a2, a3} |-> w1],
         needs |-> (a1 :> {}) @@ (a2 :> {}) @@ (a3 :> {a1, a2})]

ThreeRunsOrJoin == {ThreeRuns, Join}

AllPolicies == {[single |-> TRUE, cancelInProgress |-> FALSE],
                [single |-> TRUE, cancelInProgress |-> TRUE],
                [single |-> FALSE, cancelInProgress |-> FALSE]}
=============================================================================
