---------------------------- MODULE MCAttemptLease ----------------------------
(* Small instances of AttemptLease for TLC. *)
EXTENDS AttemptLease, TLC

Symmetry == Permutations(Attempts) \cup Permutations(Runners)

\* The attempts have been admitted and every runner has connected.
ReadyInit ==
    /\ now = 0
    /\ epoch = [r \in Runners |-> 1]
    /\ live = [r \in Runners |-> {1}]
    /\ online = [r \in Runners |-> TRUE]
    /\ desired = [r \in Runners |-> "Active"]
    /\ heartbeat = [r \in Runners |-> 0]
    /\ lifecycle = [a \in Attempts |-> "Queued"]
    /\ token = [a \in Attempts |-> 0]
    /\ lease = [a \in Attempts |-> NoLease]
    /\ failures = [a \in Attempts |-> 0]
    /\ changedAt = [a \in Attempts |-> 0]
    /\ intent = [a \in Attempts |-> "none"]
    /\ terminal = [a \in Attempts |-> "none"]
    /\ claims = {} /\ offers = {} /\ renewals = {} /\ cancels = {} /\ held = {}

\* One replaced session and one renewal in flight, or two renewals.
LeaseBound ==
    LET replaced == {r \in Runners : epoch[r] > 1}
    IN  /\ Cardinality(replaced) <= 1
        /\ Cardinality(replaced) + Cardinality(renewals) <= 2

\* The steps that lease an attempt, renew a lease and lease it again; the
\* other steps are explored from Init.
LeaseNext ==
    \/ Tick
    \/ \E r \in Runners : OpenSession(r) /\ LeaseBound'
    \/ OfferStep
    \/ HeartbeatStep /\ LeaseBound'
    \/ \E a \in Attempts : ReapExpired(a)
=============================================================================
