----------------------- MODULE ResultPublicationProofs -----------------------
(***************************************************************************)
(* Machine-checked proofs about ProviderDelivery and ResultPublication, for *)
(* any number of workflows, workers, services and faults.                  *)
(***************************************************************************)
EXTENDS ResultPublication, FiniteSetTheorems, SequenceTheorems, TLAPS

-----------------------------------------------------------------------------
(* The processing of a delivery.                                           *)

\* A subject names the attempt that created it.
SubjectRows ==
    /\ \A w \in Workflows :
          /\ saved[w].version # 0 => saved[w].attempt \in 1 .. delivery.attempts
          /\ saved[w].attempt # 0 => saved[w].version # 0
    /\ \A p \in Projectors : projector[p].workflow # 0 =>
          saved[projector[p].workflow].version # 0 /\ projector[p].version # 0

\* What is done before workflow n
DoneBefore(n) == \A w \in Event : w < n => version[w] # 0 /\ saved[w].version # 0

\* The subjects from workflow n on are not of this attempt.
NotMine(n, attempt) ==
    \A w \in Event : w >= n /\ saved[w].version # 0 => saved[w].attempt # attempt

\* An attempt belongs to one worker, which goes through the workflows in order;
\* it fails when its claim is lost or when it finds a subject of another attempt.
ProcessingRow(d) ==
    LET me == deliverer[d] IN
    Processing(d) =>
        /\ me.attempt \in 1 .. delivery.attempts
        /\ \A e \in Deliverers : Processing(e) /\ deliverer[e].attempt = me.attempt => e = d
        /\ me.next \in Event
        /\ me.stage \in {"admit", "project"} => DoneBefore(me.next) /\ NotMine(me.next, me.attempt)
        /\ me.stage = "project" => version[me.next] # 0
        /\ me.stage = "complete" => \A w \in Event : version[w] # 0 /\ saved[w].version # 0
        /\ me.stage = "fail" => \/ ~Current(d)
                                \/ \E w \in Event : saved[w].version # 0 /\ saved[w].attempt # me.attempt

DeliveryInv ==
    /\ DeliveryTypeOK
    /\ SubjectRows
    /\ \A d \in Deliverers : ProcessingRow(d)
    /\ ConclusionsEarned

\* The event's workflows are 1..n.
LEMMA EventFacts ==
  ASSUME DeliveryTypeOK
  PROVE  /\ Workflows \subseteq Nat \ {0}
         /\ \E n \in Workflows : Event = 1 .. n
         /\ Event \subseteq Workflows /\ 1 \in Event
         /\ setup.deliverers \subseteq Deliverers
         /\ setup.projectors \subseteq Projectors
         /\ setup.publishers \subseteq Publishers
<1>1. /\ Workflows = 1 .. Cardinality(Workflows) /\ Cardinality(Workflows) \in Nat
      /\ setup \in Setups
  BY DeliveryAssumption, FS_CardinalityType DEF DeliveryTypeOK
<1>2. Workflows \subseteq Nat \ {0}
  <2>1. ASSUME NEW w \in 1 .. Cardinality(Workflows) PROVE w \in Nat \ {0}
    OBVIOUS
  <2> QED
    BY <1>1, <2>1
<1>3. PICK n \in Workflows : Event = 1 .. n
  BY <1>1, DeliveryAssumption DEF Event
<1>4. n \in Nat \ {0}
  BY <1>2
<1>5. ASSUME NEW w \in 1 .. n PROVE w \in Workflows
  <2>1. n \in 1 .. Cardinality(Workflows)
    BY <1>1
  <2>2. w \in Int /\ 1 <= w /\ w <= n
    BY <1>4
  <2>3. w \in 1 .. Cardinality(Workflows)
    BY <1>1, <1>4, <2>1, <2>2
  <2> QED
    BY <1>1, <2>3
<1> QED
  BY <1>1, <1>2, <1>3, <1>4, <1>5, DeliveryAssumption

\* Runs and subjects stay, a subject keeps its attempt, and a new one is not
\* of the given attempt.
Remain(attempt) ==
    \A w \in Workflows :
        /\ version[w] # 0 => version'[w] # 0
        /\ saved[w].version # 0 => saved'[w].version # 0 /\ saved'[w].attempt = saved[w].attempt
        /\ saved[w].version = 0 /\ saved'[w].version # 0 => saved'[w].attempt # attempt

\* A worker that does not move keeps what it has done.
LEMMA WorkerKept ==
  ASSUME DeliveryTypeOK, NEW e \in Deliverers, ProcessingRow(e), deliverer'[e] = deliverer[e],
         setup' = setup, delivery'.attempts \in Nat, delivery.attempts <= delivery'.attempts,
         Processing(e) => Remain(deliverer[e].attempt),
         Processing(e) /\ Current(e)' => Current(e),
         \A f \in Deliverers : Processing(f)' =>
            \/ Processing(f) /\ deliverer'[f].attempt = deliverer[f].attempt
            \/ deliverer'[f].attempt = delivery.attempts + 1
  PROVE  ProcessingRow(e)'
<1> DEFINE me == deliverer[e]
<1>1. /\ Event' = Event /\ Event \subseteq Workflows /\ deliverer'[e] = me
      /\ delivery.attempts \in Nat /\ me.attempt \in Nat
  <2>1. delivery.attempts \in 0 .. MaxProcessings /\ me.attempt \in 0 .. MaxProcessings
    BY DEF DeliveryTypeOK
  <2> QED
    BY <2>1, EventFacts DEF Event
<1> SUFFICES ASSUME Processing(e) PROVE ProcessingRow(e)'
  BY <1>1 DEF ProcessingRow, Processing
<1>2. me.attempt \in 1 .. delivery.attempts /\ me.next \in Event /\ Remain(me.attempt)
  BY DEF ProcessingRow
<1>3. me.attempt \in 1 .. delivery'.attempts /\ me.attempt # delivery.attempts + 1
  BY <1>1, <1>2
<1>4. \A f \in Deliverers : Processing(f)' /\ deliverer'[f].attempt = me.attempt => f = e
  BY <1>3 DEF ProcessingRow
<1>6. ASSUME NEW n, NotMine(n, me.attempt)
      PROVE  \A w \in Event : w >= n /\ saved'[w].version # 0 => saved'[w].attempt # me.attempt
  BY <1>1, <1>2, <1>6 DEF NotMine, Remain
<1>7. me.stage \in {"admit", "project"} =>
        /\ DoneBefore(me.next)'
        /\ \A w \in Event : w >= me.next /\ saved'[w].version # 0 => saved'[w].attempt # me.attempt
  <2> SUFFICES ASSUME me.stage \in {"admit", "project"}
               PROVE  /\ DoneBefore(me.next)'
                      /\ \A w \in Event :
                            w >= me.next /\ saved'[w].version # 0 => saved'[w].attempt # me.attempt
    OBVIOUS
  <2>1. DoneBefore(me.next) /\ NotMine(me.next, me.attempt)
    BY DEF ProcessingRow
  <2>2. \A w \in Event : w < me.next => version'[w] # 0 /\ saved'[w].version # 0
    BY <1>1, <1>2, <2>1 DEF DoneBefore, Remain
  <2> QED
    BY <1>1, <1>6, <2>1, <2>2 DEF DoneBefore
<1>8. me.stage = "project" => version'[me.next] # 0
  BY <1>1, <1>2 DEF ProcessingRow, Remain
<1>9. me.stage = "complete" => \A w \in Event : version'[w] # 0 /\ saved'[w].version # 0
  BY <1>1, <1>2 DEF ProcessingRow, Remain
<1>10. me.stage = "fail" => \/ ~Current(e)'
                            \/ \E w \in Event : saved'[w].version # 0 /\ saved'[w].attempt # me.attempt
  BY <1>1, <1>2 DEF ProcessingRow, Remain
<1> QED
  BY <1>1, <1>2, <1>3, <1>4, <1>7, <1>8, <1>9, <1>10 DEF ProcessingRow, DoneBefore, NotMine

\* The types, for the worker at hand.
LEMMA WorkerFacts ==
  ASSUME DeliveryTypeOK, NEW d \in Deliverers
  PROVE  /\ DOMAIN deliverer = Deliverers
         /\ deliverer[d] \in [stage : {"idle", "admit", "project", "complete", "retry", "fail"},
                              attempt : 0..MaxProcessings, next : Workflows]
         /\ delivery \in [state : {"pending", "claimed", "completed", "failed"},
                          attempts : 0..MaxProcessings, live : BOOLEAN]
         /\ delivery.attempts \in Nat /\ deliverer[d].attempt \in Nat /\ MaxProcessings \in Nat
BY DeliveryAssumption DEF DeliveryTypeOK

\* A worker moves and the others keep their claims.
LEMMA OthersKept ==
  ASSUME DeliveryInv, NEW d \in Deliverers, setup' = setup,
         \A e \in Deliverers : e # d => deliverer'[e] = deliverer[e],
         (deliverer'[d].attempt = deliverer[d].attempt /\ Processing(d)) \/ ~Processing(d)',
         delivery' = delivery,
         \A e \in Deliverers : e # d /\ Processing(e) => Remain(deliverer[e].attempt)
  PROVE  \A e \in Deliverers : e # d => ProcessingRow(e)'
<1> SUFFICES ASSUME NEW e \in Deliverers, e # d PROVE ProcessingRow(e)'
  OBVIOUS
<1>1. DeliveryTypeOK /\ ProcessingRow(e) /\ delivery.attempts \in Nat
  BY WorkerFacts DEF DeliveryInv
<1>2. Current(e)' => Current(e)
  BY DEF Current, Owns
<1>3. \A f \in Deliverers :
        Processing(f)' => Processing(f) /\ deliverer'[f].attempt = deliverer[f].attempt
  BY DEF Processing
<1> QED
  BY <1>1, <1>2, <1>3, WorkerKept

\* Runs and subjects that do not change remain.
LEMMA StillRemain ==
  ASSUME NEW a, UNCHANGED saved, \A w \in Workflows : version[w] # 0 => version'[w] # 0
  PROVE  Remain(a)
BY DEF Remain

\* What the claim and the subjects say does not depend on the workers.
LEMMA SubjectsKept ==
  ASSUME DeliveryInv, UNCHANGED <<setup, delivery, saved, projector>>,
         \A w \in Workflows : version[w] # 0 => version'[w] # 0
  PROVE  SubjectRows' /\ ConclusionsEarned'
<1>1. Event \subseteq Workflows /\ Event' = Event
  BY EventFacts DEF DeliveryInv, Event
<1> QED
  BY <1>1 DEF DeliveryInv, SubjectRows, ConclusionsEarned

\* claim_processing gives the worker an attempt that nobody has had.
LEMMA ClaimStep ==
  ASSUME DeliveryInv, NEW d \in Deliverers, ClaimProcessing(d)
  PROVE  DeliveryInv'
<1> DEFINE n == delivery.attempts + 1
           new == [stage |-> "admit", attempt |-> n, next |-> 1]
<1>1. /\ DeliveryTypeOK /\ SubjectRows /\ \A e \in Deliverers : ProcessingRow(e)
      /\ delivery.attempts \in Nat /\ Event \subseteq Workflows /\ 1 \in Event /\ Workflows \subseteq Nat \ {0}
      /\ Event' = Event
  BY WorkerFacts, EventFacts DEF DeliveryInv, ClaimProcessing, Event
<1>2. /\ delivery' = [state |-> "claimed", attempts |-> n, live |-> TRUE]
      /\ deliverer' = [deliverer EXCEPT ![d] = new]
      /\ UNCHANGED <<setup, version, phase, saved, projector, faults>>
      /\ deliverer[d].stage = "idle"
      /\ delivery.attempts < MaxProcessings
  BY DEF ClaimProcessing, Processable
<1>3. DeliveryTypeOK'
  <2>1. n \in 0 .. MaxProcessings
    BY <1>1, <1>2, DeliveryAssumption
  <2>2. delivery' \in [state : {"pending", "claimed", "completed", "failed"},
                       attempts : 0..MaxProcessings, live : BOOLEAN]
    BY <1>2, <2>1
  <2>3. new \in [stage : {"idle", "admit", "project", "complete", "retry", "fail"},
                 attempt : 0..MaxProcessings, next : Workflows]
    BY <1>1, <2>1
  <2> QED
    BY <1>1, <1>2, <2>2, <2>3 DEF DeliveryTypeOK
<1>4. SubjectRows' /\ ConclusionsEarned'
  BY <1>1, <1>2 DEF SubjectRows, ConclusionsEarned, DeliveryTypeOK
<1>5. deliverer'[d] = new /\ \A e \in Deliverers : e # d => deliverer'[e] = deliverer[e]
  BY <1>1, <1>2 DEF DeliveryTypeOK
<1>6. ASSUME NEW e \in Deliverers, e # d PROVE ProcessingRow(e)'
  <2>1. Remain(deliverer[e].attempt)
    BY <1>2, StillRemain
  <2>2. ASSUME Processing(e) PROVE ~Current(e)'
    <3>1. deliverer[e].attempt \in 1 .. delivery.attempts
      BY <1>1, <2>2 DEF ProcessingRow
    <3>2. deliverer'[e].attempt # delivery'.attempts
      BY <1>1, <1>2, <1>5, <1>6, <3>1
    <3> QED
      BY <3>2 DEF Current, Owns
  <2>3. \A f \in Deliverers : Processing(f)' =>
            \/ Processing(f) /\ deliverer'[f].attempt = deliverer[f].attempt
            \/ deliverer'[f].attempt = delivery.attempts + 1
    BY <1>5 DEF Processing
  <2>4. delivery'.attempts \in Nat /\ delivery.attempts <= delivery'.attempts
    BY <1>1, <1>2
  <2> QED
    BY <1>1, <1>2, <1>5, <1>6, <2>1, <2>2, <2>3, <2>4, WorkerKept
<1>7. ProcessingRow(d)'
  <2>1. n \in 1 .. delivery'.attempts
    BY <1>1, <1>2
  <2>2. ASSUME NEW e \in Deliverers, Processing(e)', deliverer'[e].attempt = n, e # d PROVE FALSE
    <3>1. Processing(e) /\ deliverer[e].attempt = n
      BY <1>5, <2>2 DEF Processing
    <3> QED
      BY <1>1, <3>1 DEF ProcessingRow
  <2>3. \A w \in Event : ~(w < 1)
    BY <1>1
  <2>4. ASSUME NEW w \in Event, saved[w].version # 0 PROVE saved[w].attempt # n
    <3>1. saved[w].attempt \in 1 .. delivery.attempts
      BY <1>1, <2>4 DEF SubjectRows
    <3> QED
      BY <1>1, <3>1
  <2> QED
    BY <1>1, <1>2, <1>5, <2>1, <2>2, <2>3, <2>4 DEF ProcessingRow, DoneBefore, NotMine
<1> QED
  BY <1>3, <1>4, <1>6, <1>7 DEF DeliveryInv

\* A worker drops what it has in hand.
LEMMA DropStep ==
  ASSUME DeliveryInv, NEW d \in Deliverers, deliverer' = [deliverer EXCEPT ![d] = NotProcessing],
         UNCHANGED <<setup, delivery, version, phase, saved, projector>>, faults' \in 0 .. MaxFaults
  PROVE  DeliveryInv'
<1>1. DeliveryTypeOK /\ 1 \in Workflows /\ MaxProcessings \in Nat
  BY EventFacts, WorkerFacts DEF DeliveryInv
<1>2. NotProcessing \in [stage : {"idle", "admit", "project", "complete", "retry", "fail"},
                         attempt : 0..MaxProcessings, next : Workflows]
  BY <1>1 DEF NotProcessing
<1>3. DeliveryTypeOK'
  BY <1>1, <1>2 DEF DeliveryTypeOK
<1>4. deliverer'[d] = NotProcessing /\ \A e \in Deliverers : e # d => deliverer'[e] = deliverer[e]
  BY <1>1 DEF DeliveryTypeOK
<1>5. ~Processing(d)'
  BY <1>4 DEF Processing, NotProcessing
<1>6. \A e \in Deliverers : e # d => ProcessingRow(e)'
  BY <1>4, <1>5, OthersKept, StillRemain
<1> QED
  BY <1>3, <1>5, <1>6, SubjectsKept DEF DeliveryInv, ProcessingRow

\* A worker that only changes its stage.
LEMMA GotoFacts ==
  ASSUME DeliveryTypeOK, NEW d \in Deliverers, NEW stage, Goto(d, stage),
         stage \in {"idle", "admit", "project", "complete", "retry", "fail"}
  PROVE  /\ deliverer' \in [Deliverers -> [stage : {"idle", "admit", "project", "complete", "retry", "fail"},
                                           attempt : 0..MaxProcessings, next : Workflows]]
         /\ deliverer'[d].stage = stage
         /\ deliverer'[d].attempt = deliverer[d].attempt
         /\ deliverer'[d].next = deliverer[d].next
         /\ \A e \in Deliverers : e # d => deliverer'[e] = deliverer[e]
<1>1. DOMAIN deliverer = Deliverers
      /\ deliverer[d] \in [stage : {"idle", "admit", "project", "complete", "retry", "fail"},
                           attempt : 0..MaxProcessings, next : Workflows]
  BY WorkerFacts
<1> QED
  BY <1>1 DEF Goto, DeliveryTypeOK

\* A workflow is admitted only under a current claim; a worker that has lost
\* its claim fails.
LEMMA AdmitStep ==
  ASSUME DeliveryInv, NEW d \in Deliverers, AdmitWorkflow(d)
  PROVE  DeliveryInv'
<1> DEFINE me == deliverer[d]
<1>1. /\ DeliveryTypeOK /\ ProcessingRow(d) /\ Processing(d) /\ me.stage = "admit"
      /\ UNCHANGED <<setup, delivery, phase, saved, projector, faults>>
  BY DEF DeliveryInv, AdmitWorkflow, Processing
<1>2. PICK stage \in {"project", "fail"} :
        /\ Goto(d, stage)
        /\ stage = "project" => \/ version' = version /\ version[me.next] # 0
                                \/ \E v \in {1, 2} : version' = [version EXCEPT ![me.next] = v]
        /\ stage = "fail" => version' = version /\ ~Current(d)
  <2>1. CASE Current(d)
    BY <2>1 DEF AdmitWorkflow
  <2>2. CASE ~Current(d)
    BY <2>2 DEF AdmitWorkflow
  <2> QED
    BY <2>1, <2>2
<1>3. /\ deliverer' \in [Deliverers -> [stage : {"idle", "admit", "project", "complete", "retry", "fail"},
                                        attempt : 0..MaxProcessings, next : Workflows]]
      /\ deliverer'[d].stage = stage
      /\ deliverer'[d].attempt = me.attempt /\ deliverer'[d].next = me.next
      /\ \A e \in Deliverers : e # d => deliverer'[e] = deliverer[e]
  BY <1>1, <1>2, GotoFacts
<1>4. /\ me.attempt \in 1 .. delivery.attempts /\ me.next \in Event /\ me.next \in Workflows
      /\ DoneBefore(me.next) /\ NotMine(me.next, me.attempt)
      /\ Event' = Event /\ Event \subseteq Workflows
  BY <1>1, EventFacts DEF ProcessingRow, Event
<1>5. /\ version' \in [Workflows -> 0 .. MaxVersion]
      /\ \A w \in Workflows : version[w] # 0 => version'[w] # 0
      /\ stage = "project" => version'[me.next] # 0
  <2>1. version \in [Workflows -> 0 .. MaxVersion] /\ 1 \in 0 .. MaxVersion /\ 2 \in 0 .. MaxVersion
    BY <1>1, DeliveryAssumption DEF DeliveryTypeOK
  <2>2. CASE version' = version /\ (stage = "project" => version[me.next] # 0)
    BY <2>1, <2>2
  <2>3. CASE \E v \in {1, 2} : version' = [version EXCEPT ![me.next] = v]
    BY <1>4, <2>1, <2>3
  <2> QED
    BY <1>2, <2>2, <2>3
<1>6. DeliveryTypeOK'
  BY <1>1, <1>3, <1>5 DEF DeliveryTypeOK
<1>7. SubjectRows' /\ ConclusionsEarned'
  BY <1>1, <1>5, SubjectsKept
<1>8. \A e \in Deliverers : e # d => ProcessingRow(e)'
  <2>1. \A a : Remain(a)
    BY <1>1, <1>5, StillRemain
  <2> QED
    BY <1>1, <1>3, <2>1, OthersKept
<1>9. ProcessingRow(d)'
  <2>1. ASSUME NEW e \in Deliverers, Processing(e)', deliverer'[e].attempt = me.attempt PROVE e = d
    BY <1>1, <1>3, <2>1 DEF ProcessingRow, Processing
  <2>2. \A w \in Event : w < me.next => version'[w] # 0 /\ saved'[w].version # 0
    BY <1>1, <1>4, <1>5 DEF DoneBefore
  <2>3. \A w \in Event : w >= me.next /\ saved'[w].version # 0 => saved'[w].attempt # me.attempt
    BY <1>1, <1>4 DEF NotMine
  <2>4. stage = "fail" => ~Current(d)'
    BY <1>1, <1>2, <1>3 DEF Current, Owns
  <2>5. CASE stage = "project"
    BY <1>1, <1>3, <1>4, <1>5, <2>1, <2>2, <2>3, <2>5 DEF ProcessingRow, DoneBefore, NotMine
  <2>6. CASE stage = "fail"
    BY <1>1, <1>3, <1>4, <2>1, <2>4, <2>6 DEF ProcessingRow
  <2> QED
    BY <2>5, <2>6
<1> QED
  BY <1>6, <1>7, <1>8, <1>9 DEF DeliveryInv

\* A dependency that is unavailable leaves the invocation to a retry.
LEMMA UnavailableStep ==
  ASSUME DeliveryInv, NEW d \in Deliverers, Unavailable(d)
  PROVE  DeliveryInv'
<1> DEFINE me == deliverer[d]
<1>1. /\ DeliveryTypeOK /\ ProcessingRow(d) /\ Processing(d)
      /\ UNCHANGED <<setup, delivery, version, phase, saved, projector>>
  BY DEF DeliveryInv, Unavailable, Processing
<1>2. faults' \in 0 .. MaxFaults
  BY <1>1, DeliveryAssumption DEF Unavailable, Fault, DeliveryTypeOK
<1>3. /\ deliverer' \in [Deliverers -> [stage : {"idle", "admit", "project", "complete", "retry", "fail"},
                                        attempt : 0..MaxProcessings, next : Workflows]]
      /\ deliverer'[d].stage = "retry"
      /\ deliverer'[d].attempt = me.attempt /\ deliverer'[d].next = me.next
      /\ \A e \in Deliverers : e # d => deliverer'[e] = deliverer[e]
  BY <1>1, GotoFacts DEF Unavailable
<1>4. DeliveryTypeOK'
  BY <1>1, <1>2, <1>3 DEF DeliveryTypeOK
<1>5. \A e \in Deliverers : e # d => ProcessingRow(e)'
  BY <1>1, <1>3, OthersKept, StillRemain
<1>6. ProcessingRow(d)'
  <2>1. ASSUME NEW e \in Deliverers, Processing(e)', deliverer'[e].attempt = me.attempt PROVE e = d
    BY <1>1, <1>3, <2>1 DEF ProcessingRow, Processing
  <2> QED
    BY <1>1, <1>3, <2>1 DEF ProcessingRow, Event
<1> QED
  BY <1>1, <1>4, <1>5, <1>6, SubjectsKept DEF DeliveryInv

\* A claim that runs out, and a step of the result workers.
LEMMA ExpireStep ==
  ASSUME DeliveryInv, UNCHANGED <<setup, deliverer, version, phase, saved, projector>>,
         faults' \in 0 .. MaxFaults,
         delivery' = delivery \/ (delivery.state = "claimed" /\ delivery' = [delivery EXCEPT !.live = FALSE])
  PROVE  DeliveryInv'
<1>1. DeliveryTypeOK /\ SubjectRows /\ ConclusionsEarned /\ Event' = Event
  BY DEF DeliveryInv, Event
<1>2. /\ delivery' \in [state : {"pending", "claimed", "completed", "failed"},
                        attempts : 0..MaxProcessings, live : BOOLEAN]
      /\ delivery'.attempts = delivery.attempts /\ delivery'.state = delivery.state
      /\ delivery'.live => delivery.live
  BY <1>1, Zenon DEF DeliveryTypeOK
<1>3. DeliveryTypeOK'
  BY <1>1, <1>2 DEF DeliveryTypeOK
<1>4. SubjectRows' /\ ConclusionsEarned'
  BY <1>1, <1>2 DEF SubjectRows, ConclusionsEarned
<1>5. ASSUME NEW e \in Deliverers PROVE ProcessingRow(e)'
  <2>1. ProcessingRow(e) /\ Remain(deliverer[e].attempt) /\ delivery.attempts \in Nat
    BY <1>1, <1>5, StillRemain, WorkerFacts DEF DeliveryInv
  <2>2. Current(e)' => Current(e)
    BY <1>2 DEF Current, Owns
  <2>3. \A f \in Deliverers : Processing(f)' => Processing(f) /\ deliverer'[f].attempt = deliverer[f].attempt
    BY DEF Processing
  <2> QED
    BY <1>1, <1>2, <2>1, <2>2, <2>3, WorkerKept
<1> QED
  BY <1>3, <1>4, <1>5 DEF DeliveryInv

\* What storing a desired result does to the subjects.
LEMMA StoredFacts ==
  ASSUME DeliveryTypeOK, NEW w \in Workflows, NEW outcome, NEW value, Stored(w, outcome, value),
         value \in [version : 0..MaxVersion, phase : Phases, attempt : 0..MaxProcessings]
  PROVE  /\ saved' \in [Workflows -> [version : 0..MaxVersion, phase : Phases, attempt : 0..MaxProcessings]]
         /\ outcome \in {"inserted", "superseded"} => saved'[w] = value
         /\ outcome \notin {"inserted", "superseded"} => saved' = saved
         /\ \A u \in Workflows : u # w => saved'[u] = saved[u]
BY DEF Stored, DeliveryTypeOK

\* How save_desired_result finds a subject.
LEMMA OutcomeFacts ==
  ASSUME NEW w, NEW subject, NEW v, NEW p, v # 0
  PROVE  LET o == SaveOutcome(w, subject, v, p) IN
         /\ o \in {"inserted", "conflict", "unchanged", "superseded"}
         /\ o = "inserted" => saved[w].version = 0
         /\ o # "inserted" => saved[w].version # 0
         /\ o = "superseded" => saved[w].attempt = subject /\ ~(saved[w].version >= v)
         /\ o = "unchanged" => saved[w].attempt = subject
<1>1. CASE saved[w].version = 0
  BY <1>1 DEF SaveOutcome
<1>2. CASE saved[w].version # 0 /\ saved[w].attempt # subject
  BY <1>2 DEF SaveOutcome
<1>3. CASE saved[w].version # 0 /\ saved[w].attempt = subject /\ saved[w].version = v /\ saved[w].phase = p
  BY <1>3 DEF SaveOutcome
<1>4. CASE /\ saved[w].version # 0 /\ saved[w].attempt = subject
           /\ ~(saved[w].version = v /\ saved[w].phase = p)
  <2>1. SaveOutcome(w, subject, v, p) = IF saved[w].version >= v THEN "conflict" ELSE "superseded"
    BY <1>4 DEF SaveOutcome
  <2> QED
    BY <1>4, <2>1
<1> QED
  BY <1>1, <1>2, <1>3, <1>4

\* The first desired result of a workflow is saved by the attempt that admitted
\* it, or is found to be of another attempt.
LEMMA ProjectStep ==
  ASSUME DeliveryInv, NEW d \in Deliverers, ProjectInvocation(d)
  PROVE  DeliveryInv'
<1> DEFINE me == deliverer[d]
           w == me.next
           outcome == SaveOutcome(w, me.attempt, 1, "queued")
           value == FirstResult(me.attempt)
<1>1. /\ DeliveryTypeOK /\ ProcessingRow(d) /\ Processing(d) /\ me.stage = "project"
      /\ UNCHANGED <<setup, delivery, version, phase, projector, faults>>
      /\ Stored(w, outcome, value)
      /\ IF outcome = "conflict" THEN Goto(d, "fail")
         ELSE IF w + 1 \in Event
              THEN deliverer' = [deliverer EXCEPT ![d].stage = "admit", ![d].next = w + 1]
              ELSE Goto(d, "complete")
  BY DEF DeliveryInv, ProjectInvocation, Processing
<1>2. /\ me.attempt \in 1 .. delivery.attempts /\ w \in Event /\ w \in Workflows
      /\ DoneBefore(w) /\ NotMine(w, me.attempt) /\ version[w] # 0
      /\ Event' = Event /\ Event \subseteq Workflows /\ Workflows \subseteq Nat \ {0}
      /\ delivery.attempts \in 0 .. MaxProcessings /\ MaxProcessings \in Nat
      /\ DOMAIN deliverer = Deliverers
      /\ me \in [stage : {"idle", "admit", "project", "complete", "retry", "fail"},
                 attempt : 0..MaxProcessings, next : Workflows]
  BY <1>1, EventFacts, WorkerFacts DEF ProcessingRow, Event, DeliveryTypeOK
<1>3. value \in [version : 0..MaxVersion, phase : Phases, attempt : 0..MaxProcessings]
  BY <1>2, DeliveryAssumption DEF FirstResult, Phases
<1>4. /\ saved' \in [Workflows -> [version : 0..MaxVersion, phase : Phases, attempt : 0..MaxProcessings]]
      /\ outcome \in {"inserted", "superseded"} => saved'[w] = value
      /\ outcome \notin {"inserted", "superseded"} => saved' = saved
      /\ \A u \in Workflows : u # w => saved'[u] = saved[u]
  BY <1>1, <1>2, <1>3, StoredFacts
<1>5. saved[w].version # 0 => saved[w].attempt # me.attempt
  <2>1. \A n \in Nat : n >= n
    OBVIOUS
  <2>2. w >= w
    BY <1>2, <2>1
  <2> QED
    BY <1>2, <2>2 DEF NotMine
<1>6. /\ outcome \in {"inserted", "conflict"}
      /\ outcome = "inserted" <=> saved[w].version = 0
  <2>1. /\ outcome \in {"inserted", "conflict", "unchanged", "superseded"}
        /\ outcome = "inserted" => saved[w].version = 0
        /\ outcome # "inserted" => saved[w].version # 0
        /\ outcome = "superseded" => saved[w].attempt = me.attempt
        /\ outcome = "unchanged" => saved[w].attempt = me.attempt
    BY OutcomeFacts
  <2> QED
    BY <1>5, <2>1
<1>7. value.version = 1 /\ value.attempt = me.attempt
  BY DEF FirstResult
<1> HIDE DEF value, outcome
<1>8. /\ \A u \in Workflows : saved[u].version # 0 => saved'[u] = saved[u]
      /\ \A u \in Workflows : saved[u].version = 0 /\ saved'[u].version # 0 =>
            u = w /\ saved'[u].attempt = me.attempt
      /\ outcome = "inserted" => saved'[w].version # 0
  BY <1>4, <1>6, <1>7
<1>9. SubjectRows'
  <2>1. \A u \in Workflows : /\ saved'[u].version # 0 => saved'[u].attempt \in 1 .. delivery.attempts
                             /\ saved'[u].attempt # 0 => saved'[u].version # 0
    <3>1. CASE outcome = "inserted"
      BY <1>2, <1>4, <1>7, <3>1 DEF DeliveryInv, SubjectRows
    <3>2. CASE outcome = "conflict"
      BY <1>4, <3>2 DEF DeliveryInv, SubjectRows
    <3> QED
      BY <1>6, <3>1, <3>2
  <2>2. \A p \in Projectors : projector[p].workflow # 0 =>
          saved'[projector[p].workflow].version # 0 /\ projector[p].version # 0
    BY <1>1, <1>8 DEF DeliveryInv, SubjectRows, DeliveryTypeOK
  <2> QED
    BY <1>1, <2>1, <2>2 DEF SubjectRows
<1>10. ConclusionsEarned'
  <2>1. \A u \in Event : saved[u].version # 0 => saved'[u] = saved[u]
    BY <1>2, <1>8
  <2>2. \A u \in Event : saved[u].attempt # 0 => saved[u].version # 0
    BY <1>2 DEF DeliveryInv, SubjectRows
  <2>3. CASE delivery.state = "completed"
    BY <1>1, <1>2, <2>1, <2>3 DEF DeliveryInv, ConclusionsEarned
  <2>4. CASE delivery.state = "failed"
    <3>1. PICK u \in Event : saved[u].attempt \in 1 .. (delivery.attempts - 1)
      BY <2>4 DEF DeliveryInv, ConclusionsEarned
    <3>2. saved'[u].attempt = saved[u].attempt
      BY <1>2, <2>1, <2>2, <3>1
    <3> QED
      BY <1>1, <1>2, <2>4, <3>1, <3>2 DEF ConclusionsEarned
  <2> QED
    BY <1>1, <2>3, <2>4 DEF ConclusionsEarned
<1>11. PICK stage \in {"admit", "complete", "fail"}, n \in Event :
         /\ deliverer' = [deliverer EXCEPT ![d].stage = stage, ![d].next = n]
         /\ stage = "fail" <=> outcome = "conflict"
         /\ stage = "admit" => n = w + 1
         /\ stage = "complete" => w + 1 \notin Event
  <2>1. CASE outcome # "conflict" /\ w + 1 \in Event
    BY <1>1, <2>1
  <2>2. \A st : Goto(d, st) => deliverer' = [deliverer EXCEPT ![d].stage = st, ![d].next = w]
    BY <1>2 DEF Goto
  <2>3. CASE outcome = "conflict"
    BY <1>1, <1>2, <2>2, <2>3
  <2>4. CASE outcome # "conflict" /\ w + 1 \notin Event
    BY <1>1, <1>2, <2>2, <2>4
  <2> QED
    BY <2>1, <2>3, <2>4
<1>12. /\ deliverer'[d].stage = stage /\ deliverer'[d].next = n /\ deliverer'[d].attempt = me.attempt
       /\ deliverer'[d] \in [stage : {"idle", "admit", "project", "complete", "retry", "fail"},
                             attempt : 0..MaxProcessings, next : Workflows]
       /\ \A e \in Deliverers : e # d => deliverer'[e] = deliverer[e]
       /\ deliverer' = [e \in Deliverers |-> deliverer'[e]]
  BY <1>2, <1>11
<1>13. DeliveryTypeOK'
  <2>1. deliverer' \in [Deliverers -> [stage : {"idle", "admit", "project", "complete", "retry", "fail"},
                                       attempt : 0..MaxProcessings, next : Workflows]]
    BY <1>1, <1>12 DEF DeliveryTypeOK
  <2> QED
    BY <1>1, <1>4, <2>1 DEF DeliveryTypeOK
<1>14. \A e \in Deliverers : e # d => ProcessingRow(e)'
  <2>1. ASSUME NEW e \in Deliverers, e # d, Processing(e) PROVE Remain(deliverer[e].attempt)
    <3>1. deliverer[e].attempt # me.attempt
      BY <1>1, <2>1 DEF ProcessingRow
    <3> QED
      BY <1>1, <1>8, <3>1 DEF Remain
  <2> QED
    BY <1>1, <1>12, <2>1, OthersKept
<1>15. ProcessingRow(d)'
  <2>1. ASSUME NEW e \in Deliverers, Processing(e)', deliverer'[e].attempt = me.attempt PROVE e = d
    BY <1>1, <1>12, <2>1 DEF ProcessingRow, Processing
  <2>2. CASE stage = "fail"
    <3>1. saved'[w].version # 0 /\ saved'[w].attempt # me.attempt
      BY <1>2, <1>5, <1>6, <1>8, <1>11, <2>2
    <3> QED
      BY <1>1, <1>2, <1>12, <2>1, <2>2, <3>1 DEF ProcessingRow
  <2>3. outcome = "inserted" => \A u \in Event : u < w + 1 => version[u] # 0 /\ saved'[u].version # 0
    <3>1. \A u \in Event : u < w + 1 => u = w \/ u < w
      <4>1. \A u, v \in Nat : u < v + 1 => u = v \/ u < v
        OBVIOUS
      <4>2. w \in Nat /\ Event \subseteq Nat
        BY <1>2
      <4> QED
        BY <4>1, <4>2
    <3> QED
      BY <1>2, <1>8, <3>1 DEF DoneBefore
  <2>4. CASE stage = "admit"
    <3>1. \A u \in Event : u < n => version[u] # 0 /\ saved'[u].version # 0
      BY <1>6, <1>11, <2>3, <2>4
    <3>2. ASSUME NEW u \in Event, u >= n, saved'[u].version # 0 PROVE saved'[u].attempt # me.attempt
      <4>1. u # w /\ u >= w
        BY <1>2, <1>11, <2>4, <3>2
      <4> QED
        BY <1>2, <1>4, <3>2, <4>1 DEF NotMine
    <3> QED
      BY <1>1, <1>2, <1>12, <2>1, <2>4, <3>1, <3>2 DEF ProcessingRow, DoneBefore, NotMine
  <2>5. CASE stage = "complete"
    <3>1. PICK m \in Workflows : Event = 1 .. m
      BY <1>1, EventFacts
    <3>2. \A u \in Event : u < w + 1
      BY <1>2, <1>11, <2>5, <3>1
    <3>3. \A u \in Event : version[u] # 0 /\ saved'[u].version # 0
      BY <1>6, <1>11, <2>3, <2>5, <3>2
    <3> QED
      BY <1>1, <1>2, <1>12, <2>1, <2>5, <3>3 DEF ProcessingRow
  <2> QED
    BY <2>2, <2>4, <2>5
<1> QED
  BY <1>9, <1>10, <1>13, <1>14, <1>15 DEF DeliveryInv

\* A conclusion is written only under a current claim: by then the workflows
\* are done, or a subject is of an earlier attempt.
LEMMA ConcludeStep ==
  ASSUME DeliveryInv, NEW d \in Deliverers, ConcludeProcessing(d)
  PROVE  DeliveryInv'
<1> DEFINE me == deliverer[d]
<1>1. /\ DeliveryTypeOK /\ ProcessingRow(d) /\ Processing(d) /\ SubjectRows
      /\ me.stage \in {"complete", "retry", "fail"}
      /\ UNCHANGED <<setup, version, phase, saved, projector, faults>>
      /\ deliverer' = [deliverer EXCEPT ![d] = NotProcessing]
      /\ delivery' = IF Current(d) THEN [delivery EXCEPT !.state = Concluded(me.stage), !.live = FALSE]
                     ELSE delivery
  BY DEF DeliveryInv, ConcludeProcessing, Processing
<1>2. CASE ~Current(d)
  <2>1. delivery' = delivery /\ faults' \in 0 .. MaxFaults
    BY <1>1, <1>2 DEF DeliveryTypeOK
  <2> QED
    BY <1>1, <2>1, DropStep
<1>3. CASE Current(d)
  <2>1. /\ delivery.attempts = me.attempt /\ delivery.attempts \in Nat
        /\ delivery \in [state : {"pending", "claimed", "completed", "failed"},
                         attempts : 0..MaxProcessings, live : BOOLEAN]
        /\ Event' = Event /\ Event \subseteq Workflows
    BY <1>1, <1>3, EventFacts, WorkerFacts DEF Current, Owns, Event
  <2>2. /\ delivery' \in [state : {"pending", "claimed", "completed", "failed"},
                          attempts : 0..MaxProcessings, live : BOOLEAN]
        /\ delivery'.attempts = delivery.attempts /\ ~delivery'.live
        /\ delivery'.state = Concluded(me.stage)
    <3>1. Concluded(me.stage) \in {"pending", "completed", "failed"}
      BY <1>1 DEF Concluded
    <3> QED
      BY <1>1, <1>3, <2>1, <3>1, Zenon
  <2>3. deliverer'[d] = NotProcessing /\ \A e \in Deliverers : e # d => deliverer'[e] = deliverer[e]
    BY <1>1 DEF DeliveryTypeOK
  <2>4. ~Processing(d)'
    BY <2>3 DEF Processing, NotProcessing
  <2>5. DeliveryTypeOK'
    <3>1. NotProcessing \in [stage : {"idle", "admit", "project", "complete", "retry", "fail"},
                             attempt : 0..MaxProcessings, next : Workflows]
      BY <1>1, EventFacts, WorkerFacts DEF NotProcessing
    <3> QED
      BY <1>1, <2>2, <3>1 DEF DeliveryTypeOK
  <2>6. SubjectRows'
    BY <1>1, <2>2 DEF SubjectRows
  <2>7. ConclusionsEarned'
    <3>1. ASSUME Concluded(me.stage) = "completed"
          PROVE  \A w \in Event : version[w] # 0 /\ saved[w].version # 0
      <4>1. me.stage = "complete"
        BY <1>1, <3>1 DEF Concluded
      <4> QED
        BY <1>1, <4>1 DEF ProcessingRow
    <3>2. ASSUME Concluded(me.stage) = "failed"
          PROVE  \E w \in Event : saved[w].attempt \in 1 .. (delivery.attempts - 1)
      <4>1. me.stage = "fail"
        BY <1>1, <3>2 DEF Concluded
      <4>2. PICK w \in Event : saved[w].version # 0 /\ saved[w].attempt # me.attempt
        BY <1>1, <1>3, <4>1 DEF ProcessingRow
      <4>3. saved[w].attempt \in 1 .. delivery.attempts /\ saved[w].attempt # delivery.attempts
        BY <1>1, <2>1, <4>2 DEF SubjectRows
      <4> QED
        BY <2>1, <4>3
    <3> QED
      BY <1>1, <2>1, <2>2, <3>1, <3>2 DEF ConclusionsEarned
  <2>8. ASSUME NEW e \in Deliverers, e # d PROVE ProcessingRow(e)'
    <3>1. ProcessingRow(e) /\ Remain(deliverer[e].attempt)
      BY <1>1, StillRemain DEF DeliveryInv
    <3>2. ~Current(e)'
      BY <2>2 DEF Current
    <3>3. \A f \in Deliverers :
            Processing(f)' => Processing(f) /\ deliverer'[f].attempt = deliverer[f].attempt
      BY <2>3, <2>4 DEF Processing
    <3> QED
      BY <1>1, <2>1, <2>2, <2>3, <2>8, <3>1, <3>2, <3>3, WorkerKept
  <2> QED
    BY <2>4, <2>5, <2>6, <2>7, <2>8 DEF DeliveryInv, ProcessingRow
<1> QED
  BY <1>2, <1>3

\* Workers that do not move, while runs and subjects only come to be.
LEMMA WorkersStay ==
  ASSUME DeliveryInv, UNCHANGED <<setup, delivery, deliverer>>, \A a : Remain(a)
  PROVE  \A e \in Deliverers : ProcessingRow(e)'
<1> SUFFICES ASSUME NEW e \in Deliverers PROVE ProcessingRow(e)'
  OBVIOUS
<1>1. DeliveryTypeOK /\ ProcessingRow(e) /\ delivery.attempts \in Nat
  BY WorkerFacts DEF DeliveryInv
<1>2. Current(e)' => Current(e)
  BY DEF Current, Owns
<1>3. \A f \in Deliverers : Processing(f)' => Processing(f) /\ deliverer'[f].attempt = deliverer[f].attempt
  BY DEF Processing
<1> QED
  BY <1>1, <1>2, <1>3, WorkerKept

\* A run that changes keeps its version and its phase in range.
LEMMA AdvanceStep ==
  ASSUME DeliveryInv, NEW w \in Event, AdvanceRun(w)
  PROVE  DeliveryInv'
<1>1. /\ DeliveryTypeOK /\ w \in Workflows /\ version[w] # 0
      /\ UNCHANGED <<setup, delivery, deliverer, saved, projector, faults>>
  BY EventFacts DEF DeliveryInv, AdvanceRun
<1>2. MaxVersion \in Nat /\ version \in [Workflows -> 0 .. MaxVersion] /\ phase \in [Workflows -> Phases]
  BY <1>1, DeliveryAssumption DEF DeliveryTypeOK
<1>3. PICK p \in Phases, v \in {version[w], version[w] + 1} :
        v <= MaxVersion /\ phase' = [phase EXCEPT ![w] = p] /\ version' = [version EXCEPT ![w] = v]
  BY DEF AdvanceRun
<1>4. version' \in [Workflows -> 0 .. MaxVersion] /\ \A u \in Workflows : version[u] # 0 => version'[u] # 0
  BY <1>1, <1>2, <1>3
<1>5. DeliveryTypeOK'
  <2>1. phase' \in [Workflows -> Phases]
    BY <1>2, <1>3
  <2> QED
    BY <1>1, <1>2, <1>4, <2>1 DEF DeliveryTypeOK
<1>6. \A a : Remain(a)
  BY <1>1, <1>4, StillRemain
<1> QED
  BY <1>1, <1>4, <1>5, <1>6, SubjectsKept, WorkersStay DEF DeliveryInv

\* A projection service takes a subject that is behind its run.
LEMMA ObserveStep ==
  ASSUME DeliveryInv, NEW p \in Projectors, Observe(p)
  PROVE  DeliveryInv'
<1>1. PICK w \in Event :
        /\ Behind(w)
        /\ projector' = [projector EXCEPT ![p] =
                [workflow |-> w, version |-> version[w], phase |-> phase[w]]]
  BY DEF Observe
<1>2. /\ DeliveryTypeOK /\ w \in Workflows /\ w # 0
      /\ UNCHANGED <<setup, delivery, deliverer, version, phase, saved, faults>>
  BY EventFacts DEF DeliveryInv, Observe
<1>3. /\ saved[w].version # 0 /\ version[w] # 0 /\ version[w] \in -1 .. MaxVersion /\ phase[w] \in Phases
  <2>1. saved[w].version \in 0 .. MaxVersion /\ version[w] \in 0 .. MaxVersion /\ MaxVersion \in Nat
    BY <1>2, DeliveryAssumption DEF DeliveryTypeOK
  <2>2. saved[w].version # 0 /\ version[w] > saved[w].version
    BY <1>1 DEF Behind
  <2>3. version[w] # 0 /\ version[w] \in -1 .. MaxVersion
    BY <2>1, <2>2
  <2> QED
    BY <1>2, <2>2, <2>3 DEF DeliveryTypeOK
<1>4. DeliveryTypeOK'
  <2>1. [workflow |-> w, version |-> version[w], phase |-> phase[w]] \in
            [workflow : Workflows \cup {0}, version : -1..MaxVersion, phase : Phases]
    BY <1>2, <1>3
  <2> QED
    BY <1>1, <1>2, <2>1 DEF DeliveryTypeOK
<1>5. SubjectRows'
  BY <1>1, <1>2, <1>3 DEF DeliveryInv, SubjectRows, DeliveryTypeOK
<1>6. ConclusionsEarned'
  BY <1>2 DEF DeliveryInv, ConclusionsEarned, Event
<1>7. \A a : Remain(a)
  BY <1>2, StillRemain
<1> QED
  BY <1>2, <1>4, <1>5, <1>6, <1>7, WorkersStay DEF DeliveryInv

\* A projection replaces a result of the same subject by a later one.
LEMMA ReconcileStep ==
  ASSUME DeliveryInv, NEW p \in Projectors, Reconcile(p)
  PROVE  DeliveryInv'
<1> DEFINE o == projector[p]
           w == o.workflow
           subject == saved[w].attempt
           outcome == SaveOutcome(w, subject, o.version, o.phase)
           value == [version |-> o.version, phase |-> o.phase, attempt |-> subject]
<1>1. /\ DeliveryTypeOK /\ w # 0
      /\ Stored(w, outcome, value)
      /\ projector' = [projector EXCEPT ![p] = IF outcome = "conflict" THEN Stopped ELSE Unobserved]
      /\ UNCHANGED <<setup, delivery, deliverer, version, phase, faults>>
  BY DEF DeliveryInv, Reconcile
<1>2. /\ o \in [workflow : Workflows \cup {0}, version : -1..MaxVersion, phase : Phases]
      /\ w \in Workflows /\ saved[w].version # 0 /\ o.version # 0
      /\ saved[w] \in [version : 0..MaxVersion, phase : Phases, attempt : 0..MaxProcessings]
      /\ Event' = Event /\ Event \subseteq Workflows /\ MaxVersion \in Nat
  BY <1>1, EventFacts, DeliveryAssumption DEF DeliveryInv, SubjectRows, DeliveryTypeOK, Event
<1>3. /\ outcome \in {"conflict", "unchanged", "superseded"}
      /\ outcome = "superseded" => ~(saved[w].version >= o.version)
  BY <1>2, OutcomeFacts
<1>4. outcome = "superseded" => o.version \in 1 .. MaxVersion
  <2>1. saved[w].version \in 0 .. MaxVersion /\ o.version \in -1 .. MaxVersion
    BY <1>2
  <2> QED
    BY <1>2, <1>3, <2>1
<1>5. /\ saved' \in [Workflows -> [version : 0..MaxVersion, phase : Phases, attempt : 0..MaxProcessings]]
      /\ \A u \in Workflows : u # w => saved'[u] = saved[u]
      /\ saved'[w].version # 0 /\ saved'[w].attempt = saved[w].attempt
  <2>1. CASE outcome = "superseded"
    <3>1. value \in [version : 0..MaxVersion, phase : Phases, attempt : 0..MaxProcessings]
      BY <1>2, <1>4, <2>1
    <3>2. value.version # 0 /\ value.attempt = saved[w].attempt
      BY <1>2
    <3> QED
      BY <1>1, <1>2, <2>1, <3>1, <3>2, StoredFacts
  <2>2. CASE outcome # "superseded"
    <3>1. saved' = saved
      BY <1>1, <1>3, <2>2 DEF Stored
    <3> QED
      BY <1>1, <1>2, <3>1 DEF DeliveryTypeOK
  <2> QED
    BY <2>1, <2>2
<1> HIDE DEF outcome, value
<1>6. /\ \A u \in Workflows : saved'[u].attempt = saved[u].attempt
      /\ \A u \in Workflows : saved[u].version # 0 <=> saved'[u].version # 0
  BY <1>2, <1>5
<1>7. DeliveryTypeOK'
  <2>1. Stopped \in [workflow : Workflows \cup {0}, version : -1..MaxVersion, phase : Phases]
        /\ Unobserved \in [workflow : Workflows \cup {0}, version : -1..MaxVersion, phase : Phases]
    BY <1>2 DEF Stopped, Unobserved, Phases
  <2> QED
    BY <1>1, <1>5, <2>1 DEF DeliveryTypeOK
<1>8. SubjectRows'
  <2>1. \A u \in Workflows : /\ saved'[u].version # 0 => saved'[u].attempt \in 1 .. delivery.attempts
                             /\ saved'[u].attempt # 0 => saved'[u].version # 0
    BY <1>6 DEF DeliveryInv, SubjectRows
  <2>2. projector'[p].workflow = 0 /\ \A q \in Projectors : q # p => projector'[q] = projector[q]
    BY <1>1 DEF Stopped, Unobserved, DeliveryTypeOK
  <2>3. ASSUME NEW q \in Projectors, projector'[q].workflow # 0
        PROVE  saved'[projector'[q].workflow].version # 0 /\ projector'[q].version # 0
    <3>1. q # p /\ projector'[q] = projector[q]
      BY <2>2, <2>3
    <3>2. projector[q].workflow \in Workflows
      BY <1>1, <2>3, <3>1 DEF DeliveryTypeOK
    <3> QED
      BY <1>6, <2>3, <3>1, <3>2 DEF DeliveryInv, SubjectRows
  <2> QED
    BY <1>1, <2>1, <2>3 DEF SubjectRows
<1>9. ConclusionsEarned'
  BY <1>1, <1>2, <1>6 DEF DeliveryInv, ConclusionsEarned
<1>10. \A a : Remain(a)
  BY <1>1, <1>6 DEF Remain
<1> QED
  BY <1>1, <1>7, <1>8, <1>9, <1>10, WorkersStay DEF DeliveryInv

\* The invariant holds when a delivery is accepted, or has been completed.
LEMMA DeliveryStart == DeliveryInit => DeliveryInv
<1> SUFFICES ASSUME DeliveryInit PROVE DeliveryInv
  OBVIOUS
<1>1. /\ setup \in Setups /\ MaxProcessings \in Nat \ {0} /\ MaxVersion \in Nat \ {0, 1} /\ MaxFaults \in Nat
  BY DeliveryAssumption DEF DeliveryInit
<1>2. PICK n \in Workflows : Event = 1 .. n
  BY <1>1, DeliveryAssumption DEF Event
<1>3. 1 \in Workflows
  <2>1. Workflows = 1 .. Cardinality(Workflows) /\ Cardinality(Workflows) \in Nat
    BY DeliveryAssumption, FS_CardinalityType
  <2>2. n \in 1 .. Cardinality(Workflows)
    BY <2>1
  <2>3. 1 \in 1 .. Cardinality(Workflows)
    BY <2>1, <2>2
  <2> QED
    BY <2>1, <2>3
<1>4. /\ FirstResult(1) \in [version : 0..MaxVersion, phase : Phases, attempt : 0..MaxProcessings]
      /\ Unsaved \in [version : 0..MaxVersion, phase : Phases, attempt : 0..MaxProcessings]
      /\ Unobserved \in [workflow : Workflows \cup {0}, version : -1..MaxVersion, phase : Phases]
      /\ NotProcessing \in [stage : {"idle", "admit", "project", "complete", "retry", "fail"},
                            attempt : 0..MaxProcessings, next : Workflows]
  BY <1>1, <1>3 DEF FirstResult, Unsaved, Unobserved, NotProcessing, Phases
<1>5. DeliveryTypeOK
  <2>1. delivery \in [state : {"pending", "claimed", "completed", "failed"},
                      attempts : 0..MaxProcessings, live : BOOLEAN]
    BY <1>1 DEF DeliveryInit
  <2>2. version \in [Workflows -> 0 .. MaxVersion] /\ phase \in [Workflows -> Phases]
    BY <1>1 DEF DeliveryInit, Phases
  <2> QED
    BY <1>1, <1>4, <2>1, <2>2 DEF DeliveryInit, DeliveryTypeOK
<1>6. Event \subseteq Workflows
  BY <1>5, EventFacts
<1>7. SubjectRows
  BY DEF DeliveryInit, SubjectRows, FirstResult, Unsaved, Unobserved
<1>8. ConclusionsEarned
  BY <1>6 DEF DeliveryInit, ConclusionsEarned, FirstResult
<1>9. \A d \in Deliverers : ProcessingRow(d)
  BY DEF DeliveryInit, ProcessingRow, Processing, NotProcessing
<1> QED
  BY <1>5, <1>7, <1>8, <1>9 DEF DeliveryInv

\* Every step of the delivery keeps its invariant.
LEMMA DeliveryStep ==
  ASSUME DeliveryInv, Silent \/ Saving
  PROVE  DeliveryInv'
<1>1. DeliveryTypeOK /\ setup.deliverers \subseteq Deliverers /\ setup.projectors \subseteq Projectors
  BY EventFacts DEF DeliveryInv
<1>2. faults \in 0 .. MaxFaults /\ MaxFaults \in Nat
  BY <1>1, DeliveryAssumption DEF DeliveryTypeOK
<1>3. Fault => faults' \in 0 .. MaxFaults
  BY <1>2 DEF Fault
<1>4. ASSUME NEW d \in Deliverers, RenewProcessing(d) \/ DropProcessing(d) PROVE DeliveryInv'
  BY <1>2, <1>3, <1>4, DropStep DEF RenewProcessing, DropProcessing
<1>5. ASSUME ExpireProcessing PROVE DeliveryInv'
  BY <1>2, <1>3, <1>5, ExpireStep DEF ExpireProcessing
<1> QED
  BY <1>1, <1>4, <1>5, ClaimStep, AdmitStep, UnavailableStep, ConcludeStep, AdvanceStep, ObserveStep,
     ProjectStep, ReconcileStep DEF Silent, Saving

\* The publication of results leaves the delivery alone.
LEMMA PublishKeepsDelivery ==
  ASSUME DeliveryInv, Publish \/ UNCHANGED deliveryVars
  PROVE  DeliveryInv' /\ UNCHANGED <<setup, delivery, deliverer, version, phase, saved, projector>>
<1>1. faults \in 0 .. MaxFaults /\ MaxFaults \in Nat
  BY DeliveryAssumption DEF DeliveryInv, DeliveryTypeOK
<1>2. Fault => faults' \in 0 .. MaxFaults
  BY <1>1 DEF Fault
<1>3. /\ UNCHANGED <<setup, delivery, deliverer, version, phase, saved, projector>>
      /\ faults' = faults \/ Fault
  <2>1. CASE UNCHANGED deliveryVars
    BY <2>1 DEF deliveryVars
  <2>2. ASSUME NEW p, ClaimResult(p) \/ Postpone(p) \/ Perform(p) \/ Settle(p) \/ Land(p) \/ Lose(p)
        PROVE  UNCHANGED deliveryVars
    BY <2>2 DEF ClaimResult, Postpone, Perform, Settle, Land, Lose
  <2>3. ASSUME NEW p, TimeOut(p) \/ Refuse(p) \/ Abandon(p)
        PROVE  /\ UNCHANGED <<setup, delivery, deliverer, version, phase, saved, projector>>
               /\ faults' = faults \/ Fault
    BY <2>3 DEF TimeOut, Refuse, Abandon
  <2>4. ASSUME NEW w, ExpireResult(w)
        PROVE  /\ UNCHANGED <<setup, delivery, deliverer, version, phase, saved, projector>>
               /\ faults' = faults \/ Fault
    BY <2>4 DEF ExpireResult
  <2> QED
    BY <2>1, <2>2, <2>3, <2>4 DEF Publish, deliveryVars
<1>4. faults' \in 0 .. MaxFaults
  BY <1>1, <1>2, <1>3
<1> QED
  BY <1>3, <1>4, ExpireStep

\* The invariant of the delivery holds whatever the result workers do.
LEMMA DeliveryKept == DeliveryInv /\ [ResultNext]_resultVars => DeliveryInv'
BY DeliveryStep, PublishKeepsDelivery DEF ResultNext, SaveDesired, resultVars

\* An invocation is completed only when each workflow of its event has a run
\* and a result subject, and fails only over a subject that an earlier attempt
\* left behind (complete_processing, fail_processing).
THEOREM Earned == ResultSpec => []ConclusionsEarned
<1>1. ResultInit => DeliveryInv
  BY DeliveryStart DEF ResultInit
<1>2. DeliveryInv => ConclusionsEarned
  BY DEF DeliveryInv
<1> QED
  BY <1>1, <1>2, DeliveryKept, PTL DEF ResultSpec

-----------------------------------------------------------------------------
(* The publication of results.                                             *)

ContType == [state : {"none", "suite", "create", "reconcile", "read", "start", "complete"},
             run : 0 .. MaxChecks]
FailureType == {"none", "attempt-limit", "conflict", "rejected"}
RowType == [state : {"absent", "pending", "claimed", "completed", "failed"},
            attempts : 0 .. MaxPublications, owner : Publishers \cup {Nobody},
            live : BOOLEAN, cont : ContType, binding : 0 .. MaxChecks, failure : FailureType]
OutcomeType == [kind : {"published", "retry", "failed"}, cont : ContType, failure : FailureType]
ClaimType == [stage : {"idle", "claimed", "done"}, workflow : Workflows \cup {0}, phase : Phases,
              state : ContType, binding : 0 .. MaxChecks, outcome : OutcomeType]
RequestType == [workflow : Workflows \cup {0}, op : Mutations \cup {"none"}, run : 0 .. MaxChecks]

PublicationTypes ==
    /\ outbox \in [Workflows -> RowType]
    /\ publisher \in [Publishers -> ClaimType]
    /\ flying \in [Publishers -> RequestType]
    /\ checks \in [Workflows -> Seq(Phases)]
    /\ \A w \in Workflows : Len(checks[w]) <= MaxChecks
    /\ spare \in [Workflows -> Nat]
    /\ late \in [Workflows -> BOOLEAN]

\* Later versions of a run have later phases, and what is observed or desired
\* is not ahead of the run.
NotAhead(x, w) == x.version <= version[w] /\ Rank(x.phase) <= Rank(phase[w])
InOrder(x, y) == x.version < y.version => Rank(x.phase) <= Rank(y.phase)

PhasesInOrder ==
    /\ \A w \in Workflows :
          /\ saved[w].version = 0 => saved[w].phase = "queued"
          /\ NotAhead(saved[w], w)
    /\ \A p \in Projectors : LET o == projector[p] IN
          o.workflow # 0 =>
            /\ NotAhead(o, o.workflow) /\ InOrder(saved[o.workflow], o)
            /\ \A q \in Projectors : projector[q].workflow = o.workflow => InOrder(projector[q], o)

\* A continuation names a Check Run exactly when it is bound to one.
Fits(w, c) ==
    /\ c.run \in 0 .. Len(checks[w])
    /\ c.state \in {"read", "start", "complete"} <=> c.run # 0

\* The phase that an operation asks for has been reached by the desired result,
\* or is the desired one.
Reached(w, op) ==
    /\ op = "start" => Rank(saved[w].phase) >= 2
    /\ op = "complete" => saved[w].phase = "completed"
Desired(w, op) ==
    /\ op = "start" => saved[w].phase = "running"
    /\ op = "complete" => saved[w].phase = "completed"

\* A Check Run shows the desired phase.
Shown(w, run) == late[w] \/ checks[w][run] = saved[w].phase

RowInv(w) ==
    LET row == outbox[w] IN
    /\ row.state # "claimed" => row.owner = Nobody
    /\ row.binding \in 0 .. Len(checks[w])
    /\ Fits(w, row.cont) /\ Desired(w, row.cont.state)
    /\ row.cont # NoCont => row.cont.state # "none" /\ (row.binding # 0 => row.cont.run = row.binding)
    /\ row.state = "absent" => row.cont = NoCont /\ row.binding = 0
    /\ row.state = "completed" => row.binding # 0 /\ Shown(w, row.binding)
    /\ row.failure = "conflict" => Len(checks[w]) > 1

\* What a worker has claimed
ClaimInv(p) ==
    LET me == publisher[p]
        w  == me.workflow
    IN  me.stage = "claimed" =>
            /\ w \in Workflows
            /\ me.state.state # "none" /\ Fits(w, me.state) /\ Reached(w, me.state.state)
            /\ me.binding # 0 => me.state.run = me.binding
            /\ Holds(p) => /\ me.phase = saved[w].phase /\ me.binding = outbox[w].binding
                           /\ Desired(w, me.state.state)

\* What it has made of it, for as long as the claim is its own
OutcomeInv(p) ==
    LET me  == publisher[p]
        w   == me.workflow
        out == me.outcome
    IN  me.stage = "done" =>
            /\ w \in Workflows
            /\ Holds(p) =>
                /\ out.kind # "failed" =>
                      /\ out.cont.state # "none" /\ Fits(w, out.cont) /\ Desired(w, out.cont.state)
                      /\ outbox[w].binding # 0 => out.cont.run = outbox[w].binding
                /\ out.kind = "published" => out.cont.run # 0 /\ Shown(w, out.cont.run)
                /\ out.kind = "failed" /\ out.failure = "conflict" => Len(checks[w]) > 1

\* An abandoned request
FlightInv(p) ==
    LET r == flying[p]
    IN  r # NoRequest =>
            /\ r.workflow \in Workflows /\ r.op \in Mutations
            /\ r.op # "create" => r.run \in 1 .. Len(checks[r.workflow])
            /\ Reached(r.workflow, r.op)

\* No Check Run is ahead of the desired result.
ChecksBehind(w) ==
    \A i \in 1 .. Len(checks[w]) : Rank(checks[w][i]) <= Rank(saved[w].phase)

\* Creates that may still come: in the air, by workers that have lost their
\* claim, and by the publication that is under way.
FlyingCreates(w) == {p \in Publishers : flying[p].op = "create" /\ flying[p].workflow = w}

StrayCreates(w) ==
    {p \in Publishers : /\ publisher[p].stage = "claimed" /\ publisher[p].workflow = w
                        /\ publisher[p].state.state = "create" /\ ~Holds(p)}

MayCreate(w, c) ==
    \/ c.state \in {"suite", "create"}
    \/ c.state = "reconcile" /\ checks[w] = << >> /\ FlyingCreates(w) = {}

UnderWay(w) ==
    \/ outbox[w].state \in {"absent", "pending"} /\ MayCreate(w, RecoverState(outbox[w]))
    \/ \E p \in Publishers :
            /\ Holds(p) /\ publisher[p].workflow = w
            /\ \/ publisher[p].stage = "claimed" /\ MayCreate(w, publisher[p].state)
               \/ /\ publisher[p].stage = "done" /\ publisher[p].outcome.kind = "retry"
                  /\ MayCreate(w, publisher[p].outcome.cont)

Due(w) == IF UnderWay(w) THEN 1 ELSE 0

CreatesBounded(w) ==
    Len(checks[w]) + Cardinality(FlyingCreates(w)) + Cardinality(StrayCreates(w)) + Due(w) <= 1 + spare[w]

PublicationInv ==
    /\ DeliveryInv
    /\ PublicationTypes
    /\ PhasesInOrder
    /\ \A w \in Workflows : RowInv(w) /\ ChecksBehind(w) /\ CreatesBounded(w)
    /\ \A p \in Publishers : ClaimInv(p) /\ OutcomeInv(p) /\ FlightInv(p)

\* The values that the rows, the claims and the requests take.
LEMMA ContTypes ==
  /\ NoCont \in ContType /\ EnsureSuite \in ContType /\ SuiteBound \in ContType /\ ReconcileRun \in ContType
  /\ \A run \in 0 .. MaxChecks :
        RunBound(run) \in ContType /\ StartRun(run) \in ContType /\ CompleteRun(run) \in ContType
BY PublicationAssumption DEF ContType, At, NoCont, EnsureSuite, SuiteBound, ReconcileRun, RunBound,
   StartRun, CompleteRun

\* Every outcome the adapter returns is one.
LEMMA OutcomeTypes ==
  /\ \A c \in ContType : Retry(c) \in OutcomeType
  /\ \A run \in 0 .. MaxChecks : Published(run) \in OutcomeType
  /\ \A f \in FailureType : Failed(f) \in OutcomeType
<1> HIDE DEF ContType
<1>1. "none" \in FailureType
  BY DEF FailureType
<1> QED
  BY <1>1, ContTypes DEF OutcomeType, Retry, Published, Failed

\* The rows the store writes.
LEMMA RowTypes ==
  /\ \A s \in {"absent", "pending", "claimed", "completed", "failed"} : Row(s) \in RowType
  /\ \A row \in RowType : Renewed(row) \in RowType
  /\ \A row \in RowType : \A f \in FailureType : FailedRow(row, f) \in RowType
<1>1. "none" \in FailureType /\ 0 \in 0 .. MaxChecks /\ 0 \in 0 .. MaxPublications
  BY PublicationAssumption DEF FailureType
<1>2. \A s \in {"absent", "pending", "claimed", "completed", "failed"} : Row(s) \in RowType
  BY <1>1, ContTypes DEF RowType, Row
<1> QED
  BY <1>2, <1>1, ContTypes DEF RowType, Row, Renewed, FailedRow

\* A worker without a claim, and no request in the air.
LEMMA ClaimTypes == Unclaimed \in ClaimType /\ NoRequest \in RequestType
<1>1. Retry(NoCont) \in OutcomeType /\ NoCont \in ContType /\ 0 \in 0 .. MaxChecks
  BY OutcomeTypes, ContTypes, PublicationAssumption
<1> QED
  BY <1>1 DEF Unclaimed, NoRequest, ClaimType, RequestType, Phases

\* The ranks of the phases.
LEMMA Ranks ==
  /\ Rank("queued") = 1 /\ Rank("running") = 2 /\ Rank("completed") = 3
  /\ \A p \in Phases : Rank(p) \in 1 .. 3
  /\ \A p, q \in Phases : Rank(p) = Rank(q) => p = q
<1>1. Rank("queued") = 1 /\ Rank("running") = 2 /\ Rank("completed") = 3
  BY DEF Rank
<1> QED
  BY <1>1 DEF Phases

LEMMA RankReflexive == \A p \in Phases : Rank(p) <= Rank(p)
BY Ranks

\* What a request does to the Check Runs of a subject: a create appends one,
\* the others set the phase that the desired result has reached.
Took(w, op, run, runs) ==
    /\ runs \in Seq(Phases)
    /\ op = "create" => Len(runs) = Len(checks[w]) + 1
    /\ op # "create" => Len(runs) = Len(checks[w])
    /\ op \notin Mutations => runs = checks[w]
    /\ op \notin {"start", "complete"} => \A i \in 1 .. Len(checks[w]) : runs[i] = checks[w][i]
    /\ op = "start" => runs[run] = "running"
    /\ op = "complete" => runs[run] = "completed"
    /\ \A i \in 1 .. Len(runs) : Rank(runs[i]) <= Rank(saved[w].phase)

RunKnown(w, op, run) == op \in {"start", "complete"} => run \in 1 .. Len(checks[w])

\* What a request does to the Check Runs of its subject.
LEMMA AppliedTook ==
  ASSUME NEW w \in Workflows, checks[w] \in Seq(Phases), saved[w].phase \in Phases, ChecksBehind(w),
         NEW op, NEW run, Reached(w, op), RunKnown(w, op, run)
  PROVE  Took(w, op, run, Applied(checks[w], op, run))
<1>r. PICK runs : runs = Applied(checks[w], op, run)
  OBVIOUS
<1>k. op \in {"start", "complete"} => run \in 1 .. Len(checks[w])
  BY DEF RunKnown
<1> SUFFICES Took(w, op, run, runs)
  BY <1>r
<1> SUFFICES /\ runs \in Seq(Phases)
             /\ op = "create" => Len(runs) = Len(checks[w]) + 1
             /\ op # "create" => Len(runs) = Len(checks[w])
             /\ op \notin Mutations => runs = checks[w]
             /\ op \notin {"start", "complete"} => \A i \in 1 .. Len(checks[w]) : runs[i] = checks[w][i]
             /\ op = "start" => runs[run] = "running"
             /\ op = "complete" => runs[run] = "completed"
             /\ \A i \in 1 .. Len(runs) : Rank(runs[i]) <= Rank(saved[w].phase)
  BY DEF Took
<1> DEFINE s == checks[w]
<1>0. runs = Applied(s, op, run)
  BY <1>r
<1>1. s \in Seq(Phases) /\ Len(s) \in Nat /\ \A i \in 1 .. Len(s) : Rank(s[i]) <= Rank(saved[w].phase)
  BY DEF ChecksBehind
<1>2. "queued" \in Phases /\ "running" \in Phases /\ "completed" \in Phases
  BY DEF Phases
<1>3. Rank("queued") <= Rank(saved[w].phase)
  BY Ranks
<1> HIDE DEF s
<1>4. CASE op = "create"
  <2>1. Applied(s, op, run) = Append(s, "queued")
    BY <1>4 DEF Applied
  <2>2. /\ Append(s, "queued") \in Seq(Phases)
        /\ Len(Append(s, "queued")) = Len(s) + 1
        /\ \A i \in 1 .. Len(s) : Append(s, "queued")[i] = s[i]
        /\ Append(s, "queued")[Len(s) + 1] = "queued"
    BY <1>1, <1>2, AppendProperties
  <2>3. ASSUME NEW i \in 1 .. (Len(s) + 1) PROVE Rank(Append(s, "queued")[i]) <= Rank(saved[w].phase)
    <3>1. CASE i = Len(s) + 1
      BY <1>3, <2>2, <3>1
    <3>2. CASE i # Len(s) + 1
      <4>1. i \in 1 .. Len(s)
        BY <1>1, <3>2
      <4> QED
        BY <1>1, <2>2, <4>1
    <3> QED
      BY <3>1, <3>2
  <2> QED
    BY <1>0, <1>4, <2>1, <2>2, <2>3 DEF s, Mutations
<1>5. ASSUME NEW e \in {"running", "completed"}, run \in 1 .. Len(s), Rank(e) <= Rank(saved[w].phase)
      PROVE  /\ [s EXCEPT ![run] = e] \in Seq(Phases)
             /\ Len([s EXCEPT ![run] = e]) = Len(s)
             /\ [s EXCEPT ![run] = e][run] = e
             /\ \A i \in 1 .. Len(s) : Rank([s EXCEPT ![run] = e][i]) <= Rank(saved[w].phase)
  <2>1. e \in Phases
    BY <1>2
  <2>2. /\ [s EXCEPT ![run] = e] \in Seq(Phases)
        /\ Len([s EXCEPT ![run] = e]) = Len(s)
        /\ \A j \in 1 .. Len(s) : [s EXCEPT ![run] = e][j] = IF j = run THEN e ELSE s[j]
    BY <1>1, <1>5, <2>1, ExceptSeq
  <2>3. \A i \in 1 .. Len(s) : Rank([s EXCEPT ![run] = e][i]) <= Rank(saved[w].phase)
    BY <1>1, <1>5, <2>2
  <2> QED
    BY <1>5, <2>2, <2>3
<1>6. CASE op = "start"
  <2>1. Applied(s, op, run) = [s EXCEPT ![run] = "running"]
    BY <1>6 DEF Applied
  <2>2. run \in 1 .. Len(s) /\ Rank("running") <= Rank(saved[w].phase)
    BY <1>k, <1>6, Ranks DEF s, Reached
  <2> QED
    BY <1>0, <1>5, <1>6, <2>1, <2>2 DEF s, Mutations
<1>7. CASE op = "complete"
  <2>1. Applied(s, op, run) = [s EXCEPT ![run] = "completed"]
    BY <1>7 DEF Applied
  <2>2. run \in 1 .. Len(s) /\ Rank("completed") <= Rank(saved[w].phase)
    BY <1>k, <1>7, Ranks DEF s, Reached
  <2> QED
    BY <1>0, <1>5, <1>7, <2>1, <2>2 DEF s, Mutations
<1>8. CASE op \notin Mutations
  <2>1. Applied(s, op, run) = s
    BY <1>8 DEF Applied, Mutations
  <2> QED
    BY <1>0, <1>1, <1>8, <2>1 DEF s, Mutations
<1> QED
  BY <1>4, <1>6, <1>7, <1>8 DEF Mutations

\* The same, opened.
LEMMA AppliedFacts ==
  ASSUME NEW w \in Workflows, checks[w] \in Seq(Phases), saved[w].phase \in Phases, ChecksBehind(w),
         NEW op, NEW run, Reached(w, op),
         op \in {"start", "complete"} => run \in 1 .. Len(checks[w]),
         NEW runs, runs = Applied(checks[w], op, run)
  PROVE  /\ runs \in Seq(Phases)
         /\ op = "create" => Len(runs) = Len(checks[w]) + 1
         /\ op # "create" => Len(runs) = Len(checks[w])
         /\ op \notin Mutations => runs = checks[w]
         /\ op \notin {"start", "complete"} => \A i \in 1 .. Len(checks[w]) : runs[i] = checks[w][i]
         /\ op = "start" => runs[run] = "running"
         /\ op = "complete" => runs[run] = "completed"
         /\ \A i \in 1 .. Len(runs) : Rank(runs[i]) <= Rank(saved[w].phase)
<1>1. RunKnown(w, op, run)
  BY DEF RunKnown
<1>2. Took(w, op, run, runs)
  BY <1>1, AppliedTook
<1> QED
  BY <1>2 DEF Took

\* A row that stays, while its subject's Check Runs become more.
LEMMA RowKept ==
  ASSUME NEW w \in Workflows, RowInv(w), outbox'[w] = outbox[w], saved'[w] = saved[w],
         Len(checks[w]) \in Nat, Len(checks'[w]) \in Nat, Len(checks[w]) <= Len(checks'[w]),
         outbox[w].state = "completed" => Shown(w, outbox[w].binding)'
  PROVE  RowInv(w)'
<1> DEFINE row == outbox[w]
<1>1. /\ row.binding \in 0 .. Len(checks'[w]) /\ row.cont.run \in 0 .. Len(checks'[w])
      /\ row.failure = "conflict" => Len(checks'[w]) > 1
  <2>1. /\ row.binding \in 0 .. Len(checks[w]) /\ row.cont.run \in 0 .. Len(checks[w])
        /\ row.failure = "conflict" => Len(checks[w]) > 1
    BY DEF RowInv, Fits
  <2> QED
    BY <2>1
<1> QED
  BY <1>1 DEF RowInv, Fits, Desired

\* A subject's later desired results have later phases.
LEMMA ReachedKept ==
  ASSUME NEW w \in Workflows, NEW op, Reached(w, op), saved[w].phase \in Phases, saved'[w].phase \in Phases,
         Rank(saved[w].phase) <= Rank(saved'[w].phase)
  PROVE  Reached(w, op)'
<1>1. Rank(saved[w].phase) \in 1 .. 3 /\ Rank(saved'[w].phase) \in 1 .. 3 /\ Rank("completed") = 3
  BY Ranks
<1>2. op = "start" => Rank(saved'[w].phase) >= 2
  BY <1>1 DEF Reached
<1>3. op = "complete" => Rank(saved'[w].phase) = Rank("completed")
  BY <1>1 DEF Reached
<1>4. "completed" \in Phases
  BY DEF Phases
<1> QED
  BY <1>2, <1>3, <1>4, Ranks DEF Reached

\* A claim that stays, while its subject moves on.
LEMMA ClaimKept ==
  ASSUME NEW p \in Publishers, ClaimInv(p), publisher'[p] = publisher[p],
         \A w \in Workflows : /\ Len(checks[w]) \in Nat /\ Len(checks'[w]) \in Nat
                              /\ Len(checks[w]) <= Len(checks'[w])
                              /\ saved[w].phase \in Phases /\ saved'[w].phase \in Phases
                              /\ Rank(saved[w].phase) <= Rank(saved'[w].phase),
         Claimed(p) /\ Holds(p)' =>
            /\ Holds(p) /\ saved'[publisher[p].workflow].phase = saved[publisher[p].workflow].phase
            /\ outbox'[publisher[p].workflow].binding = outbox[publisher[p].workflow].binding
  PROVE  ClaimInv(p)'
<1> DEFINE me == publisher[p]
           w == me.workflow
<1> SUFFICES ASSUME me.stage = "claimed" PROVE ClaimInv(p)'
  BY DEF ClaimInv
<1>1. /\ w \in Workflows
      /\ me.state.state # "none" /\ Fits(w, me.state) /\ Reached(w, me.state.state)
      /\ me.binding # 0 => me.state.run = me.binding
  BY DEF ClaimInv
<1>2. Reached(w, me.state.state)'
  BY <1>1, ReachedKept
<1>3. me.state.run \in 0 .. Len(checks'[w])
  <2>1. me.state.run \in 0 .. Len(checks[w]) /\ Len(checks[w]) \in Nat /\ Len(checks'[w]) \in Nat
        /\ Len(checks[w]) <= Len(checks'[w])
    BY <1>1 DEF Fits
  <2> QED
    BY <2>1
<1>4. Holds(p)' => /\ me.phase = saved'[w].phase /\ me.binding = outbox'[w].binding
                   /\ Desired(w, me.state.state)'
  BY <1>1 DEF ClaimInv, Claimed, Desired
<1> QED
  BY <1>1, <1>2, <1>3, <1>4 DEF ClaimInv, Fits

\* An outcome that waits to be settled.
LEMMA OutcomeKept ==
  ASSUME NEW p \in Publishers, OutcomeInv(p), publisher'[p] = publisher[p],
         \A w \in Workflows : /\ Len(checks[w]) \in Nat /\ Len(checks'[w]) \in Nat
                              /\ Len(checks[w]) <= Len(checks'[w]),
         publisher[p].stage = "done" /\ Holds(p)' =>
            LET w == publisher[p].workflow
                out == publisher[p].outcome
            IN  /\ Holds(p) /\ saved'[w].phase = saved[w].phase
                /\ outbox'[w].binding = outbox[w].binding
                /\ out.kind = "published" => Shown(w, out.cont.run)'
  PROVE  OutcomeInv(p)'
<1> DEFINE me == publisher[p]
           w == me.workflow
           out == me.outcome
<1> SUFFICES ASSUME me.stage = "done" PROVE OutcomeInv(p)'
  BY DEF OutcomeInv
<1>1. w \in Workflows
  BY DEF OutcomeInv
<1> SUFFICES ASSUME Holds(p)' PROVE OutcomeInv(p)'
  BY <1>1 DEF OutcomeInv
<1>2. Holds(p) /\ saved'[w].phase = saved[w].phase /\ outbox'[w].binding = outbox[w].binding
  OBVIOUS
<1>3. out.kind # "failed" => out.cont.run \in 0 .. Len(checks'[w])
  <2>1. out.kind # "failed" => out.cont.run \in 0 .. Len(checks[w])
    BY <1>2 DEF OutcomeInv, Fits
  <2>2. Len(checks[w]) \in Nat /\ Len(checks'[w]) \in Nat /\ Len(checks[w]) <= Len(checks'[w])
    BY <1>1
  <2> QED
    BY <2>1, <2>2
<1>4. out.kind # "failed" =>
        /\ out.cont.state # "none" /\ Fits(w, out.cont)' /\ Desired(w, out.cont.state)'
        /\ outbox'[w].binding # 0 => out.cont.run = outbox'[w].binding
  BY <1>2, <1>3 DEF OutcomeInv, Fits, Desired
<1>5. out.kind = "published" => out.cont.run # 0 /\ Shown(w, out.cont.run)'
  BY <1>2 DEF OutcomeInv
<1>6. out.kind = "failed" /\ out.failure = "conflict" => Len(checks'[w]) > 1
  <2>1. out.kind = "failed" /\ out.failure = "conflict" => Len(checks[w]) > 1
    BY <1>2 DEF OutcomeInv
  <2> QED
    BY <1>1, <2>1
<1> QED
  BY <1>1, <1>4, <1>5, <1>6 DEF OutcomeInv

\* A request in the air.
LEMMA FlightKept ==
  ASSUME NEW p \in Publishers, FlightInv(p), flying'[p] = flying[p],
         \A w \in Workflows : /\ Len(checks[w]) \in Nat /\ Len(checks'[w]) \in Nat
                              /\ Len(checks[w]) <= Len(checks'[w])
                              /\ saved[w].phase \in Phases /\ saved'[w].phase \in Phases
                              /\ Rank(saved[w].phase) <= Rank(saved'[w].phase)
  PROVE  FlightInv(p)'
<1> DEFINE r == flying[p]
<1> SUFFICES ASSUME r # NoRequest PROVE FlightInv(p)'
  BY DEF FlightInv
<1>1. /\ r.workflow \in Workflows /\ r.op \in Mutations /\ Reached(r.workflow, r.op)
      /\ r.op # "create" => r.run \in 1 .. Len(checks[r.workflow])
  BY DEF FlightInv
<1>2. Reached(r.workflow, r.op)'
  BY <1>1, ReachedKept
<1>3. r.op # "create" => r.run \in 1 .. Len(checks'[r.workflow])
  <2>1. Len(checks[r.workflow]) \in Nat /\ Len(checks'[r.workflow]) \in Nat
        /\ Len(checks[r.workflow]) <= Len(checks'[r.workflow])
    BY <1>1
  <2> QED
    BY <1>1, <2>1
<1> QED
  BY <1>1, <1>2, <1>3 DEF FlightInv

-----------------------------------------------------------------------------
(* Creates are accounted for.                                              *)

\* Sets of workers are finite.
LEMMA WorkerSets ==
  ASSUME NEW S \in SUBSET Publishers, NEW T \in SUBSET Publishers
  PROVE  /\ Cardinality(S) \in Nat /\ Cardinality(T) \in Nat
         /\ T \subseteq S => Cardinality(T) <= Cardinality(S)
         /\ \A x : T \subseteq S \cup {x} => Cardinality(T) <= Cardinality(S) + 1
         /\ \A x \in S : T \subseteq S \ {x} => Cardinality(T) + 1 <= Cardinality(S)
<1>1. IsFiniteSet(S) /\ IsFiniteSet(T)
  BY PublicationAssumption, FS_Subset
<1>2. Cardinality(S) \in Nat /\ Cardinality(T) \in Nat
  BY <1>1, FS_CardinalityType
<1>3. T \subseteq S => Cardinality(T) <= Cardinality(S)
  BY <1>1, FS_Subset
<1>4. ASSUME NEW x, T \subseteq S \cup {x} PROVE Cardinality(T) <= Cardinality(S) + 1
  <2>1. IsFiniteSet(S \cup {x}) /\ Cardinality(S \cup {x}) = IF x \in S THEN Cardinality(S) ELSE Cardinality(S) + 1
    BY <1>1, FS_AddElement
  <2>2. Cardinality(T) <= Cardinality(S \cup {x})
    BY <1>4, <2>1, FS_Subset
  <2> QED
    BY <1>2, <2>1, <2>2
<1>5. ASSUME NEW x \in S, T \subseteq S \ {x} PROVE Cardinality(T) + 1 <= Cardinality(S)
  <2>1. IsFiniteSet(S \ {x}) /\ Cardinality(S \ {x}) = Cardinality(S) - 1
    BY <1>1, FS_RemoveElement
  <2>2. Cardinality(T) <= Cardinality(S \ {x})
    BY <1>5, <2>1, FS_Subset
  <2> QED
    BY <1>2, <2>1, <2>2
<1> QED
  BY <1>2, <1>3, <1>4, <1>5

\* The numbers that CreatesBounded adds up.
LEMMA CreateNumbers ==
  ASSUME NEW w
  PROVE  /\ FlyingCreates(w) \in SUBSET Publishers /\ StrayCreates(w) \in SUBSET Publishers
         /\ Cardinality(FlyingCreates(w)) \in Nat /\ Cardinality(StrayCreates(w)) \in Nat
         /\ Due(w) \in 0 .. 1
         /\ FlyingCreates(w)' \in SUBSET Publishers /\ StrayCreates(w)' \in SUBSET Publishers
         /\ Cardinality(FlyingCreates(w)') \in Nat /\ Cardinality(StrayCreates(w)') \in Nat
         /\ Due(w)' \in 0 .. 1
<1>1. /\ FlyingCreates(w) \in SUBSET Publishers /\ StrayCreates(w) \in SUBSET Publishers
      /\ FlyingCreates(w)' \in SUBSET Publishers /\ StrayCreates(w)' \in SUBSET Publishers
  BY DEF FlyingCreates, StrayCreates
<1> QED
  BY <1>1, WorkerSets DEF Due

\* The sum does not grow by more than the allowance.
LEMMA SumKept ==
  ASSUME NEW w, CreatesBounded(w), spare[w] \in Nat, spare'[w] \in Nat,
         Len(checks[w]) \in Nat, Len(checks'[w]) \in Nat,
         Len(checks'[w]) + Cardinality(FlyingCreates(w)') + Cardinality(StrayCreates(w)') + Due(w)' + spare[w]
            <= Len(checks[w]) + Cardinality(FlyingCreates(w)) + Cardinality(StrayCreates(w)) + Due(w) + spare'[w]
  PROVE  CreatesBounded(w)'
<1> DEFINE a == Len(checks[w])
           b == Cardinality(FlyingCreates(w))
           c == Cardinality(StrayCreates(w))
           d == Due(w)
           aa == Len(checks'[w])
           bb == Cardinality(FlyingCreates(w)')
           cc == Cardinality(StrayCreates(w)')
           dd == Due(w)'
<1>1. /\ a \in Int /\ b \in Int /\ c \in Int /\ d \in Int
      /\ aa \in Int /\ bb \in Int /\ cc \in Int /\ dd \in Int
  BY CreateNumbers
<1>2. a + b + c + d <= 1 + spare[w] /\ aa + bb + cc + dd + spare[w] <= a + b + c + d + spare'[w]
  BY DEF CreatesBounded
<1>3. CreatesBounded(w)' <=> aa + bb + cc + dd <= 1 + spare'[w]
  BY DEF CreatesBounded
<1> HIDE DEF a, b, c, d, aa, bb, cc, dd
<1> QED
  BY <1>1, <1>2, <1>3

\* A continuation that may create still may, or could before.
LEMMA MayCreateBefore ==
  ASSUME NEW w, NEW c, MayCreate(w, c)',
         checks'[w] = << >> => checks[w] = << >>,
         FlyingCreates(w) \subseteq FlyingCreates(w)'
  PROVE  MayCreate(w, c)
BY DEF MayCreate

\* A subject that the step does not touch.
LEMMA CreatesUntouched ==
  ASSUME NEW u \in Workflows, CreatesBounded(u), spare[u] \in Nat, Len(checks[u]) \in Nat,
         outbox'[u] = outbox[u], checks'[u] = checks[u], spare'[u] = spare[u],
         \A q \in Publishers : /\ \/ publisher'[q] = publisher[q]
                                  \/ publisher[q].workflow # u /\ publisher'[q].workflow # u
                               /\ \/ flying'[q] = flying[q]
                                  \/ flying[q].workflow # u /\ flying'[q].workflow # u
  PROVE  CreatesBounded(u)'
<1>1. FlyingCreates(u)' = FlyingCreates(u)
  BY DEF FlyingCreates
<1>2. \A q \in Publishers : publisher[q].workflow = u => (Holds(q)' <=> Holds(q))
  BY DEF Holds, Working
<1>3. StrayCreates(u)' = StrayCreates(u)
  BY <1>2 DEF StrayCreates
<1>4. \A c : MayCreate(u, c)' <=> MayCreate(u, c)
  BY <1>1 DEF MayCreate
<1>5. RecoverState(outbox'[u]) = RecoverState(outbox[u])
  OBVIOUS
<1>6. UnderWay(u)' => UnderWay(u)
  BY <1>2, <1>4, <1>5 DEF UnderWay
<1>7. Due(u)' <= Due(u)
  BY <1>6 DEF Due
<1> QED
  BY <1>1, <1>3, <1>7, CreateNumbers, SumKept

\* Claims that are lost, while the worker p, if any, is idle before the step:
\* a holder that was about to create becomes a stray.
LEMMA LostClaims ==
  ASSUME NEW u \in Workflows, NEW p, p \in Publishers => ~Working(p) /\ (Holds(p)' \/ ~Working(p)'),
         \A q \in Publishers : q # p => publisher'[q] = publisher[q]
  PROVE  /\ Cardinality(StrayCreates(u)') <= Cardinality(StrayCreates(u)) + Due(u)
         /\ (\A q \in Publishers : Holds(q) /\ publisher[q].workflow = u => publisher[q].state.state # "create")
                => Cardinality(StrayCreates(u)') <= Cardinality(StrayCreates(u))
<1>1. ASSUME NEW q \in StrayCreates(u)', q \notin StrayCreates(u)
      PROVE  Holds(q) /\ publisher[q].workflow = u /\ publisher[q].state.state = "create" /\ UnderWay(u)
             /\ q = outbox[u].owner
  <2>1. q \in Publishers /\ ~Holds(q)' /\ Working(q)'
    BY <1>1 DEF StrayCreates, Working
  <2>2. q # p /\ publisher'[q] = publisher[q]
    BY <2>1
  <2>3. Holds(q) /\ publisher[q].workflow = u /\ publisher[q].state.state = "create" /\ publisher[q].stage = "claimed"
    BY <1>1, <2>2 DEF StrayCreates
  <2> QED
    BY <2>1, <2>3 DEF UnderWay, MayCreate, Holds
<1>2. CASE StrayCreates(u)' \subseteq StrayCreates(u)
  BY <1>2, CreateNumbers, WorkerSets
<1>3. CASE ~(StrayCreates(u)' \subseteq StrayCreates(u))
  <2>1. UnderWay(u) /\ StrayCreates(u)' \subseteq StrayCreates(u) \cup {outbox[u].owner}
    BY <1>1, <1>3
  <2>2. Due(u) = 1
    BY <2>1 DEF Due
  <2>3. Cardinality(StrayCreates(u)') <= Cardinality(StrayCreates(u)) + 1
    BY <2>1, CreateNumbers, WorkerSets
  <2>4. \E q \in Publishers : Holds(q) /\ publisher[q].workflow = u /\ publisher[q].state.state = "create"
    BY <1>1, <1>3, CreateNumbers
  <2> QED
    BY <2>2, <2>3, <2>4
<1> QED
  BY <1>2, <1>3

\* The types, for the subject and for the worker at hand.
LEMMA SubjectFacts ==
  ASSUME PublicationInv, NEW w \in Workflows
  PROVE  /\ w # 0 /\ 0 \notin Workflows
         /\ outbox[w] \in RowType /\ DOMAIN outbox = Workflows
         /\ checks[w] \in Seq(Phases) /\ Len(checks[w]) \in Nat /\ Len(checks[w]) <= MaxChecks
         /\ saved[w].phase \in Phases /\ spare[w] \in Nat /\ late[w] \in BOOLEAN
         /\ RowInv(w) /\ ChecksBehind(w) /\ CreatesBounded(w)
<1>1. DeliveryTypeOK /\ PublicationTypes
  BY DEF PublicationInv, DeliveryInv
<1>2. 0 \notin Workflows
  BY <1>1, EventFacts
<1>3. saved[w].phase \in Phases
  BY <1>1 DEF DeliveryTypeOK
<1>4. checks[w] \in Seq(Phases)
  BY <1>1 DEF PublicationTypes
<1>5. Len(checks[w]) \in Nat
  BY <1>4
<1>6. /\ outbox[w] \in RowType /\ DOMAIN outbox = Workflows
      /\ Len(checks[w]) <= MaxChecks /\ spare[w] \in Nat /\ late[w] \in BOOLEAN
  BY <1>1, Zenon DEF PublicationTypes
<1> QED
  BY <1>2, <1>3, <1>4, <1>5, <1>6 DEF PublicationInv

\* What the invariant says of one result worker.
LEMMA PublisherFacts ==
  ASSUME PublicationInv, NEW p \in Publishers
  PROVE  /\ publisher[p] \in ClaimType /\ flying[p] \in RequestType
         /\ DOMAIN publisher = Publishers /\ DOMAIN flying = Publishers
         /\ ClaimInv(p) /\ OutcomeInv(p) /\ FlightInv(p)
         /\ publisher[p].stage \in {"idle", "claimed", "done"}
         /\ Working(p) => publisher[p].workflow \in Workflows
<1>1. /\ publisher[p] \in ClaimType /\ flying[p] \in RequestType
      /\ DOMAIN publisher = Publishers /\ DOMAIN flying = Publishers
  BY Zenon DEF PublicationInv, PublicationTypes
<1>2. ClaimInv(p) /\ OutcomeInv(p) /\ FlightInv(p)
  BY DEF PublicationInv
<1>3. publisher[p].stage \in {"idle", "claimed", "done"}
  BY <1>1 DEF ClaimType
<1> QED
  BY <1>1, <1>2, <1>3 DEF ClaimInv, OutcomeInv, Working

\* A claim that its worker holds is the claim on its row, and no other.
LEMMA HolderFacts ==
  ASSUME PublicationInv, NEW p \in Publishers, Holds(p)
  PROVE  /\ publisher[p].workflow \in Workflows
         /\ outbox[publisher[p].workflow].state = "claimed"
         /\ outbox[publisher[p].workflow].owner = p
         /\ \A q \in Publishers : Holds(q) /\ publisher[q].workflow = publisher[p].workflow => q = p
<1>1. publisher[p].workflow \in Workflows /\ outbox[publisher[p].workflow].owner = p
  BY PublisherFacts DEF Holds
<1>2. outbox[publisher[p].workflow].state = "claimed"
  BY <1>1, PublicationAssumption DEF PublicationInv, RowInv
<1> QED
  BY <1>1, <1>2 DEF Holds

\* A worker that ends what it has in hand, or stops working, adds no create: a
\* create that it has performed or left behind is the one it was about to send.
LEMMA WorkerCreates ==
  ASSUME PublicationInv, NEW p \in Publishers, NEW w \in Workflows,
         Working(p), publisher[p].workflow = w,
         publisher'[p].stage \in {"idle", "done"},
         publisher'[p].stage = "done" => publisher'[p].workflow = w,
         publisher'[p].stage = "idle" => publisher'[p].workflow = 0,
         \A q \in Publishers : q # p => publisher'[q] = publisher[q] /\ flying'[q] = flying[q],
         \/ flying'[p] = flying[p]
         \/ flying[p] = NoRequest /\ flying'[p].workflow = w,
         outbox' = outbox, spare' = spare, \A u \in Workflows : u # w => checks'[u] = checks[u],
         Len(checks'[w]) \in Nat, checks'[w] = << >> => checks[w] = << >>,
         NEW had, had <=> \/ publisher[p].stage = "claimed" /\ MayCreate(w, publisher[p].state)
                          \/ /\ publisher[p].stage = "done" /\ publisher[p].outcome.kind = "retry"
                             /\ MayCreate(w, publisher[p].outcome.cont),
         NEW out, out = publisher'[p].outcome,
         NEW has, has <=> publisher'[p].stage = "done" /\ out.kind = "retry" /\ MayCreate(w, out.cont)',
         \/ /\ Len(checks'[w]) = Len(checks[w]) /\ FlyingCreates(w)' = FlyingCreates(w)
            /\ Holds(p) /\ has => had
         \/ /\ publisher[p].stage = "claimed" /\ publisher[p].state.state = "create" /\ ~has
            /\ FlyingCreates(w) \subseteq FlyingCreates(w)'
            /\ Len(checks'[w]) + Cardinality(FlyingCreates(w)')
                 <= Len(checks[w]) + Cardinality(FlyingCreates(w)) + 1
  PROVE  \A u \in Workflows : CreatesBounded(u)'
<1>1. ASSUME NEW u \in Workflows, u # w PROVE CreatesBounded(u)'
  <2>1. /\ CreatesBounded(u) /\ spare[u] \in Nat /\ Len(checks[u]) \in Nat /\ u # 0
        /\ outbox'[u] = outbox[u] /\ checks'[u] = checks[u] /\ spare'[u] = spare[u]
    BY <1>1, SubjectFacts
  <2>2. \/ publisher'[p] = publisher[p]
        \/ publisher[p].workflow # u /\ publisher'[p].workflow # u
    BY <1>1, <2>1
  <2>3. \/ flying'[p] = flying[p]
        \/ flying[p].workflow # u /\ flying'[p].workflow # u
    BY <1>1, <2>1 DEF NoRequest
  <2> QED
    BY <2>1, <2>2, <2>3, CreatesUntouched
<1> DEFINE F == Cardinality(FlyingCreates(w))
           FF == Cardinality(FlyingCreates(w)')
           S == Cardinality(StrayCreates(w))
           SS == Cardinality(StrayCreates(w)')
<1>2. /\ F \in Nat /\ FF \in Nat /\ S \in Nat /\ SS \in Nat /\ Due(w) \in 0 .. 1 /\ Due(w)' \in 0 .. 1
      /\ Len(checks[w]) \in Nat /\ Len(checks'[w]) \in Nat /\ spare[w] \in Nat /\ spare'[w] = spare[w]
      /\ CreatesBounded(w)
  BY CreateNumbers, SubjectFacts
<1>3. FlyingCreates(w) \subseteq FlyingCreates(w)'
  OBVIOUS
<1>4. \A q \in Publishers : q # p => (Holds(q)' <=> Holds(q))
  BY DEF Holds, Working
<1>5. \/ Len(checks'[w]) + FF <= Len(checks[w]) + F /\ SS + Due(w)' <= S + Due(w)
      \/ Len(checks'[w]) + FF <= Len(checks[w]) + F + 1 /\ SS + Due(w)' + 1 <= S + Due(w)
  <2>1. CASE Holds(p)
    <3>1. /\ outbox[w].state = "claimed"
          /\ \A q \in Publishers : Holds(q) /\ publisher[q].workflow = w => q = p
      BY <2>1, HolderFacts
    <3>2. StrayCreates(w)' \subseteq StrayCreates(w)
      BY <1>4 DEF StrayCreates
    <3>3. SS <= S
      BY <3>2, CreateNumbers, WorkerSets
    <3>4. UnderWay(w) <=> had
      BY <2>1, <3>1 DEF UnderWay
    <3>5. UnderWay(w)' => has
      BY <1>4, <3>1 DEF UnderWay
    <3>6. publisher[p].state.state = "create" /\ publisher[p].stage = "claimed" => had
      BY DEF MayCreate
    <3>7. \/ Len(checks'[w]) = Len(checks[w]) /\ FF = F /\ Due(w)' <= Due(w)
          \/ Due(w) = 1 /\ Due(w)' = 0 /\ Len(checks'[w]) + FF <= Len(checks[w]) + F + 1
      BY <2>1, <3>4, <3>5, <3>6 DEF Due
    <3> HIDE DEF F, FF, S, SS
    <3> QED
      BY <1>2, <3>3, <3>7
  <2>2. CASE ~Holds(p)
    <3>1. ~Holds(p)'
      BY <2>2 DEF Holds, Working
    <3>2. UnderWay(w)' => UnderWay(w)
      <4>1. \A c : MayCreate(w, c)' => MayCreate(w, c)
        BY <1>3, MayCreateBefore
      <4>2. outbox'[w] = outbox[w]
        OBVIOUS
      <4> QED
        BY <1>4, <3>1, <4>1, <4>2 DEF UnderWay
    <3>3. StrayCreates(w)' \subseteq StrayCreates(w) \ {p}
      BY <1>4 DEF StrayCreates
    <3>4. SS <= S
      BY <3>3, CreateNumbers, WorkerSets
    <3>5. publisher[p].state.state = "create" /\ publisher[p].stage = "claimed" => p \in StrayCreates(w)
      BY <2>2 DEF StrayCreates
    <3>6. p \in StrayCreates(w) => SS + 1 <= S
      BY <3>3, CreateNumbers, WorkerSets
    <3>7. Due(w)' <= Due(w)
      BY <3>2 DEF Due
    <3>8. \/ Len(checks'[w]) = Len(checks[w]) /\ FF = F
          \/ SS + 1 <= S /\ Len(checks'[w]) + FF <= Len(checks[w]) + F + 1
      BY <3>5, <3>6
    <3> HIDE DEF F, FF, S, SS
    <3> QED
      BY <1>2, <3>4, <3>7, <3>8
  <2> QED
    BY <2>1, <2>2
<1>6. CreatesBounded(w)'
  <2>1. Len(checks'[w]) + FF + SS + Due(w)' + spare[w] <= Len(checks[w]) + F + S + Due(w) + spare[w]
    <3> DEFINE L == Len(checks[w])
               LL == Len(checks'[w])
               D == Due(w)
               DD == Due(w)'
               s == spare[w]
    <3>1. L \in Int /\ LL \in Int /\ F \in Int /\ FF \in Int /\ S \in Int /\ SS \in Int /\ D \in Int /\ DD \in Int /\ s \in Int
      BY <1>2
    <3>2. (LL + FF <= L + F /\ SS + DD <= S + D) \/ (LL + FF <= L + F + 1 /\ SS + DD + 1 <= S + D)
      BY <1>5
    <3> HIDE DEF F, FF, S, SS, L, LL, D, DD, s
    <3>3. LL + FF + SS + DD + s <= L + F + S + D + s
      BY <3>1, <3>2
    <3> QED
      BY <3>3 DEF L, LL, D, DD, s
  <2> QED
    BY <1>2, <2>1, SumKept
<1> QED
  BY <1>1, <1>6

\* A holder that has looked for the Check Run too early may create once more,
\* which the allowance makes room for.
LEMMA HastyCreates ==
  ASSUME PublicationInv, NEW p \in Publishers, NEW w \in Workflows,
         Holds(p), publisher[p].stage = "claimed", publisher[p].workflow = w,
         publisher'[p].stage = "done", publisher'[p].workflow = w,
         \A q \in Publishers : q # p => publisher'[q] = publisher[q],
         \A q \in Publishers : flying'[q] = flying[q],
         outbox' = outbox, \A u \in Workflows : checks'[u] = checks[u],
         spare'[w] = spare[w] + 1, \A u \in Workflows : u # w => spare'[u] = spare[u]
  PROVE  \A u \in Workflows : CreatesBounded(u)'
<1>1. ASSUME NEW u \in Workflows, u # w PROVE CreatesBounded(u)'
  <2>1. /\ CreatesBounded(u) /\ spare[u] \in Nat /\ Len(checks[u]) \in Nat
        /\ outbox'[u] = outbox[u] /\ checks'[u] = checks[u] /\ spare'[u] = spare[u]
    BY <1>1, SubjectFacts
  <2>2. publisher[p].workflow # u /\ publisher'[p].workflow # u
    BY <1>1
  <2> QED
    BY <2>1, <2>2, CreatesUntouched
<1>2. CreatesBounded(w)'
  <2> DEFINE S == Cardinality(StrayCreates(w))
             SS == Cardinality(StrayCreates(w)')
             F == Cardinality(FlyingCreates(w))
             D == Due(w)
             DD == Due(w)'
             L == Len(checks[w])
             s == spare[w]
  <2>1. FlyingCreates(w)' = FlyingCreates(w)
    BY DEF FlyingCreates
  <2>2. \A q \in Publishers : q # p => (Holds(q)' <=> Holds(q))
    BY DEF Holds, Working
  <2>3. StrayCreates(w)' \subseteq StrayCreates(w)
    BY <2>2 DEF StrayCreates
  <2>4. SS <= S
    BY <2>3, CreateNumbers, WorkerSets
  <2>5. /\ S \in Nat /\ SS \in Nat /\ F \in Nat /\ D \in 0 .. 1 /\ DD \in 0 .. 1 /\ L \in Nat /\ s \in Nat
        /\ CreatesBounded(w) /\ checks'[w] = checks[w]
    BY CreateNumbers, SubjectFacts
  <2>6. L + F + SS + DD + s <= L + F + S + D + (s + 1)
    <3> HIDE DEF S, SS, F, D, DD, L, s
    <3> QED
      BY <2>4, <2>5
  <2>7. spare'[w] \in Nat /\ spare[w] \in Nat /\ Len(checks[w]) \in Nat /\ Len(checks'[w]) = Len(checks[w])
    BY <2>5
  <2>8. Len(checks'[w]) + Cardinality(FlyingCreates(w)') + Cardinality(StrayCreates(w)') + Due(w)' + spare[w]
            <= Len(checks[w]) + Cardinality(FlyingCreates(w)) + Cardinality(StrayCreates(w)) + Due(w) + spare'[w]
    BY <2>1, <2>6, <2>7
  <2> QED
    BY <2>5, <2>7, <2>8, SumKept
<1> QED
  BY <1>1, <1>2

-----------------------------------------------------------------------------
(* One request per claim.                                                  *)

\* An outcome that may be settled: what OutcomeInv says of it, with the Check
\* Runs after the request.
OutcomeFits(w, out) ==
    /\ out.kind # "failed" =>
          /\ out.cont.state # "none"
          /\ out.cont.run \in 0 .. Len(checks'[w])
          /\ out.cont.state \in {"read", "start", "complete"} <=> out.cont.run # 0
          /\ Desired(w, out.cont.state)
          /\ outbox[w].binding # 0 => out.cont.run = outbox[w].binding
    /\ out.kind = "published" => out.cont.run # 0 /\ (late'[w] \/ checks'[w][out.cont.run] = saved[w].phase)
    /\ out.kind = "failed" /\ out.failure = "conflict" => Len(checks'[w]) > 1

\* A worker answers: the step of its claim, whatever the request has done.
LEMMA DoneStep ==
  ASSUME PublicationInv, NEW p \in Publishers, Claimed(p),
         NEW w, w = publisher[p].workflow, NEW out \in OutcomeType, Done(p, out),
         DeliveryInv', PhasesInOrder', saved' = saved, outbox' = outbox, spare' \in [Workflows -> Nat],
         checks' \in [Workflows -> Seq(Phases)], late' \in [Workflows -> BOOLEAN],
         \A u \in Workflows : u # w => checks'[u] = checks[u] /\ late'[u] = late[u],
         Len(checks[w]) <= Len(checks'[w]), Len(checks'[w]) <= MaxChecks, ChecksBehind(w)',
         \/ Holds(p)
         \/ late'[w]
         \/ ~late[w] /\ \A i \in 1 .. Len(checks[w]) : checks'[w][i] = checks[w][i],
         flying' \in [Publishers -> RequestType], FlightInv(p)',
         \A q \in Publishers : q # p => flying'[q] = flying[q],
         Holds(p) => OutcomeFits(w, out),
         \A u \in Workflows : CreatesBounded(u)'
  PROVE  PublicationInv'
<1> DEFINE me == publisher[p]
           new == [Unclaimed EXCEPT !.stage = "done", !.workflow = w, !.outcome = out]
<1>1. /\ me.stage = "claimed" /\ Working(p) /\ w \in Workflows
      /\ me.binding # 0 => me.state.run = me.binding
      /\ me \in ClaimType /\ DOMAIN publisher = Publishers
  BY PublisherFacts DEF Claimed, Working, ClaimInv
<1>2. ~Mismatched(me)
  BY <1>1 DEF Mismatched
<1>3. publisher' = [publisher EXCEPT ![p] = new]
  BY <1>2 DEF Done
<1>4. new.stage = "done" /\ new.workflow = w /\ new.outcome = out /\ new \in ClaimType
  <2>1. Unclaimed \in ClaimType
    BY ClaimTypes
  <2> QED
    BY <1>1, <2>1 DEF ClaimType, Unclaimed
<1> HIDE DEF new
<1>5. /\ publisher'[p] = new /\ \A q \in Publishers : q # p => publisher'[q] = publisher[q]
      /\ publisher' \in [Publishers -> ClaimType]
  <2>1. publisher \in [Publishers -> ClaimType]
    BY DEF PublicationInv, PublicationTypes
  <2> HIDE DEF ClaimType
  <2> QED
    BY <1>3, <1>4, <2>1
<1>6. \A u \in Workflows : /\ Len(checks[u]) \in Nat /\ saved[u].phase \in Phases
                           /\ RowInv(u) /\ ChecksBehind(u) /\ checks[u] \in Seq(Phases)
                           /\ Len(checks[u]) <= MaxChecks
  BY SubjectFacts
<1>7. checks'[w] \in Seq(Phases)
  BY <1>1
<1>8. Len(checks'[w]) \in Nat
  BY <1>7
<1>9. \A u \in Workflows : /\ Len(checks'[u]) \in Nat /\ Len(checks[u]) <= Len(checks'[u])
                           /\ Len(checks'[u]) <= MaxChecks
  <2>1. \A n \in Nat : n <= n
    OBVIOUS
  <2> QED
    BY <1>6, <1>8, <2>1
<1>10. \A u \in Workflows : Rank(saved[u].phase) <= Rank(saved'[u].phase)
  BY <1>6, RankReflexive, Zenon
<1>11. \A q \in Publishers : Holds(q)' <=> Holds(q)
  <2>1. Holds(p)' <=> Holds(p)
    BY <1>1, <1>4, <1>5, Zenon DEF Holds, Working
  <2>2. ASSUME NEW q \in Publishers, q # p PROVE Holds(q)' <=> Holds(q)
    BY <1>5, <2>2, Zenon DEF Holds, Working
  <2> QED
    BY <2>1, <2>2
<1>12. ASSUME NEW u \in Workflows, NEW run \in 1 .. Len(checks[u]), Shown(u, run), u = w => ~Holds(p)
       PROVE  Shown(u, run)'
  <2>1. CASE u # w
    BY <1>12, <2>1 DEF Shown
  <2>2. CASE u = w
    BY <1>12, <2>2 DEF Shown
  <2> QED
    BY <2>1, <2>2
<1>13. ASSUME NEW u \in Workflows PROVE RowInv(u)'
  <2>1. ASSUME outbox[u].state = "completed" PROVE Shown(u, outbox[u].binding)'
    <3>1. /\ outbox[u].binding \in 0 .. Len(checks[u]) /\ outbox[u].binding # 0
          /\ Shown(u, outbox[u].binding)
      BY <1>6, <2>1 DEF RowInv
    <3>2. outbox[u].binding \in 1 .. Len(checks[u])
      BY <1>6, <3>1
    <3>3. u = w => ~Holds(p)
      BY <2>1, HolderFacts
    <3> QED
      BY <1>12, <3>1, <3>2, <3>3
  <2> QED
    BY <1>6, <1>9, <2>1, RowKept
<1>14. ASSUME NEW u \in Workflows PROVE ChecksBehind(u)'
  BY <1>6 DEF ChecksBehind
<1>15. ASSUME NEW q \in Publishers PROVE ClaimInv(q)'
  <2>1. CASE q = p
    BY <1>4, <1>5, <2>1 DEF ClaimInv
  <2>2. CASE q # p
    <3>1. ClaimInv(q) /\ publisher'[q] = publisher[q]
      BY <1>5, <2>2, PublisherFacts
    <3>2. Holds(q)' => /\ Holds(q)
                       /\ saved'[publisher[q].workflow].phase = saved[publisher[q].workflow].phase
                       /\ outbox'[publisher[q].workflow].binding = outbox[publisher[q].workflow].binding
      BY <1>11
    <3> QED
      BY <1>6, <1>9, <1>10, <3>1, <3>2, ClaimKept
  <2> QED
    BY <2>1, <2>2
<1>16. ASSUME NEW q \in Publishers PROVE OutcomeInv(q)'
  <2>1. CASE q = p
    <3>1. Holds(p)' => OutcomeFits(w, out)
      BY <1>11
    <3>2. outbox'[w] = outbox[w] /\ saved'[w] = saved[w]
      OBVIOUS
    <3> QED
      BY <1>1, <1>4, <1>5, <2>1, <3>1, <3>2 DEF OutcomeInv, OutcomeFits, Fits, Desired, Shown
  <2>2. CASE q # p
    <3> DEFINE v == publisher[q].workflow
               o == publisher[q].outcome
    <3>1. OutcomeInv(q) /\ publisher'[q] = publisher[q]
      BY <1>5, <2>2, PublisherFacts
    <3>2. ASSUME publisher[q].stage = "done", Holds(q)', o.kind = "published" PROVE Shown(v, o.cont.run)'
      <4>1. v \in Workflows /\ Holds(q)
        BY <1>11, <3>1, <3>2 DEF OutcomeInv
      <4>2. o.cont.run # 0 /\ Shown(v, o.cont.run) /\ o.cont.run \in 0 .. Len(checks[v])
        BY <3>1, <3>2, <4>1 DEF OutcomeInv, Fits
      <4>3. o.cont.run \in 1 .. Len(checks[v])
        BY <1>6, <4>1, <4>2
      <4>4. v = w => ~Holds(p)
        BY <2>2, <4>1, HolderFacts
      <4> DEFINE r == o.cont.run
      <4>5. ASSUME NEW u, NEW s, u = v, s = r PROVE Shown(u, s)'
        BY <1>12, <4>1, <4>2, <4>3, <4>4, <4>5, Zenon
      <4>6. v' = v /\ r' = r
        BY <3>1, Zenon
      <4>7. late'[v] \/ checks'[v][r] = saved'[v].phase
        BY <4>5, Zenon DEF Shown
      <4> HIDE DEF v, r
      <4>8. Shown(v, r)'
        BY <4>6, <4>7, Zenon DEF Shown
      <4> QED
        BY <4>8, Zenon DEF r
    <3>3. outbox'[v] = outbox[v] /\ saved'[v] = saved[v]
      OBVIOUS
    <3> QED
      BY <1>6, <1>9, <1>11, <3>1, <3>2, <3>3, OutcomeKept
  <2> QED
    BY <2>1, <2>2
<1>17. ASSUME NEW q \in Publishers PROVE FlightInv(q)'
  BY <1>6, <1>9, <1>10, FlightKept, PublisherFacts
<1>18. PublicationTypes'
  <2>1. outbox \in [Workflows -> RowType]
    BY DEF PublicationInv, PublicationTypes
  <2> QED
    BY <1>5, <1>9, <2>1, Zenon DEF PublicationTypes
<1> QED
  BY <1>13, <1>14, <1>15, <1>16, <1>17, <1>18 DEF PublicationInv

\* The request that a worker leaves behind is the one of its claim.
LEMMA AbandonedFacts ==
  ASSUME PublicationInv, NEW p \in Publishers, Claimed(p), Abandoned(p), checks' = checks, saved' = saved,
         NEW w, w = publisher[p].workflow
  PROVE  /\ flying' \in [Publishers -> RequestType] /\ FlightInv(p)'
         /\ \A q \in Publishers : q # p => flying'[q] = flying[q]
         /\ flying'[p] = flying[p] \/ (flying[p] = NoRequest /\ flying'[p].workflow = w)
         /\ \/ flying' = flying /\ FlyingCreates(w)' = FlyingCreates(w)
            \/ /\ publisher[p].state.state \in {"start", "complete"}
               /\ FlyingCreates(w)' = FlyingCreates(w)
            \/ /\ publisher[p].state.state = "create" /\ p \in FlyingCreates(w)'
               /\ FlyingCreates(w) \subseteq FlyingCreates(w)'
               /\ FlyingCreates(w)' \subseteq FlyingCreates(w) \cup {p}
<1> DEFINE me == publisher[p]
           r == [workflow |-> w, op |-> me.state.state, run |-> me.state.run]
<1>1. /\ w \in Workflows /\ Fits(w, me.state) /\ Reached(w, me.state.state)
      /\ flying \in [Publishers -> RequestType] /\ FlightInv(p) /\ me \in ClaimType
  BY PublisherFacts DEF Claimed, ClaimInv, PublicationInv, PublicationTypes
<1>2. \A u \in Workflows : /\ Len(checks[u]) \in Nat /\ Len(checks'[u]) \in Nat
                           /\ Len(checks[u]) <= Len(checks'[u])
                           /\ saved[u].phase \in Phases /\ saved'[u].phase \in Phases
                           /\ Rank(saved[u].phase) <= Rank(saved'[u].phase)
  <2>1. \A n \in Nat : n <= n
    OBVIOUS
  <2>2. \A x \in Phases : Rank(x) <= Rank(x)
    BY Ranks
  <2> QED
    BY <2>1, <2>2, SubjectFacts
<1>3. CASE flying' = flying
  <2>1. FlyingCreates(w)' = FlyingCreates(w)
    BY <1>3 DEF FlyingCreates
  <2> QED
    BY <1>1, <1>2, <1>3, <2>1, FlightKept
<1>4. CASE flying' # flying
  <2>1. me.state.state \in Mutations /\ flying[p] = NoRequest /\ flying' = [flying EXCEPT ![p] = r]
    BY <1>4 DEF Abandoned
  <2>2. r \in RequestType /\ me.state.run \in 0 .. Len(checks[w])
    <3>1. me.state \in ContType
      BY <1>1 DEF ClaimType
    <3>2. me.state.run \in 0 .. MaxChecks
      BY <3>1 DEF ContType
    <3> QED
      BY <1>1, <2>1, <3>2 DEF RequestType, Fits
  <2>3. r.workflow = w /\ r.op = me.state.state /\ r.run = me.state.run
    OBVIOUS
  <2> HIDE DEF r
  <2>4. /\ flying' \in [Publishers -> RequestType] /\ flying'[p] = r
        /\ \A q \in Publishers : q # p => flying'[q] = flying[q]
    <3> HIDE DEF RequestType
    <3> QED
      BY <1>1, <2>1, <2>2
  <2>5. r.op # "create" => r.run \in 1 .. Len(checks[w])
    <3>1. r.op # "create" => r.run # 0
      BY <1>1, <2>1, <2>3 DEF Mutations, Fits
    <3> QED
      BY <1>1, <1>2, <2>2, <2>3, <3>1
  <2>6. FlightInv(p)'
    BY <1>1, <2>1, <2>3, <2>4, <2>5 DEF FlightInv, Reached
  <2>7. p \notin FlyingCreates(w) /\ (p \in FlyingCreates(w)' <=> me.state.state = "create")
    BY <2>1, <2>3, <2>4 DEF FlyingCreates, NoRequest
  <2>8. \A q : q # p => (q \in FlyingCreates(w)' <=> q \in FlyingCreates(w))
    BY <2>4 DEF FlyingCreates
  <2>9. CASE me.state.state = "create"
    BY <2>1, <2>3, <2>4, <2>6, <2>7, <2>8, <2>9
  <2>10. CASE me.state.state # "create"
    <3>1. FlyingCreates(w)' = FlyingCreates(w)
      BY <2>7, <2>8, <2>10
    <3>2. me.state.state \in {"start", "complete"}
      BY <2>1, <2>10 DEF Mutations
    <3> QED
      BY <2>1, <2>3, <2>4, <2>6, <3>1, <3>2
  <2> QED
    BY <2>9, <2>10
<1> QED
  BY <1>3, <1>4

\* A worker that answers without the Check Runs having changed.
LEMMA QuietDone ==
  ASSUME PublicationInv, NEW p \in Publishers, Claimed(p), NEW w, w = publisher[p].workflow,
         NEW out \in OutcomeType, Done(p, out),
         DeliveryInv', PhasesInOrder', saved' = saved,
         outbox' = outbox, spare' = spare, checks' = checks, late' = late,
         flying' \in [Publishers -> RequestType], FlightInv(p)',
         \A q \in Publishers : q # p => flying'[q] = flying[q],
         flying'[p] = flying[p] \/ (flying[p] = NoRequest /\ flying'[p].workflow = w),
         Holds(p) => OutcomeFits(w, out),
         \/ /\ FlyingCreates(w)' = FlyingCreates(w)
            /\ out.kind = "retry" /\ MayCreate(w, out.cont)' => MayCreate(w, publisher[p].state)
         \/ /\ publisher[p].state.state = "create" /\ ~MayCreate(w, out.cont)'
            /\ FlyingCreates(w) \subseteq FlyingCreates(w)'
            /\ FlyingCreates(w)' \subseteq FlyingCreates(w) \cup {p}
  PROVE  PublicationInv'
<1> DEFINE new == [Unclaimed EXCEPT !.stage = "done", !.workflow = w, !.outcome = out]
<1>1. /\ publisher[p].stage = "claimed" /\ Working(p) /\ w \in Workflows /\ DOMAIN publisher = Publishers
      /\ publisher[p].binding # 0 => publisher[p].state.run = publisher[p].binding
  BY PublisherFacts DEF Claimed, Working, ClaimInv
<1>2. publisher' = [publisher EXCEPT ![p] = new]
  BY <1>1 DEF Done, Mismatched
<1>3. /\ publisher'[p].stage = "done" /\ publisher'[p].workflow = w /\ publisher'[p].outcome = out
      /\ \A q \in Publishers : q # p => publisher'[q] = publisher[q]
  <2>1. new.stage = "done" /\ new.workflow = w /\ new.outcome = out
    BY DEF Unclaimed
  <2> HIDE DEF new
  <2> QED
    BY <1>1, <1>2, <2>1
<1>4. /\ checks[w] \in Seq(Phases) /\ Len(checks[w]) \in Nat /\ Len(checks[w]) <= MaxChecks
      /\ ChecksBehind(w) /\ late[w] \in BOOLEAN
  BY <1>1, SubjectFacts
<1>5. /\ checks' \in [Workflows -> Seq(Phases)] /\ late' \in [Workflows -> BOOLEAN]
      /\ spare' \in [Workflows -> Nat]
  BY DEF PublicationInv, PublicationTypes
<1>6. /\ Len(checks'[w]) \in Nat /\ Len(checks'[w]) = Len(checks[w])
      /\ (checks'[w] = << >> => checks[w] = << >>) /\ Len(checks[w]) <= Len(checks'[w])
  BY <1>4
<1>7. \A u \in Workflows : CreatesBounded(u)'
  <2> DEFINE had == \/ publisher[p].stage = "claimed" /\ MayCreate(w, publisher[p].state)
                    \/ /\ publisher[p].stage = "done" /\ publisher[p].outcome.kind = "retry"
                       /\ MayCreate(w, publisher[p].outcome.cont)
             has == publisher'[p].stage = "done" /\ out.kind = "retry" /\ MayCreate(w, out.cont)'
  <2>1. \/ /\ Len(checks'[w]) = Len(checks[w]) /\ FlyingCreates(w)' = FlyingCreates(w)
           /\ has => had
        \/ /\ publisher[p].stage = "claimed" /\ publisher[p].state.state = "create" /\ ~has
           /\ FlyingCreates(w) \subseteq FlyingCreates(w)'
           /\ Len(checks'[w]) + Cardinality(FlyingCreates(w)')
                <= Len(checks[w]) + Cardinality(FlyingCreates(w)) + 1
    <3>1. CASE FlyingCreates(w)' = FlyingCreates(w)
               /\ (out.kind = "retry" /\ MayCreate(w, out.cont)' => MayCreate(w, publisher[p].state))
      BY <1>1, <1>6, <3>1
    <3>2. CASE /\ publisher[p].state.state = "create" /\ ~MayCreate(w, out.cont)'
               /\ FlyingCreates(w) \subseteq FlyingCreates(w)'
               /\ FlyingCreates(w)' \subseteq FlyingCreates(w) \cup {p}
      <4>1. Cardinality(FlyingCreates(w)') <= Cardinality(FlyingCreates(w)) + 1
        BY <3>2, CreateNumbers, WorkerSets
      <4>2. Len(checks'[w]) + Cardinality(FlyingCreates(w)')
                <= Len(checks[w]) + Cardinality(FlyingCreates(w)) + 1
        BY <1>6, <4>1, CreateNumbers
      <4> QED
        BY <1>1, <3>2, <4>2
    <3> QED
      BY <3>1, <3>2
  <2>2. \A u \in Workflows : u # w => checks'[u] = checks[u]
    OBVIOUS
  <2> HIDE DEF had, has
  <2>3. had <=> \/ publisher[p].stage = "claimed" /\ MayCreate(w, publisher[p].state)
                \/ /\ publisher[p].stage = "done" /\ publisher[p].outcome.kind = "retry"
                   /\ MayCreate(w, publisher[p].outcome.cont)
    BY DEF had
  <2>4. has <=> publisher'[p].stage = "done" /\ out.kind = "retry" /\ MayCreate(w, out.cont)'
    BY DEF has
  <2> QED
    BY <1>1, <1>3, <1>6, <2>1, <2>2, <2>3, <2>4, WorkerCreates
<1>8. \/ Holds(p)
      \/ late'[w]
      \/ ~late[w] /\ \A i \in 1 .. Len(checks[w]) : checks'[w][i] = checks[w][i]
  OBVIOUS
<1>9. ChecksBehind(w)'
  BY <1>4 DEF ChecksBehind
<1> QED
  BY <1>4, <1>5, <1>6, <1>7, <1>8, <1>9, DoneStep

\* Fields of the answers.
LEMMA AnswerFields ==
  /\ \A c : Retry(c).kind = "retry" /\ Retry(c).cont = c
  /\ \A f : Failed(f).kind = "failed" /\ Failed(f).failure = f
  /\ \A run : Published(run).kind = "published" /\ Published(run).cont = RunBound(run)
  /\ \A run : /\ RunBound(run).state = "read" /\ RunBound(run).run = run
              /\ StartRun(run).state = "start" /\ StartRun(run).run = run
              /\ CompleteRun(run).state = "complete" /\ CompleteRun(run).run = run
  /\ ReconcileRun.state = "reconcile" /\ ReconcileRun.run = 0
  /\ SuiteBound.state = "create" /\ SuiteBound.run = 0
  /\ EnsureSuite.state = "suite" /\ EnsureSuite.run = 0
  /\ NoCont.state = "none" /\ NoCont.run = 0
BY DEF Retry, Failed, Published, RunBound, StartRun, CompleteRun, ReconcileRun, SuiteBound, EnsureSuite, NoCont, At

\* A claim that is tried again from where it was can be settled.
LEMMA RetryFits ==
  ASSUME PublicationInv, NEW p \in Publishers, Claimed(p), NEW w, w = publisher[p].workflow, checks' = checks
  PROVE  /\ w \in Workflows /\ publisher[p].state \in ContType
         /\ Retry(publisher[p].state) \in OutcomeType
         /\ Holds(p) => OutcomeFits(w, Retry(publisher[p].state))
<1> DEFINE c == publisher[p].state
<1>1. ClaimInv(p) /\ publisher[p].stage = "claimed" /\ publisher[p] \in ClaimType /\ w \in Workflows
  BY PublisherFacts DEF Claimed, ClaimInv
<1>2. c \in ContType
  BY <1>1 DEF ClaimType
<1>3. Holds(p) => OutcomeFits(w, Retry(c))
  BY <1>1, AnswerFields DEF ClaimInv, OutcomeFits, Fits
<1> QED
  BY <1>1, <1>2, <1>3, OutcomeTypes

\* Nothing was done, or the request was refused.
LEMMA IdleDone ==
  ASSUME PublicationInv, NEW p \in Publishers, Claimed(p),
         NEW out, out \in {Retry(publisher[p].state), Failed("rejected")}, Done(p, out),
         DeliveryInv', PhasesInOrder', saved' = saved, UNCHANGED <<outbox, flying, checks, spare, late>>
  PROVE  PublicationInv'
<1>1. PICK w : w = publisher[p].workflow
  OBVIOUS
<1>2. /\ w \in Workflows /\ Retry(publisher[p].state) \in OutcomeType
      /\ Holds(p) => OutcomeFits(w, Retry(publisher[p].state))
  BY <1>1, RetryFits
<1>3. Failed("rejected") \in OutcomeType /\ OutcomeFits(w, Failed("rejected"))
  BY OutcomeTypes, AnswerFields DEF FailureType, OutcomeFits
<1>4. out \in OutcomeType /\ (Holds(p) => OutcomeFits(w, out))
  BY <1>2, <1>3
<1>5. flying' \in [Publishers -> RequestType] /\ FlightInv(p)'
  <2>1. flying \in [Publishers -> RequestType] /\ FlightInv(p)
    BY DEF PublicationInv, PublicationTypes
  <2> QED
    BY <2>1 DEF FlightInv, Reached
<1>6. FlyingCreates(w)' = FlyingCreates(w)
  BY DEF FlyingCreates
<1>7. out.kind = "retry" /\ MayCreate(w, out.cont)' => MayCreate(w, publisher[p].state)
  BY <1>6, AnswerFields DEF MayCreate
<1> QED
  BY <1>1, <1>4, <1>5, <1>6, <1>7, QuietDone

\* GitHub's answer is lost: the worker goes on from a continuation that looks
\* before it acts, and may leave its request in the air.
LEMMA TimeOutStep ==
  ASSUME PublicationInv, NEW p \in Publishers, TimeOut(p), DeliveryInv', PhasesInOrder'
  PROVE  PublicationInv'
<1> DEFINE c == publisher[p].state
           out == Unanswered(c)
<1>1. PICK w : w = publisher[p].workflow
  OBVIOUS
<1>2. /\ Claimed(p) /\ Abandoned(p) /\ Done(p, out)
      /\ saved' = saved /\ outbox' = outbox /\ checks' = checks /\ spare' = spare /\ late' = late
  BY DEF TimeOut
<1>3. /\ w \in Workflows /\ c \in ContType /\ Retry(c) \in OutcomeType
      /\ Holds(p) => OutcomeFits(w, Retry(c))
  BY <1>1, <1>2, RetryFits
<1>4. /\ c.run \in 0 .. Len(checks[w]) /\ (c.state \in {"read", "start", "complete"} <=> c.run # 0)
      /\ Holds(p) => (outbox[w].binding # 0 => c.run = outbox[w].binding)
  BY <1>1, <1>2, PublisherFacts DEF Claimed, ClaimInv, Fits
<1>5. c.run \in 0 .. MaxChecks
  BY <1>3 DEF ContType
<1>6. /\ c.state = "create" => out = Retry(ReconcileRun)
      /\ c.state \in {"start", "complete"} => out = Retry(RunBound(c.run))
      /\ c.state \notin Mutations => out = Retry(c)
  BY DEF Unanswered, Mutations
<1>7. out \in OutcomeType
  BY <1>3, <1>5, <1>6, OutcomeTypes, ContTypes DEF Mutations
<1>8. ASSUME Holds(p) PROVE OutcomeFits(w, out)
  <2>1. CASE c.state = "create"
    BY <1>2, <1>4, <1>6, <1>8, <2>1, AnswerFields DEF OutcomeFits, Desired
  <2>2. CASE c.state \in {"start", "complete"}
    BY <1>2, <1>4, <1>6, <1>8, <2>2, AnswerFields DEF OutcomeFits, Desired
  <2>3. CASE c.state \notin Mutations
    BY <1>3, <1>6, <1>8, <2>3
  <2> QED
    BY <2>1, <2>2, <2>3 DEF Mutations
<1>9. /\ flying' \in [Publishers -> RequestType] /\ FlightInv(p)'
      /\ \A q \in Publishers : q # p => flying'[q] = flying[q]
      /\ flying'[p] = flying[p] \/ (flying[p] = NoRequest /\ flying'[p].workflow = w)
      /\ \/ flying' = flying /\ FlyingCreates(w)' = FlyingCreates(w)
         \/ c.state \in {"start", "complete"} /\ FlyingCreates(w)' = FlyingCreates(w)
         \/ /\ c.state = "create" /\ p \in FlyingCreates(w)'
            /\ FlyingCreates(w) \subseteq FlyingCreates(w)'
            /\ FlyingCreates(w)' \subseteq FlyingCreates(w) \cup {p}
  BY <1>1, <1>2, AbandonedFacts
<1>10. PICK o : o = out
  OBVIOUS
<1>11. \/ /\ FlyingCreates(w)' = FlyingCreates(w)
          /\ o.kind = "retry" /\ MayCreate(w, o.cont)' => MayCreate(w, c)
       \/ /\ c.state = "create" /\ ~MayCreate(w, o.cont)'
          /\ FlyingCreates(w) \subseteq FlyingCreates(w)'
          /\ FlyingCreates(w)' \subseteq FlyingCreates(w) \cup {p}
  <2>1. c.state \in {"start", "complete"} => ~MayCreate(w, o.cont)'
    BY <1>6, <1>10, AnswerFields DEF MayCreate
  <2>2. CASE c.state = "create" /\ p \in FlyingCreates(w)'
    BY <1>6, <1>9, <1>10, <2>2, AnswerFields DEF MayCreate
  <2>3. CASE flying' = flying /\ FlyingCreates(w)' = FlyingCreates(w)
    <3>1. c.state = "create" => MayCreate(w, c)
      BY DEF MayCreate
    <3>2. c.state \notin Mutations /\ MayCreate(w, o.cont)' => MayCreate(w, c)
      BY <1>2, <1>6, <1>10, <2>3, AnswerFields DEF MayCreate
    <3> QED
      BY <2>1, <2>3, <3>1, <3>2 DEF Mutations
  <2>4. CASE c.state \in {"start", "complete"} /\ FlyingCreates(w)' = FlyingCreates(w)
    BY <2>1, <2>4
  <2> QED
    BY <1>9, <2>2, <2>3, <2>4
<1>12. o \in OutcomeType /\ Done(p, o) /\ (Holds(p) => OutcomeFits(w, o))
  BY <1>2, <1>7, <1>8, <1>10
<1> QED
  BY <1>1, <1>2, <1>9, <1>11, <1>12, QuietDone

\* What the request of a claim does to the Check Runs of its subject.
LEMMA RequestFacts ==
  ASSUME PublicationInv, NEW p \in Publishers, Claimed(p), NEW w, w = publisher[p].workflow,
         NEW c, c = publisher[p].state, NEW runs, runs = Applied(checks[w], c.state, c.run)
  PROVE  /\ runs \in Seq(Phases) /\ Len(runs) \in Nat
         /\ c.state = "create" => Len(runs) = Len(checks[w]) + 1
         /\ c.state # "create" => Len(runs) = Len(checks[w])
         /\ c.state \notin {"start", "complete"} => \A i \in 1 .. Len(checks[w]) : runs[i] = checks[w][i]
         /\ \A i \in 1 .. Len(runs) : Rank(runs[i]) <= Rank(saved[w].phase)
<1>1. /\ w \in Workflows /\ Reached(w, c.state)
      /\ c.run \in 0 .. Len(checks[w]) /\ (c.state \in {"read", "start", "complete"} <=> c.run # 0)
  BY PublisherFacts DEF Claimed, ClaimInv, Fits
<1>2. checks[w] \in Seq(Phases) /\ Len(checks[w]) \in Nat /\ saved[w].phase \in Phases /\ ChecksBehind(w)
  BY <1>1, SubjectFacts
<1>3. c.state \in {"start", "complete"} => c.run \in 1 .. Len(checks[w])
  BY <1>1, <1>2
<1>4. /\ runs \in Seq(Phases)
      /\ c.state = "create" => Len(runs) = Len(checks[w]) + 1
      /\ c.state # "create" => Len(runs) = Len(checks[w])
      /\ c.state \notin {"start", "complete"} => \A i \in 1 .. Len(checks[w]) : runs[i] = checks[w][i]
      /\ \A i \in 1 .. Len(runs) : Rank(runs[i]) <= Rank(saved[w].phase)
  BY <1>1, <1>2, <1>3, AppliedFacts
<1> QED
  BY <1>4

\* A continuation and a published Check Run that can be settled.
LEMMA FitsAt ==
  ASSUME NEW w, NEW d \in ContType, d.state # "none", d.run \in 0 .. Len(checks'[w]),
         d.state \in {"read", "start", "complete"} <=> d.run # 0,
         d.state # "reconcile", Desired(w, d.state), outbox[w].binding # 0 => d.run = outbox[w].binding
  PROVE  OutcomeFits(w, Retry(d))
<1>1. Retry(d).kind = "retry" /\ Retry(d).cont = d
  BY AnswerFields
<1> QED
  BY <1>1 DEF OutcomeFits

\* A Check Run that shows the desired phase may be recorded as published.
LEMMA PublishedAt ==
  ASSUME NEW w, NEW run, run # 0, run \in 0 .. Len(checks'[w]), checks'[w][run] = saved[w].phase,
         outbox[w].binding # 0 => run = outbox[w].binding
  PROVE  OutcomeFits(w, Published(run))
<1>1. /\ Published(run).kind = "published" /\ Published(run).cont = RunBound(run)
      /\ RunBound(run).state = "read" /\ RunBound(run).run = run
  BY AnswerFields
<1>2. Desired(w, "read")
  BY Zenon DEF Desired
<1> QED
  BY <1>1, <1>2 DEF OutcomeFits

\* The answer to a request, and what it allows afterwards.
LEMMA AnswerFacts ==
  ASSUME PublicationInv, NEW p \in Publishers, Claimed(p), NEW w, w = publisher[p].workflow,
         NEW c, c = publisher[p].state, NEW runs, runs = Applied(checks[w], c.state, c.run),
         NEW out, out = Answer(publisher[p], runs), Len(runs) <= MaxChecks,
         checks'[w] = runs, Holds(p) => late'[w] = (late[w] /\ c.state \notin {"read", "start", "complete"})
  PROVE  /\ out \in OutcomeType
         /\ Holds(p) => OutcomeFits(w, out)
         /\ c.state = "create" => out.cont.state = "read"
         /\ /\ c.state # "create" /\ out.kind = "retry" /\ out.cont.state \in {"suite", "create", "reconcile"}
            /\ c.state = "reconcile" => FlyingCreates(w) = {}
            => MayCreate(w, c)
<1> DEFINE me == publisher[p]
<1>1. /\ w \in Workflows /\ me \in ClaimType /\ c.state # "none" /\ Reached(w, c.state)
      /\ c.run \in 0 .. Len(checks[w]) /\ (c.state \in {"read", "start", "complete"} <=> c.run # 0)
      /\ Holds(p) => /\ me.phase = saved[w].phase /\ Desired(w, c.state)
                     /\ outbox[w].binding # 0 => c.run = outbox[w].binding
  BY PublisherFacts DEF Claimed, ClaimInv, Fits
<1>2. /\ checks[w] \in Seq(Phases) /\ Len(checks[w]) \in Nat /\ saved[w].phase \in Phases /\ ChecksBehind(w)
      /\ Len(checks[w]) <= MaxChecks
  BY <1>1, SubjectFacts
<1>3. c.run \in 0 .. MaxChecks /\ MaxChecks \in Nat /\ c \in ContType /\ me.phase \in Phases
  <2>1. c \in ContType /\ me.phase \in Phases
    BY <1>1 DEF ClaimType
  <2> QED
    BY <2>1, PublicationAssumption DEF ContType
<1>4. c.state \in {"start", "complete"} => c.run \in 1 .. Len(checks[w])
  BY ONLY <1>1, <1>2
<1>5. /\ runs \in Seq(Phases)
      /\ c.state = "create" => Len(runs) = Len(checks[w]) + 1
      /\ c.state # "create" => Len(runs) = Len(checks[w])
      /\ c.state \notin Mutations => runs = checks[w]
      /\ c.state = "start" => runs[c.run] = "running"
      /\ c.state = "complete" => runs[c.run] = "completed"
      /\ \A i \in 1 .. Len(runs) : Rank(runs[i]) <= Rank(saved[w].phase)
  BY <1>1, <1>2, <1>4, AppliedFacts
<1>6. Len(runs) \in Nat /\ Len(runs) \in 0 .. MaxChecks
  <2>1. Len(runs) \in Nat
    BY <1>5
  <2> QED
    BY <1>3, <2>1
<1>7. c.state \in {"suite", "create", "reconcile", "read", "start", "complete"}
  BY <1>1, <1>3 DEF ContType
<1>a. /\ Holds(p) /\ c.run = 0 => outbox[w].binding = 0
      /\ checks'[w] = runs /\ 0 \in 0 .. Len(runs)
  BY <1>1, <1>6
<1>b. /\ Retry(SuiteBound) \in OutcomeType
      /\ Holds(p) /\ c.run = 0 => OutcomeFits(w, Retry(SuiteBound))
  <2>1. SuiteBound \in ContType /\ SuiteBound.state = "create" /\ SuiteBound.run = 0
    BY ContTypes, AnswerFields
  <2>2. Desired(w, "create")
    BY DEF Desired
  <2> QED
    BY <1>a, <2>1, <2>2, FitsAt, OutcomeTypes
<1>8. CASE c.state = "suite"
  <2>1. out = Retry(SuiteBound) /\ c.run = 0
    BY <1>1, <1>8 DEF Answer
  <2>2. MayCreate(w, c)
    BY <1>8 DEF MayCreate
  <2> QED
    BY <1>b, <1>8, <2>1, <2>2
<1>9. CASE c.state = "create"
  <2>1. out = Retry(RunBound(Len(runs)))
    BY <1>9 DEF Answer
  <2>2. Len(runs) # 0 /\ c.run = 0 /\ Len(runs) \in 0 .. Len(runs)
    BY <1>1, <1>2, <1>5, <1>6, <1>9
  <2>3. PICK d : d = RunBound(Len(runs))
    OBVIOUS
  <2>4. /\ d \in ContType /\ d.state = "read" /\ d.run # 0 /\ d.run \in 0 .. Len(checks'[w])
        /\ Retry(d).cont = d /\ Retry(d).kind = "retry"
    BY <1>a, <1>6, <2>2, <2>3, ContTypes, AnswerFields
  <2>5. Desired(w, "read")
    BY DEF Desired
  <2>6. Holds(p) => OutcomeFits(w, Retry(d))
    BY ONLY <1>a, <2>2, <2>4, <2>5, FitsAt
  <2>7. out = Retry(d) /\ Retry(d) \in OutcomeType
    BY <2>1, <2>3, <2>4, OutcomeTypes, Zenon
  <2> QED
    BY <1>9, <2>4, <2>6, <2>7
<1>10. CASE c.state = "reconcile"
  <2>1. out = Reconciled(runs) /\ runs = checks[w] /\ c.run = 0
    BY <1>1, <1>5, <1>10 DEF Answer, Mutations
  <2>2. CASE Len(runs) = 0
    <3>1. out = Retry(SuiteBound)
      BY <2>1, <2>2 DEF Reconciled
    <3>2. checks[w] = << >>
      BY <1>2, <2>1, <2>2, EmptySeq
    <3>3. FlyingCreates(w) = {} => MayCreate(w, c)
      BY <1>10, <3>2 DEF MayCreate
    <3> QED
      BY <1>b, <1>10, <2>1, <3>1, <3>3
  <2>3. CASE Len(runs) = 1
    <3>1. out = Retry(RunBound(1)) /\ 1 \in 0 .. MaxChecks /\ 1 \in 0 .. Len(runs)
      BY <1>6, <2>1, <2>3 DEF Reconciled
    <3>2. PICK d : d = RunBound(1)
      OBVIOUS
    <3>3. /\ d \in ContType /\ d.state = "read" /\ d.run # 0 /\ d.run \in 0 .. Len(checks'[w])
          /\ Retry(d).cont = d /\ Retry(d).kind = "retry"
      BY <1>a, <3>1, <3>2, ContTypes, AnswerFields
    <3>4. Desired(w, "read")
      BY DEF Desired
    <3>5. Holds(p) => OutcomeFits(w, Retry(d))
      BY <1>a, <2>1, <3>3, <3>4, FitsAt
    <3>6. out = Retry(d) /\ Retry(d) \in OutcomeType
      BY <3>1, <3>2, <3>3, OutcomeTypes
    <3> QED
      BY <1>10, <3>3, <3>5, <3>6
  <2>4. CASE Len(runs) > 1
    <3>1. out = Failed("conflict")
      BY <1>6, <2>1, <2>4 DEF Reconciled
    <3>2. out \in OutcomeType /\ out.kind = "failed"
      BY <3>1, OutcomeTypes, AnswerFields DEF FailureType
    <3>3. OutcomeFits(w, out)
      BY <1>a, <2>4, <3>2 DEF OutcomeFits
    <3> QED
      BY <1>10, <3>2, <3>3
  <2>5. Len(runs) = 0 \/ Len(runs) = 1 \/ Len(runs) > 1
    <3>1. \A n \in Nat : n = 0 \/ n = 1 \/ n > 1
      OBVIOUS
    <3> QED
      BY ONLY <1>6, <3>1
  <2> QED
    BY <2>2, <2>3, <2>4, <2>5
<1>11. CASE c.state = "read"
  <2> DEFINE current == runs[c.run]
  <2>1. /\ out = ReadOutcome(me.phase, current, c.run) /\ runs = checks[w] /\ c.run # 0
        /\ c.run \in 1 .. Len(runs) /\ c.run \in 0 .. Len(runs)
    BY <1>1, <1>2, <1>5, <1>11 DEF Answer, Mutations
  <2>2. current \in Phases
    BY ONLY <1>5, <2>1, ElementOfSeq
  <2>3. Rank(current) <= Rank(saved[w].phase)
    BY <1>5, <2>1
  <2> HIDE DEF current
  <2>4. CASE me.phase = current
    <3>1. out = Published(c.run)
      BY <2>1, <2>4 DEF ReadOutcome
    <3>2. Holds(p) => runs[c.run] = saved[w].phase
      BY <1>1, <2>4 DEF current
    <3>3. out.kind = "published" /\ out \in OutcomeType
      BY <1>3, <3>1, OutcomeTypes, AnswerFields
    <3>4. Holds(p) => OutcomeFits(w, Published(c.run))
      BY <1>a, <1>1, <2>1, <3>2, PublishedAt
    <3> QED
      BY <1>11, <3>1, <3>3, <3>4
  <2>5. CASE me.phase = "running" /\ current = "queued"
    <3>1. out = Retry(StartRun(c.run))
      BY <2>1, <2>5 DEF ReadOutcome
    <3>2. PICK d : d = StartRun(c.run)
      OBVIOUS
    <3>3. /\ d \in ContType /\ d.state = "start" /\ d.run # 0 /\ d.run \in 0 .. Len(checks'[w])
          /\ d.run = c.run /\ Retry(d).cont = d
      BY <1>a, <1>3, <2>1, <3>2, ContTypes, AnswerFields
    <3>4. Holds(p) => Desired(w, "start")
      BY <1>1, <2>5 DEF Desired
    <3>5. Holds(p) => OutcomeFits(w, Retry(d))
      BY <1>1, <3>3, <3>4, FitsAt
    <3>6. out = Retry(d) /\ Retry(d) \in OutcomeType
      BY <3>1, <3>2, <3>3, OutcomeTypes
    <3> QED
      BY <1>11, <3>3, <3>5, <3>6
  <2>6. CASE me.phase = "completed" /\ current \in {"queued", "running"}
    <3>1. out = Retry(CompleteRun(c.run))
      BY <2>1, <2>6 DEF ReadOutcome
    <3>2. PICK d : d = CompleteRun(c.run)
      OBVIOUS
    <3>3. /\ d \in ContType /\ d.state = "complete" /\ d.run # 0 /\ d.run \in 0 .. Len(checks'[w])
          /\ d.run = c.run /\ Retry(d).cont = d
      BY <1>a, <1>3, <2>1, <3>2, ContTypes, AnswerFields
    <3>4. Holds(p) => Desired(w, "complete")
      BY <1>1, <2>6 DEF Desired
    <3>5. Holds(p) => OutcomeFits(w, Retry(d))
      BY <1>1, <3>3, <3>4, FitsAt
    <3>6. out = Retry(d) /\ Retry(d) \in OutcomeType
      BY <3>1, <3>2, <3>3, OutcomeTypes
    <3> QED
      BY <1>11, <3>3, <3>5, <3>6
  <2>7. CASE /\ me.phase # current /\ ~(me.phase = "running" /\ current = "queued")
             /\ ~(me.phase = "completed" /\ current \in {"queued", "running"})
    <3>1. out = Failed("conflict")
      BY <2>1, <2>7 DEF ReadOutcome
    <3>2. Rank(me.phase) < Rank(current)
      <4>1. Rank("queued") = 1 /\ Rank("running") = 2 /\ Rank("completed") = 3
        BY Ranks
      <4>2. \/ me.phase = "queued" /\ current = "running"
            \/ me.phase = "queued" /\ current = "completed"
            \/ me.phase = "running" /\ current = "completed"
        BY <1>3, <2>2, <2>7 DEF Phases
      <4> QED
        BY <4>1, <4>2
    <3>3. ~Holds(p)
      <4>1. Rank(me.phase) \in Int /\ Rank(current) \in Int
        BY <1>3, <2>2, Ranks
      <4> QED
        BY <1>1, <2>3, <3>2, <4>1
    <3> QED
      BY <1>11, <3>1, <3>3, OutcomeTypes, AnswerFields DEF FailureType
  <2> QED
    BY <2>4, <2>5, <2>6, <2>7
<1>12. CASE c.state \in {"start", "complete"}
  <2>1. out = Published(c.run) /\ c.run # 0 /\ c.run \in 0 .. Len(runs)
    BY <1>1, <1>5, <1>12 DEF Answer
  <2>2. Holds(p) => runs[c.run] = saved[w].phase
    BY <1>1, <1>5, <1>12 DEF Desired
  <2>3. Holds(p) => OutcomeFits(w, Published(c.run))
    BY <1>a, <1>1, <2>1, <2>2, PublishedAt
  <2>4. Published(c.run) \in OutcomeType /\ Published(c.run).kind = "published"
    BY <1>3, OutcomeTypes, AnswerFields
  <2> QED
    BY <1>12, <2>1, <2>3, <2>4
<1> QED
  BY <1>7, <1>8, <1>9, <1>10, <1>11, <1>12

\* A request is performed and answered.
LEMMA PerformStep ==
  ASSUME PublicationInv, NEW p \in Publishers, Perform(p), DeliveryInv', PhasesInOrder'
  PROVE  PublicationInv'
<1> DEFINE me == publisher[p]
<1>1. PICK w, c, runs, out : /\ w = me.workflow /\ c = me.state /\ runs = Applied(checks[w], c.state, c.run)
                             /\ out = Answer(me, runs)
  OBVIOUS
<1>2. /\ Claimed(p) /\ Admissible(w, c.state) /\ Done(p, out)
      /\ checks' = [checks EXCEPT ![w] = IF Mismatched(me) THEN checks[w] ELSE runs]
      /\ late' = [late EXCEPT ![w] = IF Holds(p) THEN late[w] /\ c.state \notin {"read", "start", "complete"}
                                     ELSE late[w] \/ Overtakes(w, c.state, c.run)]
      /\ spare' = IF Holds(p) /\ c.state = "reconcile" /\ runs = << >> /\ InFlight(w)
                  THEN [spare EXCEPT ![w] = spare[w] + 1] ELSE spare
      /\ outbox' = outbox /\ flying' = flying /\ saved' = saved
  BY <1>1 DEF Perform, deliveryVars
<1>3. /\ w \in Workflows /\ Reached(w, c.state) /\ me.stage = "claimed" /\ Working(p)
      /\ c.run \in 0 .. Len(checks[w]) /\ (c.state \in {"read", "start", "complete"} <=> c.run # 0)
      /\ me.binding # 0 => c.run = me.binding
      /\ DOMAIN publisher = Publishers
  BY <1>1, <1>2, PublisherFacts DEF Claimed, ClaimInv, Fits, Working
<1>4. /\ checks[w] \in Seq(Phases) /\ Len(checks[w]) \in Nat /\ saved[w].phase \in Phases /\ ChecksBehind(w)
      /\ Len(checks[w]) <= MaxChecks /\ MaxChecks \in Nat /\ late[w] \in BOOLEAN
      /\ checks \in [Workflows -> Seq(Phases)] /\ late \in [Workflows -> BOOLEAN]
  BY <1>3, SubjectFacts, PublicationAssumption DEF PublicationInv, PublicationTypes
<1>5. ~Mismatched(me)
  BY <1>1, <1>3 DEF Mismatched
<1>6. c.state \in {"start", "complete"} => c.run \in 1 .. Len(checks[w])
  BY <1>3, <1>4
<1>7. /\ runs \in Seq(Phases)
      /\ c.state = "create" => Len(runs) = Len(checks[w]) + 1
      /\ c.state # "create" => Len(runs) = Len(checks[w])
      /\ c.state \notin {"start", "complete"} => \A i \in 1 .. Len(checks[w]) : runs[i] = checks[w][i]
      /\ \A i \in 1 .. Len(runs) : Rank(runs[i]) <= Rank(saved[w].phase)
  BY <1>1, <1>2, RequestFacts, SMTT(20)
<1>8. Len(runs) \in Nat
  BY <1>7
<1>9. Len(checks[w]) <= Len(runs) /\ Len(runs) <= MaxChecks
  <2>1. c.state = "create" => Len(checks[w]) < MaxChecks
    BY <1>2 DEF Admissible
  <2> QED
    BY <1>4, <1>7, <1>8, <2>1
<1>10. /\ checks' \in [Workflows -> Seq(Phases)] /\ checks'[w] = runs
       /\ \A u \in Workflows : u # w => checks'[u] = checks[u]
  BY <1>2, <1>3, <1>4, <1>5, <1>7, Zenon
<1>11. /\ late' \in [Workflows -> BOOLEAN]
       /\ \A u \in Workflows : u # w => late'[u] = late[u]
       /\ Holds(p) => late'[w] = (late[w] /\ c.state \notin {"read", "start", "complete"})
       /\ ~Holds(p) => late'[w] = (late[w] \/ Overtakes(w, c.state, c.run))
  <2> DEFINE l == IF Holds(p) THEN late[w] /\ c.state \notin {"read", "start", "complete"}
                  ELSE late[w] \/ Overtakes(w, c.state, c.run)
  <2>1. l \in BOOLEAN
    <3>1. CASE Holds(p)
      BY <3>1, Zenon
    <3>2. CASE ~Holds(p)
      BY <3>2, Zenon
    <3> QED
      BY <3>1, <3>2
  <2>2. late' = [late EXCEPT ![w] = l]
    BY <1>2
  <2>3. late'[w] = l /\ late' \in [Workflows -> BOOLEAN] /\ \A u \in Workflows : u # w => late'[u] = late[u]
    <3> HIDE DEF l
    <3> QED
      BY <1>3, <1>4, <2>1, <2>2, Zenon
  <2>4. CASE Holds(p)
    BY <2>3, <2>4, Zenon
  <2>5. CASE ~Holds(p)
    BY <2>3, <2>5, Zenon
  <2> QED
    BY <2>4, <2>5, Zenon
<1>12. ChecksBehind(w)'
  BY <1>2, <1>7, <1>10 DEF ChecksBehind
<1>13. /\ out \in OutcomeType
       /\ Holds(p) => OutcomeFits(w, out)
       /\ c.state = "create" => out.cont.state = "read"
       /\ /\ c.state # "create" /\ out.kind = "retry" /\ out.cont.state \in {"suite", "create", "reconcile"}
          /\ c.state = "reconcile" => FlyingCreates(w) = {}
          => MayCreate(w, c)
  <2>1. /\ Claimed(p) /\ w = publisher[p].workflow /\ c = publisher[p].state
        /\ runs = Applied(checks[w], c.state, c.run) /\ out = Answer(publisher[p], runs)
    BY <1>1, <1>2
  <2>2. /\ Len(runs) <= MaxChecks /\ checks'[w] = runs
        /\ Holds(p) => late'[w] = (late[w] /\ c.state \notin {"read", "start", "complete"})
    BY <1>9, <1>10, <1>11
  <2> HIDE DEF me
  <2> QED
    BY <2>1, <2>2, AnswerFacts
<1>14. \/ Holds(p)
       \/ late'[w]
       \/ ~late[w] /\ \A i \in 1 .. Len(checks[w]) : checks'[w][i] = checks[w][i]
  <2> SUFFICES ASSUME ~Holds(p), ~late'[w]
               PROVE  ~late[w] /\ \A i \in 1 .. Len(checks[w]) : checks'[w][i] = checks[w][i]
    OBVIOUS
  <2>1. ~late[w] /\ ~Overtakes(w, c.state, c.run)
    BY <1>11
  <2>2. c.state \in {"start", "complete"} => runs = checks[w]
    BY <1>1, <2>1 DEF Overtakes
  <2> QED
    BY <1>7, <1>10, <2>1, <2>2
<1>15. flying' \in [Publishers -> RequestType] /\ FlightInv(p)' /\ FlyingCreates(w)' = FlyingCreates(w)
  <2>1. flying \in [Publishers -> RequestType] /\ FlightInv(p)
    BY DEF PublicationInv, PublicationTypes
  <2>2. \A u \in Workflows : /\ Len(checks[u]) \in Nat /\ Len(checks'[u]) \in Nat
                             /\ Len(checks[u]) <= Len(checks'[u])
                             /\ saved[u].phase \in Phases /\ saved'[u].phase \in Phases
                             /\ Rank(saved[u].phase) <= Rank(saved'[u].phase)
    <3>1. \A n \in Nat : n <= n
      OBVIOUS
    <3>2. \A x \in Phases : Rank(x) <= Rank(x)
      BY Ranks
    <3>3. \A u \in Workflows : Len(checks[u]) \in Nat /\ saved[u].phase \in Phases
      BY SubjectFacts
    <3> QED
      BY <1>2, <1>8, <1>9, <1>10, <3>1, <3>2, <3>3
  <2>3. FlyingCreates(w)' = FlyingCreates(w)
    BY <1>2 DEF FlyingCreates
  <2> QED
    BY <1>2, <2>1, <2>2, <2>3, FlightKept
<1>16. \A u \in Workflows : CreatesBounded(u)'
  <2> DEFINE new == [Unclaimed EXCEPT !.stage = "done", !.workflow = w, !.outcome = out]
             had == \/ publisher[p].stage = "claimed" /\ MayCreate(w, publisher[p].state)
                    \/ /\ publisher[p].stage = "done" /\ publisher[p].outcome.kind = "retry"
                       /\ MayCreate(w, publisher[p].outcome.cont)
             has == publisher'[p].stage = "done" /\ out.kind = "retry" /\ MayCreate(w, out.cont)'
  <2>1. new.stage = "done" /\ new.workflow = w /\ new.outcome = out
    BY DEF Unclaimed
  <2>2. publisher' = [publisher EXCEPT ![p] = new]
    BY <1>1, <1>2, <1>5 DEF Done
  <2> HIDE DEF new
  <2>3. /\ publisher'[p].stage = "done" /\ publisher'[p].workflow = w /\ publisher'[p].outcome = out
        /\ \A q \in Publishers : q # p => publisher'[q] = publisher[q]
    BY <1>3, <2>1, <2>2
  <2>4. \A q \in Publishers : flying'[q] = flying[q]
    BY <1>2
  <2>5. CASE Holds(p) /\ c.state = "reconcile" /\ runs = << >> /\ InFlight(w)
    <3>1. spare' = [spare EXCEPT ![w] = spare[w] + 1] /\ runs = checks[w]
      BY <1>1, <1>2, <2>5 DEF Applied
    <3>2. spare \in [Workflows -> Nat]
      BY DEF PublicationInv, PublicationTypes
    <3>3. spare'[w] = spare[w] + 1 /\ \A u \in Workflows : u # w => spare'[u] = spare[u]
      BY <1>3, <3>1, <3>2
    <3>4. \A u \in Workflows : checks'[u] = checks[u]
      BY <1>10, <3>1
    <3>5. publisher[p].workflow = w /\ c # SuiteBound
      BY <1>1, <2>5, AnswerFields
    <3> QED
      BY <1>2, <1>3, <2>3, <2>4, <2>5, <3>3, <3>4, <3>5, HastyCreates
  <2>6. CASE ~(Holds(p) /\ c.state = "reconcile" /\ runs = << >> /\ InFlight(w))
    <3>1. \/ /\ Len(checks'[w]) = Len(checks[w]) /\ FlyingCreates(w)' = FlyingCreates(w)
             /\ Holds(p) /\ has => had
          \/ /\ publisher[p].stage = "claimed" /\ publisher[p].state.state = "create" /\ ~has
             /\ FlyingCreates(w) \subseteq FlyingCreates(w)'
             /\ Len(checks'[w]) + Cardinality(FlyingCreates(w)')
                  <= Len(checks[w]) + Cardinality(FlyingCreates(w)) + 1
      <4>1. CASE c.state = "create"
        <5>1. ~has
          BY <1>13, <4>1 DEF MayCreate
        <5>2. Len(checks'[w]) + Cardinality(FlyingCreates(w)')
                  <= Len(checks[w]) + Cardinality(FlyingCreates(w)) + 1
          BY <1>4, <1>7, <1>10, <1>15, <4>1, CreateNumbers
        <5> QED
          BY <1>1, <1>3, <1>15, <4>1, <5>1, <5>2
      <4>2. CASE c.state # "create"
        <5>1. ASSUME Holds(p), has, c.state = "reconcile" PROVE FlyingCreates(w) = {}
          <6>1. runs = checks[w] /\ out = Reconciled(runs)
            BY <1>1, <5>1 DEF Applied, Answer
          <6>2. Len(runs) = 0
            <7>1. out.kind = "retry" /\ out.cont.state \in {"suite", "create", "reconcile"}
              BY <5>1 DEF MayCreate
            <7>2. Len(runs) # 1
              BY <6>1, <7>1, AnswerFields DEF Reconciled
            <7>3. ~(Len(runs) > 1)
              BY <6>1, <7>1, AnswerFields DEF Reconciled
            <7> QED
              BY <1>8, <7>2, <7>3
          <6>3. ~InFlight(w)
            BY <1>7, <2>6, <5>1, <6>2, EmptySeq
          <6> QED
            BY <6>3 DEF InFlight, FlyingCreates
        <5>2. Holds(p) /\ has => had
          BY <1>1, <1>3, <1>13, <4>2, <5>1 DEF MayCreate
        <5> QED
          BY <1>7, <1>10, <1>15, <4>2, <5>2
      <4> QED
        BY <4>1, <4>2
    <3>2. /\ Len(checks'[w]) \in Nat /\ (checks'[w] = << >> => checks[w] = << >>)
          /\ spare' = spare
      <4>1. checks'[w] = << >> => Len(checks[w]) = 0
        BY <1>4, <1>8, <1>9, <1>10
      <4> QED
        BY <1>2, <1>4, <1>8, <1>10, <2>6, <4>1, EmptySeq
    <3> HIDE DEF had, has
    <3>3. had <=> \/ publisher[p].stage = "claimed" /\ MayCreate(w, publisher[p].state)
                  \/ /\ publisher[p].stage = "done" /\ publisher[p].outcome.kind = "retry"
                     /\ MayCreate(w, publisher[p].outcome.cont)
      BY DEF had
    <3>4. has <=> publisher'[p].stage = "done" /\ out.kind = "retry" /\ MayCreate(w, out.cont)'
      BY DEF has
    <3> QED
      BY <1>1, <1>2, <1>3, <1>10, <2>3, <2>4, <3>1, <3>2, <3>3, <3>4, WorkerCreates
  <2> QED
    BY <2>5, <2>6
<1>17. spare' \in [Workflows -> Nat]
  <2>1. spare \in [Workflows -> Nat] /\ spare[w] + 1 \in Nat
    BY <1>3 DEF PublicationInv, PublicationTypes
  <2> QED
    BY <1>2, <2>1
<1> QED
  BY <1>1, <1>2, <1>9, <1>10, <1>11, <1>12, <1>13, <1>14, <1>15, <1>16, <1>17, DoneStep, ZenonT(40)

-----------------------------------------------------------------------------
(* The outbox and its claims.                                              *)

\* A step that leaves the Check Runs alone: what remains to be shown is about
\* the rows, the claims and the requests that it touches.
LEMMA QuietStep ==
  ASSUME PublicationInv, DeliveryInv', PhasesInOrder', saved' = saved, checks' = checks, late' = late,
         outbox' \in [Workflows -> RowType], publisher' \in [Publishers -> ClaimType],
         flying' \in [Publishers -> RequestType], spare' \in [Workflows -> Nat],
         \A w \in Workflows : outbox'[w] = outbox[w] \/ RowInv(w)',
         \A q \in Publishers :
            \/ /\ publisher'[q] = publisher[q]
               /\ Holds(q)' => /\ Holds(q)
                               /\ outbox'[publisher[q].workflow].binding = outbox[publisher[q].workflow].binding
            \/ ClaimInv(q)' /\ OutcomeInv(q)',
         \A q \in Publishers : flying'[q] \in {flying[q], NoRequest} \/ FlightInv(q)',
         \A w \in Workflows : CreatesBounded(w)'
  PROVE  PublicationInv'
<1>1. \A u \in Workflows : /\ Len(checks[u]) \in Nat /\ Len(checks'[u]) \in Nat
                           /\ Len(checks[u]) <= Len(checks'[u])
                           /\ saved[u].phase \in Phases /\ saved'[u].phase \in Phases
                           /\ Rank(saved[u].phase) <= Rank(saved'[u].phase)
  <2>1. \A n \in Nat : n <= n
    OBVIOUS
  <2>2. \A x \in Phases : Rank(x) <= Rank(x)
    BY Ranks
  <2> QED
    BY <2>1, <2>2, SubjectFacts
<1>2. ASSUME NEW w \in Workflows PROVE RowInv(w)' /\ ChecksBehind(w)'
  <2>1. RowInv(w) /\ ChecksBehind(w)
    BY SubjectFacts
  <2>2. outbox[w].state = "completed" => Shown(w, outbox[w].binding)
    BY <2>1 DEF RowInv
  <2>3. ChecksBehind(w)'
    BY <2>1 DEF ChecksBehind
  <2>4. ASSUME outbox'[w] = outbox[w] PROVE RowInv(w)'
    <3>1. outbox[w].state = "completed" => Shown(w, outbox[w].binding)'
      BY <2>2, <2>4 DEF Shown
    <3>2. saved'[w] = saved[w]
      OBVIOUS
    <3> QED
      BY <1>1, <2>1, <2>4, <3>1, <3>2, RowKept
  <2> QED
    BY <2>3, <2>4
<1>3. ASSUME NEW q \in Publishers PROVE ClaimInv(q)' /\ OutcomeInv(q)'
  <2>1. CASE /\ publisher'[q] = publisher[q]
             /\ Holds(q)' => /\ Holds(q)
                             /\ outbox'[publisher[q].workflow].binding = outbox[publisher[q].workflow].binding
    <3> DEFINE w == publisher[q].workflow
               out == publisher[q].outcome
    <3>1. ClaimInv(q) /\ OutcomeInv(q)
      BY PublisherFacts
    <3>2. saved'[w].phase = saved[w].phase
      OBVIOUS
    <3>3. ClaimInv(q)'
      BY <1>1, <2>1, <3>1, <3>2, ClaimKept
    <3>4. ASSUME publisher[q].stage = "done", Holds(q)', out.kind = "published" PROVE Shown(w, out.cont.run)'
      <4>1. Shown(w, out.cont.run)
        BY <2>1, <3>1, <3>4 DEF OutcomeInv
      <4> QED
        BY <2>1, <4>1 DEF Shown
    <3>5. OutcomeInv(q)'
      BY <1>1, <2>1, <3>1, <3>2, <3>4, OutcomeKept
    <3> QED
      BY <3>3, <3>5
  <2> QED
    BY <2>1
<1>4. ASSUME NEW q \in Publishers PROVE FlightInv(q)'
  <2>1. CASE flying'[q] = flying[q]
    BY <1>1, <2>1, FlightKept, PublisherFacts
  <2>2. CASE flying'[q] = NoRequest
    BY <2>2 DEF FlightInv
  <2> QED
    BY <2>1, <2>2
<1>5. PublicationTypes'
  BY DEF PublicationInv, PublicationTypes
<1> QED
  BY <1>2, <1>3, <1>4, <1>5 DEF PublicationInv

\* The types of the publication, opened once.
LEMMA Opened ==
  ASSUME PublicationInv
  PROVE  /\ outbox \in [Workflows -> RowType] /\ publisher \in [Publishers -> ClaimType]
         /\ flying \in [Publishers -> RequestType] /\ spare \in [Workflows -> Nat]
         /\ checks \in [Workflows -> Seq(Phases)] /\ late \in [Workflows -> BOOLEAN]
         /\ \A w \in Workflows : Len(checks[w]) \in Nat
BY SubjectFacts DEF PublicationInv, PublicationTypes

\* A worker stops working on its claim; the row stays claimed until it expires.
LEMMA QuitStep ==
  ASSUME PublicationInv, NEW p \in Publishers, Working(p), DeliveryInv', PhasesInOrder',
         publisher' = [publisher EXCEPT ![p] = Unclaimed],
         saved' = saved, outbox' = outbox, checks' = checks, spare' = spare, late' = late,
         flying' = flying \/ (Claimed(p) /\ Abandoned(p))
  PROVE  PublicationInv'
<1>1. PICK w : w = publisher[p].workflow
  OBVIOUS
<1>2. /\ w \in Workflows /\ Len(checks[w]) \in Nat /\ Unclaimed \in ClaimType
      /\ Unclaimed.stage = "idle" /\ Unclaimed.workflow = 0
  BY <1>1, PublisherFacts, SubjectFacts, ClaimTypes DEF Unclaimed
<1>3. /\ publisher'[p] = Unclaimed /\ \A q \in Publishers : q # p => publisher'[q] = publisher[q]
      /\ publisher' \in [Publishers -> ClaimType]
  <2> HIDE DEF ClaimType
  <2> QED
    BY <1>2, Opened
<1>4. /\ flying' \in [Publishers -> RequestType] /\ (FlightInv(p)' \/ flying'[p] = flying[p])
      /\ \A q \in Publishers : q # p => flying'[q] = flying[q]
      /\ flying'[p] = flying[p] \/ (flying[p] = NoRequest /\ flying'[p].workflow = w)
      /\ \/ FlyingCreates(w)' = FlyingCreates(w)
         \/ /\ Claimed(p) /\ publisher[p].state.state = "create"
            /\ FlyingCreates(w) \subseteq FlyingCreates(w)'
            /\ FlyingCreates(w)' \subseteq FlyingCreates(w) \cup {p}
  <2>1. CASE flying' = flying
    BY <2>1, Opened DEF FlyingCreates
  <2>2. CASE Claimed(p) /\ Abandoned(p)
    BY <1>1, <2>2, AbandonedFacts
  <2> QED
    BY <2>1, <2>2
<1>5. \A u \in Workflows : CreatesBounded(u)'
  <2> DEFINE had == \/ publisher[p].stage = "claimed" /\ MayCreate(w, publisher[p].state)
                    \/ /\ publisher[p].stage = "done" /\ publisher[p].outcome.kind = "retry"
                       /\ MayCreate(w, publisher[p].outcome.cont)
  <2>1. PICK out : out = publisher'[p].outcome
    OBVIOUS
  <2> DEFINE has == publisher'[p].stage = "done" /\ out.kind = "retry" /\ MayCreate(w, out.cont)'
  <2>2. ~has
    BY <1>2, <1>3
  <2>3. \/ /\ Len(checks'[w]) = Len(checks[w]) /\ FlyingCreates(w)' = FlyingCreates(w)
           /\ has => had
        \/ /\ publisher[p].stage = "claimed" /\ publisher[p].state.state = "create" /\ ~has
           /\ FlyingCreates(w) \subseteq FlyingCreates(w)'
           /\ Len(checks'[w]) + Cardinality(FlyingCreates(w)')
                <= Len(checks[w]) + Cardinality(FlyingCreates(w)) + 1
    <3>1. CASE FlyingCreates(w)' = FlyingCreates(w)
      BY <2>2, <3>1
    <3>2. CASE /\ Claimed(p) /\ publisher[p].state.state = "create"
               /\ FlyingCreates(w) \subseteq FlyingCreates(w)'
               /\ FlyingCreates(w)' \subseteq FlyingCreates(w) \cup {p}
      <4>1. Cardinality(FlyingCreates(w)') <= Cardinality(FlyingCreates(w)) + 1
        BY <3>2, CreateNumbers, WorkerSets
      <4>2. Len(checks'[w]) + Cardinality(FlyingCreates(w)')
                <= Len(checks[w]) + Cardinality(FlyingCreates(w)) + 1
        BY <1>2, <4>1, CreateNumbers
      <4> QED
        BY <2>2, <3>2, <4>2 DEF Claimed
    <3> QED
      BY <1>4, <3>1, <3>2
  <2> HIDE DEF had, has
  <2>4. had <=> \/ publisher[p].stage = "claimed" /\ MayCreate(w, publisher[p].state)
                \/ /\ publisher[p].stage = "done" /\ publisher[p].outcome.kind = "retry"
                   /\ MayCreate(w, publisher[p].outcome.cont)
    BY DEF had
  <2>5. has <=> publisher'[p].stage = "done" /\ out.kind = "retry" /\ MayCreate(w, out.cont)'
    BY DEF has
  <2>6. /\ publisher'[p].stage \in {"idle", "done"}
        /\ publisher'[p].stage = "done" => publisher'[p].workflow = w
        /\ publisher'[p].stage = "idle" => publisher'[p].workflow = 0
        /\ \A u \in Workflows : u # w => checks'[u] = checks[u]
        /\ Len(checks'[w]) \in Nat /\ (checks'[w] = << >> => checks[w] = << >>)
    BY <1>2, <1>3
  <2> QED
    BY <1>1, <1>2, <1>3, <1>4, <2>1, <2>3, <2>4, <2>5, <2>6, WorkerCreates
<1>6. \A q \in Publishers :
        \/ /\ publisher'[q] = publisher[q]
           /\ Holds(q)' => /\ Holds(q)
                           /\ outbox'[publisher[q].workflow].binding = outbox[publisher[q].workflow].binding
        \/ ClaimInv(q)' /\ OutcomeInv(q)'
  <2>1. ClaimInv(p)' /\ OutcomeInv(p)'
    BY <1>2, <1>3 DEF ClaimInv, OutcomeInv
  <2>2. \A q \in Publishers : q # p => (Holds(q)' => Holds(q))
    BY <1>3 DEF Holds, Working
  <2> QED
    BY <1>3, <2>1, <2>2
<1>7. \A q \in Publishers : flying'[q] \in {flying[q], NoRequest} \/ FlightInv(q)'
  BY <1>4
<1>8. \A u \in Workflows : outbox'[u] = outbox[u]
  OBVIOUS
<1>9. outbox' \in [Workflows -> RowType] /\ spare' \in [Workflows -> Nat]
  BY Opened
<1> QED
  BY <1>3, <1>4, <1>5, <1>6, <1>7, <1>8, <1>9, QuietStep

\* A request in the air ends: it has appended what it was counted for, or
\* leaves room for another create.
LEMMA EndedCreates ==
  ASSUME PublicationInv, NEW p \in Publishers, NEW w \in Workflows, flying[p].workflow = w,
         flying' = [flying EXCEPT ![p] = NoRequest],
         outbox' = outbox, publisher' = publisher, spare' = spare,
         \A u \in Workflows : u # w => checks'[u] = checks[u], Len(checks'[w]) \in Nat,
         \/ checks'[w] = checks[w]
         \/ flying[p].op # "create" /\ Len(checks'[w]) = Len(checks[w])
         \/ flying[p].op = "create" /\ Len(checks'[w]) = Len(checks[w]) + 1
  PROVE  \A u \in Workflows : CreatesBounded(u)'
<1>1. flying'[p] = NoRequest /\ \A q \in Publishers : q # p => flying'[q] = flying[q]
  BY Opened
<1>2. ASSUME NEW u \in Workflows, u # w PROVE CreatesBounded(u)'
  <2>1. /\ CreatesBounded(u) /\ spare[u] \in Nat /\ Len(checks[u]) \in Nat /\ u # 0
        /\ outbox'[u] = outbox[u] /\ checks'[u] = checks[u] /\ spare'[u] = spare[u]
    BY <1>2, SubjectFacts
  <2>2. NoRequest.workflow = 0
    BY DEF NoRequest
  <2> QED
    BY <1>1, <1>2, <2>1, <2>2, CreatesUntouched
<1> DEFINE L == Len(checks[w])
           LL == Len(checks'[w])
           F == Cardinality(FlyingCreates(w))
           FF == Cardinality(FlyingCreates(w)')
           S == Cardinality(StrayCreates(w))
           SS == Cardinality(StrayCreates(w)')
           D == Due(w)
           DD == Due(w)'
           s == spare[w]
<1>3. /\ L \in Nat /\ LL \in Nat /\ F \in Nat /\ FF \in Nat /\ S \in Nat /\ SS \in Nat
      /\ D \in 0 .. 1 /\ DD \in 0 .. 1 /\ s \in Nat /\ checks[w] \in Seq(Phases)
  BY CreateNumbers, SubjectFacts
<1>4. StrayCreates(w)' = StrayCreates(w)
  BY DEF StrayCreates, Holds, Working
<1>5. FlyingCreates(w)' = FlyingCreates(w) \ {p}
  BY <1>1 DEF FlyingCreates, NoRequest
<1>6. CASE flying[p].op = "create"
  <2>1. p \in FlyingCreates(w)
    BY <1>6 DEF FlyingCreates
  <2>2. FF + 1 <= F
    BY <1>5, <2>1, CreateNumbers, WorkerSets
  <2>3. LL = L + 1 => DD <= D
    <3>1. ASSUME LL = L + 1, UnderWay(w)' PROVE UnderWay(w)
      <4>1. checks'[w] # << >>
        BY <1>3, <3>1
      <4>2. \A c : MayCreate(w, c)' => MayCreate(w, c)
        BY <4>1 DEF MayCreate
      <4>3. \A q \in Publishers : Holds(q)' <=> Holds(q)
        BY DEF Holds, Working
      <4> QED
        BY <3>1, <4>2, <4>3 DEF UnderWay
    <3> QED
      BY <1>3, <3>1 DEF Due
  <2>4. LL = L \/ LL = L + 1
    BY <1>6
  <2>5. SS = S
    BY <1>4
  <2> HIDE DEF L, LL, F, FF, S, SS, D, DD, s
  <2>6. LL + FF + SS + DD + s <= L + F + S + D + s
    BY <1>3, <2>2, <2>3, <2>4, <2>5
  <2> QED
    BY <1>2, <1>3, <2>6, SumKept, SubjectFacts DEF L, LL, F, FF, S, SS, D, DD, s
<1>7. CASE flying[p].op # "create"
  <2>1. FlyingCreates(w)' = FlyingCreates(w)
    BY <1>5, <1>7 DEF FlyingCreates
  <2>2. LL = L
    BY <1>7
  <2>3. checks'[w] = << >> => checks[w] = << >>
    BY <1>3, <2>2, EmptySeq
  <2>4. UnderWay(w)' => UnderWay(w)
    <3>1. \A c : MayCreate(w, c)' => MayCreate(w, c)
      BY <2>1, <2>3, MayCreateBefore
    <3>2. \A q \in Publishers : Holds(q)' <=> Holds(q)
      BY DEF Holds, Working
    <3> QED
      BY <3>1, <3>2 DEF UnderWay
  <2>5. DD <= D
    BY <2>4 DEF Due
  <2>6. SS = S /\ FF = F
    BY <1>4, <2>1
  <2> HIDE DEF L, LL, F, FF, S, SS, D, DD, s
  <2>7. LL + FF + SS + DD + s <= L + F + S + D + s
    BY <1>3, <2>2, <2>5, <2>6
  <2> QED
    BY <1>2, <1>3, <2>7, SumKept, SubjectFacts DEF L, LL, F, FF, S, SS, D, DD, s
<1> QED
  BY <1>6, <1>7

\* An abandoned request never takes effect.
LEMMA LoseStep ==
  ASSUME PublicationInv, NEW p \in Publishers, Lose(p), DeliveryInv', PhasesInOrder'
  PROVE  PublicationInv'
<1>1. /\ flying[p] # NoRequest /\ flying' = [flying EXCEPT ![p] = NoRequest]
      /\ outbox' = outbox /\ publisher' = publisher /\ spare' = spare /\ checks' = checks
      /\ late' = late /\ saved' = saved
  BY DEF Lose, deliveryVars
<1>2. flying[p].workflow \in Workflows
  BY <1>1, PublisherFacts DEF FlightInv
<1>3. flying' \in [Publishers -> RequestType] /\ \A q \in Publishers : flying'[q] \in {flying[q], NoRequest}
  BY <1>1, Opened, ClaimTypes
<1>4. \A u \in Workflows : CreatesBounded(u)'
  BY <1>1, <1>2, EndedCreates, Opened
<1>5. \A q \in Publishers :
        /\ publisher'[q] = publisher[q]
        /\ Holds(q)' => /\ Holds(q)
                        /\ outbox'[publisher[q].workflow].binding = outbox[publisher[q].workflow].binding
  BY <1>1 DEF Holds, Working
<1> QED
  BY <1>1, <1>3, <1>4, <1>5, Opened, QuietStep

\* What an abandoned request does to the Check Runs of its subject.
LEMMA LandFacts ==
  ASSUME PublicationInv, NEW p \in Publishers, NEW r, r = flying[p], r # NoRequest,
         NEW w, w = r.workflow, NEW runs, runs = Applied(checks[w], r.op, r.run)
  PROVE  /\ runs \in Seq(Phases) /\ Len(runs) \in Nat
         /\ r.op = "create" => Len(runs) = Len(checks[w]) + 1
         /\ r.op # "create" => Len(runs) = Len(checks[w])
         /\ r.op \notin {"start", "complete"} => \A i \in 1 .. Len(checks[w]) : runs[i] = checks[w][i]
         /\ \A i \in 1 .. Len(runs) : Rank(runs[i]) <= Rank(saved[w].phase)
<1>1. /\ w \in Workflows /\ Reached(w, r.op)
      /\ r.op \in {"start", "complete"} => r.run \in 1 .. Len(checks[w])
  BY PublisherFacts DEF FlightInv, Mutations
<1>2. checks[w] \in Seq(Phases) /\ Len(checks[w]) \in Nat /\ saved[w].phase \in Phases /\ ChecksBehind(w)
  BY <1>1, SubjectFacts
<1>3. RunKnown(w, r.op, r.run)
  BY <1>1 DEF RunKnown
<1>4. Took(w, r.op, r.run, runs)
  BY <1>1, <1>2, <1>3, AppliedTook
<1> QED
  BY <1>2, <1>4 DEF Took

\* An abandoned request takes effect.
LEMMA LandStep ==
  ASSUME PublicationInv, NEW p \in Publishers, Land(p), DeliveryInv', PhasesInOrder'
  PROVE  PublicationInv'
<1>1. PICK r, w, runs : r = flying[p] /\ w = r.workflow /\ runs = Applied(checks[w], r.op, r.run)
  OBVIOUS
<1>2. /\ r # NoRequest /\ Admissible(w, r.op)
      /\ checks' = [checks EXCEPT ![w] = runs]
      /\ late' = [late EXCEPT ![w] = late[w] \/ Overtakes(w, r.op, r.run)]
      /\ flying' = [flying EXCEPT ![p] = NoRequest]
      /\ outbox' = outbox /\ publisher' = publisher /\ spare' = spare /\ saved' = saved
  BY <1>1 DEF Land, deliveryVars
<1>3. /\ w \in Workflows /\ r.op \in Mutations /\ Reached(w, r.op)
      /\ r.op # "create" => r.run \in 1 .. Len(checks[w])
  BY <1>1, <1>2, PublisherFacts DEF FlightInv
<1>4. \A u \in Workflows : /\ checks[u] \in Seq(Phases) /\ Len(checks[u]) \in Nat /\ Len(checks[u]) <= MaxChecks
                           /\ saved[u].phase \in Phases /\ RowInv(u) /\ ChecksBehind(u)
  BY SubjectFacts
<1>5. /\ runs \in Seq(Phases)
      /\ r.op = "create" => Len(runs) = Len(checks[w]) + 1
      /\ r.op # "create" => Len(runs) = Len(checks[w])
      /\ r.op \notin {"start", "complete"} => \A i \in 1 .. Len(checks[w]) : runs[i] = checks[w][i]
      /\ \A i \in 1 .. Len(runs) : Rank(runs[i]) <= Rank(saved[w].phase)
  BY <1>1, <1>2, LandFacts, SMTT(20)
<1>6. Len(runs) \in Nat /\ Len(checks[w]) <= Len(runs) /\ Len(runs) <= MaxChecks
  <2>1. Len(runs) \in Nat
    BY <1>5
  <2>2. r.op = "create" => Len(checks[w]) < MaxChecks
    BY <1>2 DEF Admissible
  <2>3. MaxChecks \in Nat /\ Len(checks[w]) \in Nat /\ Len(checks[w]) <= MaxChecks
    BY <1>3, <1>4, PublicationAssumption
  <2> QED
    BY <1>5, <2>1, <2>2, <2>3
<1>7. /\ checks' \in [Workflows -> Seq(Phases)] /\ checks'[w] = runs
      /\ \A u \in Workflows : u # w => checks'[u] = checks[u]
  BY <1>2, <1>3, <1>5, Opened, Zenon
<1>8. /\ late' \in [Workflows -> BOOLEAN] /\ (late[w] \/ Overtakes(w, r.op, r.run) <=> late'[w])
      /\ \A u \in Workflows : u # w => late'[u] = late[u]
  <2>1. (late[w] \/ Overtakes(w, r.op, r.run)) \in BOOLEAN
    BY Zenon
  <2> QED
    BY <1>2, <1>3, <2>1, Opened, Zenon
<1>9. /\ flying' \in [Publishers -> RequestType] /\ flying'[p] = NoRequest
      /\ \A q \in Publishers : q # p => flying'[q] = flying[q]
  BY <1>2, Opened, ClaimTypes
<1>10. \A u \in Workflows : /\ Len(checks[u]) \in Nat /\ Len(checks'[u]) \in Nat
                            /\ Len(checks[u]) <= Len(checks'[u]) /\ Len(checks'[u]) <= MaxChecks
                            /\ saved[u].phase \in Phases /\ saved'[u].phase \in Phases
                            /\ Rank(saved[u].phase) <= Rank(saved'[u].phase)
  <2>1. \A n \in Nat : n <= n
    OBVIOUS
  <2>2. \A x \in Phases : Rank(x) <= Rank(x)
    BY Ranks
  <2> QED
    BY <1>2, <1>4, <1>6, <1>7, <2>1, <2>2
<1>11. ASSUME NEW u \in Workflows, NEW run \in 1 .. Len(checks[u]), Shown(u, run) PROVE Shown(u, run)'
  <2>1. CASE u # w
    BY <1>2, <1>7, <1>8, <1>11, <2>1 DEF Shown
  <2>2. CASE u = w /\ late'[w]
    BY <2>2 DEF Shown
  <2>3. CASE u = w /\ ~late'[w]
    <3>1. ~late[w] /\ ~Overtakes(w, r.op, r.run)
      BY <1>8, <2>3
    <3>2. r.op \in {"start", "complete"} => runs = checks[w]
      BY <1>1, <3>1 DEF Overtakes
    <3>3. runs[run] = checks[w][run]
      BY <1>5, <1>11, <2>3, <3>2
    <3> QED
      BY <1>2, <1>7, <1>11, <2>3, <3>1, <3>3 DEF Shown
  <2> QED
    BY <2>1, <2>2, <2>3
<1>12. \A q \in Publishers : publisher'[q] = publisher[q] /\ (Holds(q)' <=> Holds(q))
  BY <1>2 DEF Holds, Working
<1>13. ASSUME NEW u \in Workflows PROVE RowInv(u)' /\ ChecksBehind(u)'
  <2>1. ASSUME outbox[u].state = "completed" PROVE Shown(u, outbox[u].binding)'
    <3>1. /\ outbox[u].binding \in 0 .. Len(checks[u]) /\ outbox[u].binding # 0
          /\ Shown(u, outbox[u].binding)
      BY <1>4, <2>1 DEF RowInv
    <3>2. outbox[u].binding \in 1 .. Len(checks[u])
      BY <1>4, <3>1
    <3> QED
      BY <1>2, <1>11, <3>1, <3>2 DEF Shown
  <2>2. RowInv(u)'
    BY <1>2, <1>4, <1>10, <2>1, RowKept
  <2>3. ChecksBehind(u)'
    BY <1>2, <1>4, <1>5, <1>7 DEF ChecksBehind
  <2> QED
    BY <2>2, <2>3
<1>14. ASSUME NEW q \in Publishers PROVE ClaimInv(q)' /\ OutcomeInv(q)' /\ FlightInv(q)'
  <2> DEFINE v == publisher[q].workflow
             o == publisher[q].outcome
  <2>1. ClaimInv(q) /\ OutcomeInv(q) /\ FlightInv(q)
    BY PublisherFacts
  <2>2. saved'[v] = saved[v] /\ outbox'[v] = outbox[v]
    BY <1>2
  <2>3. ClaimInv(q)'
    BY <1>10, <1>12, <2>1, <2>2, ClaimKept
  <2>4. ASSUME publisher[q].stage = "done", Holds(q)', o.kind = "published" PROVE Shown(v, o.cont.run)'
    <3>1. v \in Workflows /\ Holds(q)
      BY <1>12, <2>1, <2>4 DEF OutcomeInv
    <3>2. o.cont.run # 0 /\ Shown(v, o.cont.run) /\ o.cont.run \in 0 .. Len(checks[v])
      BY <2>1, <2>4, <3>1 DEF OutcomeInv, Fits
    <3>3. o.cont.run \in 1 .. Len(checks[v])
      BY <1>4, <3>1, <3>2
    <3> QED
      BY <1>11, <1>12, <3>1, <3>2, <3>3 DEF Shown
  <2>5. OutcomeInv(q)'
    BY <1>10, <1>12, <2>1, <2>2, <2>4, OutcomeKept
  <2>6. FlightInv(q)'
    <3>1. CASE q = p
      BY <1>9, <3>1 DEF FlightInv
    <3>2. CASE q # p
      BY <1>9, <1>10, <2>1, <3>2, FlightKept
    <3> QED
      BY <3>1, <3>2
  <2> QED
    BY <2>3, <2>5, <2>6
<1>15. \A u \in Workflows : CreatesBounded(u)'
  <2>1. \/ flying[p].op # "create" /\ Len(checks'[w]) = Len(checks[w])
        \/ flying[p].op = "create" /\ Len(checks'[w]) = Len(checks[w]) + 1
    BY <1>1, <1>5, <1>7
  <2> QED
    BY <1>1, <1>2, <1>3, <1>6, <1>7, <2>1, EndedCreates
<1>16. PublicationTypes'
  <2>1. outbox \in [Workflows -> RowType] /\ publisher \in [Publishers -> ClaimType] /\ spare \in [Workflows -> Nat]
    BY Opened
  <2> QED
    BY <1>2, <1>7, <1>8, <1>9, <1>10, <2>1, Zenon DEF PublicationTypes
<1> QED
  BY <1>13, <1>14, <1>15, <1>16 DEF PublicationInv

\* A claim runs out; its worker still has it in hand.
LEMMA ExpireResultStep ==
  ASSUME PublicationInv, NEW w \in Workflows, ExpireResult(w), DeliveryInv', PhasesInOrder'
  PROVE  PublicationInv'
<1>1. /\ outbox[w].state = "claimed" /\ outbox' = [outbox EXCEPT ![w] = [outbox[w] EXCEPT !.live = FALSE]]
      /\ publisher' = publisher /\ flying' = flying /\ checks' = checks /\ spare' = spare /\ late' = late
      /\ saved' = saved
  BY DEF ExpireResult
<1>2. PICK row : row = [outbox[w] EXCEPT !.live = FALSE]
  OBVIOUS
<1>3. /\ row \in RowType /\ row.state = outbox[w].state /\ row.owner = outbox[w].owner
      /\ row.binding = outbox[w].binding /\ row.cont = outbox[w].cont /\ row.failure = outbox[w].failure
  <2>1. outbox[w] \in RowType
    BY SubjectFacts
  <2> HIDE DEF ContType
  <2> QED
    BY <1>2, <2>1 DEF RowType
<1>4. /\ outbox' \in [Workflows -> RowType] /\ outbox'[w] = row
      /\ \A u \in Workflows : u # w => outbox'[u] = outbox[u]
  BY <1>1, <1>2, <1>3, Opened
<1>5. RowInv(w)'
  BY <1>1, <1>3, <1>4, SubjectFacts DEF RowInv, Fits, Desired
<1>6. \A q \in Publishers : Working(q) => publisher[q].workflow \in Workflows
  BY PublisherFacts
<1>7. \A q \in Publishers : /\ Holds(q)' <=> Holds(q)
                            /\ Holds(q) => outbox'[publisher[q].workflow].binding = outbox[publisher[q].workflow].binding
  BY <1>1, <1>3, <1>4, <1>6 DEF Holds, Working
<1>8. ASSUME NEW u \in Workflows PROVE CreatesBounded(u)'
  <2>1. FlyingCreates(u)' = FlyingCreates(u)
    BY <1>1 DEF FlyingCreates
  <2>2. StrayCreates(u)' = StrayCreates(u)
    BY <1>1, <1>7 DEF StrayCreates
  <2>3. \A c : MayCreate(u, c)' <=> MayCreate(u, c)
    BY <1>1, <2>1 DEF MayCreate
  <2>4. outbox'[u].state = outbox[u].state /\ (outbox'[u] # outbox[u] => outbox[u].state = "claimed")
    BY <1>1, <1>3, <1>4
  <2>5. UnderWay(u)' => UnderWay(u)
    BY <1>1, <1>7, <2>3, <2>4 DEF UnderWay
  <2>6. Due(u)' <= Due(u)
    BY <2>5 DEF Due
  <2>7. CreatesBounded(u) /\ spare[u] \in Nat /\ Len(checks[u]) \in Nat /\ checks'[u] = checks[u] /\ spare'[u] = spare[u]
    BY <1>1, SubjectFacts
  <2> QED
    BY <2>1, <2>2, <2>6, <2>7, CreateNumbers, SumKept
<1>9. \A q \in Publishers :
        /\ publisher'[q] = publisher[q]
        /\ Holds(q)' => /\ Holds(q)
                        /\ outbox'[publisher[q].workflow].binding = outbox[publisher[q].workflow].binding
  BY <1>1, <1>7
<1>10. \A u \in Workflows : outbox'[u] = outbox[u] \/ RowInv(u)'
  BY <1>4, <1>5
<1>11. /\ publisher' \in [Publishers -> ClaimType] /\ flying' \in [Publishers -> RequestType]
       /\ spare' \in [Workflows -> Nat] /\ \A q \in Publishers : flying'[q] = flying[q]
  BY <1>1, Opened
<1> QED
  BY <1>1, <1>4, <1>8, <1>9, <1>10, <1>11, QuietStep

\* The row that an exact settlement leaves.
LEMMA SettledRow ==
  ASSUME PublicationInv, NEW p \in Publishers, Settle(p), Valid(p), NEW w, w = publisher[p].workflow
  PROVE  \E new : /\ outbox' = [outbox EXCEPT ![w] = new] /\ new \in RowType /\ new.owner = Nobody
                  /\ \/ /\ publisher[p].outcome.kind = "published" /\ new.state = "completed" /\ new.cont = NoCont
                        /\ new.binding = publisher[p].outcome.cont.run /\ new.failure = "none"
                     \/ /\ publisher[p].outcome.kind = "retry" /\ new.state = "pending"
                        /\ new.cont = publisher[p].outcome.cont
                        /\ new.binding = outbox[w].binding /\ new.failure = outbox[w].failure
                     \/ /\ new.state = "failed" /\ new.cont = NoCont /\ new.binding = outbox[w].binding
                        /\ \/ new.failure = "attempt-limit"
                           \/ publisher[p].outcome.kind = "failed" /\ new.failure = publisher[p].outcome.failure
<1>1. PICK out, row : out = publisher[p].outcome /\ row = outbox[w]
  OBVIOUS
<1>2. w \in Workflows /\ publisher[p].stage = "done"
  BY PublisherFacts DEF Valid, Holds, Settle
<1>3. /\ out \in OutcomeType /\ row \in RowType
  <2>1. publisher[p] \in ClaimType /\ row \in RowType
    BY <1>1, <1>2, PublisherFacts, SubjectFacts
  <2> QED
    BY <1>1, <2>1 DEF ClaimType
<1>4. /\ out.kind \in {"published", "retry", "failed"} /\ out.cont \in ContType /\ out.failure \in FailureType
      /\ out.cont.run \in 0 .. MaxChecks
      /\ row.attempts \in 0 .. MaxPublications /\ row.binding \in 0 .. MaxChecks /\ row.failure \in FailureType
  BY <1>3 DEF OutcomeType, RowType, ContType
<1>5. "attempt-limit" \in FailureType /\ "none" \in FailureType
  BY DEF FailureType
<1> DEFINE published == [Row("completed") EXCEPT !.attempts = row.attempts, !.binding = out.cont.run]
           again == [row EXCEPT !.state = "pending", !.owner = Nobody, !.live = FALSE, !.cont = out.cont]
           settled == CASE out.kind = "published" -> published
                        [] out.kind = "retry" /\ row.attempts < MaxPublications -> again
                        [] out.kind = "retry" /\ row.attempts >= MaxPublications -> FailedRow(row, "attempt-limit")
                        [] out.kind = "failed" -> FailedRow(row, out.failure)
<1>6. outbox' = [outbox EXCEPT ![w] = settled]
  BY <1>1 DEF Settle
<1>7. /\ published \in RowType /\ published.owner = Nobody /\ published.state = "completed"
      /\ published.cont = NoCont /\ published.binding = out.cont.run /\ published.failure = "none"
  BY <1>4, <1>5, ContTypes DEF RowType, Row
<1>8. /\ again \in RowType /\ again.owner = Nobody /\ again.state = "pending" /\ again.cont = out.cont
      /\ again.binding = row.binding /\ again.failure = row.failure
  BY <1>3, <1>4 DEF RowType
<1>9. ASSUME NEW f \in FailureType PROVE
        LET new == FailedRow(row, f) IN
        /\ new \in RowType /\ new.owner = Nobody /\ new.state = "failed" /\ new.cont = NoCont
        /\ new.binding = row.binding /\ new.failure = f
  <2>1. FailedRow(row, f) \in RowType
    BY <1>3, <1>9, RowTypes
  <2> QED
    BY <2>1 DEF FailedRow, Row
<1> HIDE DEF published, again
<1>10. row.attempts < MaxPublications <=> ~(row.attempts >= MaxPublications)
  BY <1>4, PublicationAssumption
<1>11. CASE out.kind = "published"
  <2>1. settled = published
    BY <1>11
  <2> HIDE DEF settled
  <2> QED
    BY <1>1, <1>6, <1>7, <1>11, <2>1
<1>12. CASE out.kind = "retry" /\ row.attempts < MaxPublications
  <2>1. settled = again
    BY <1>10, <1>12
  <2> HIDE DEF settled
  <2> QED
    BY <1>1, <1>6, <1>8, <1>12, <2>1
<1>13. CASE out.kind = "retry" /\ ~(row.attempts < MaxPublications)
  <2>1. settled = FailedRow(row, "attempt-limit")
    BY <1>10, <1>13
  <2> HIDE DEF settled
  <2>2. PICK new : new = settled
    OBVIOUS
  <2>3. /\ new \in RowType /\ new.owner = Nobody /\ new.state = "failed" /\ new.cont = NoCont
        /\ new.binding = row.binding /\ new.failure = "attempt-limit"
    BY <1>5, <1>9, <2>1, <2>2
  <2> QED
    BY <1>1, <1>6, <1>13, <2>2, <2>3
<1>14. CASE out.kind = "failed"
  <2>1. settled = FailedRow(row, out.failure)
    BY <1>14
  <2> HIDE DEF settled
  <2>2. PICK new : new = settled
    OBVIOUS
  <2>3. /\ new \in RowType /\ new.owner = Nobody /\ new.state = "failed" /\ new.cont = NoCont
        /\ new.binding = row.binding /\ new.failure = out.failure
    BY <1>4, <1>9, <2>1, <2>2
  <2> QED
    BY <1>1, <1>6, <1>14, <2>2, <2>3
<1> QED
  BY <1>4, <1>11, <1>12, <1>13, <1>14

\* A worker settles its claim.
LEMMA SettleStep ==
  ASSUME PublicationInv, NEW p \in Publishers, Settle(p), DeliveryInv', PhasesInOrder'
  PROVE  PublicationInv'
<1>1. /\ publisher[p].stage = "done" /\ publisher' = [publisher EXCEPT ![p] = Unclaimed]
      /\ flying' = flying /\ checks' = checks /\ spare' = spare /\ late' = late /\ saved' = saved
      /\ ~Valid(p) => outbox' = outbox
  BY DEF Settle, deliveryVars
<1>2. Working(p)
  BY <1>1 DEF Working
<1>3. CASE ~Valid(p)
  BY <1>1, <1>2, <1>3, QuitStep
<1>4. CASE Valid(p)
  <2>1. PICK w, out, row : w = publisher[p].workflow /\ out = publisher[p].outcome /\ row = outbox[w]
    OBVIOUS
  <2>2. PICK new : /\ outbox' = [outbox EXCEPT ![w] = new] /\ new \in RowType /\ new.owner = Nobody
                   /\ \/ /\ out.kind = "published" /\ new.state = "completed" /\ new.cont = NoCont
                         /\ new.binding = out.cont.run /\ new.failure = "none"
                      \/ /\ out.kind = "retry" /\ new.state = "pending" /\ new.cont = out.cont
                         /\ new.binding = row.binding /\ new.failure = row.failure
                      \/ /\ new.state = "failed" /\ new.cont = NoCont /\ new.binding = row.binding
                         /\ new.failure = "attempt-limit" \/ (out.kind = "failed" /\ new.failure = out.failure)
    BY <1>4, <2>1, SettledRow
  <2>3. Holds(p) /\ w \in Workflows /\ row.state = "claimed" /\ row.owner = p
        /\ \A q \in Publishers : Holds(q) /\ publisher[q].workflow = w => q = p
    BY <1>4, <2>1, HolderFacts DEF Valid
  <2>4. /\ outbox' \in [Workflows -> RowType] /\ outbox'[w] = new
        /\ \A u \in Workflows : u # w => outbox'[u] = outbox[u]
    BY <2>2, <2>3, Opened
  <2>5. /\ publisher' \in [Publishers -> ClaimType] /\ publisher'[p] = Unclaimed
        /\ \A q \in Publishers : q # p => publisher'[q] = publisher[q]
    BY <1>1, Opened, ClaimTypes
  <2>6. Unclaimed.stage = "idle" /\ Unclaimed.workflow = 0
    BY DEF Unclaimed
  <2>7. Nobody \notin Publishers
    BY PublicationAssumption
  <2>8. /\ RowInv(w) /\ Len(checks[w]) \in Nat
        /\ out.kind # "failed" => /\ out.cont.state # "none" /\ Fits(w, out.cont) /\ Desired(w, out.cont.state)
                                  /\ row.binding # 0 => out.cont.run = row.binding
        /\ out.kind = "published" => out.cont.run # 0 /\ Shown(w, out.cont.run)
        /\ out.kind = "failed" /\ out.failure = "conflict" => Len(checks[w]) > 1
    BY <1>1, <2>1, <2>3, PublisherFacts, SubjectFacts DEF OutcomeInv
  <2>9. RowInv(w)'
    <3>1. Fits(w, NoCont) /\ Desired(w, NoCont.state)
      BY <2>8 DEF Fits, Desired, NoCont, At
    <3>2. \A c : (Fits(w, c)' <=> Fits(w, c)) /\ (Desired(w, c.state)' <=> Desired(w, c.state))
      BY <1>1 DEF Fits, Desired
    <3>3. \A n : Shown(w, n)' <=> Shown(w, n)
      BY <1>1 DEF Shown
    <3>4. row.binding \in 0 .. Len(checks[w]) /\ (row.failure = "conflict" => Len(checks[w]) > 1)
      BY <2>1, <2>8 DEF RowInv
    <3>5. out.kind # "failed" => out.cont.run \in 0 .. Len(checks[w])
      BY <2>8 DEF Fits
    <3>6. new.owner = Nobody /\ outbox'[w] = new /\ checks' = checks
      BY <1>1, <2>2, <2>4
    <3>7. CASE out.kind = "published" /\ new.state = "completed" /\ new.cont = NoCont
               /\ new.binding = out.cont.run /\ new.failure = "none"
      BY <2>8, <3>1, <3>2, <3>3, <3>5, <3>6, <3>7 DEF RowInv
    <3>8. CASE out.kind = "retry" /\ new.state = "pending" /\ new.cont = out.cont
               /\ new.binding = row.binding /\ new.failure = row.failure
      BY <2>8, <3>2, <3>4, <3>6, <3>8 DEF RowInv
    <3>9. CASE new.state = "failed" /\ new.cont = NoCont /\ new.binding = row.binding
               /\ (new.failure = "attempt-limit" \/ (out.kind = "failed" /\ new.failure = out.failure))
      BY <2>8, <3>1, <3>2, <3>4, <3>6, <3>9 DEF RowInv
    <3> QED
      BY <2>2, <3>7, <3>8, <3>9
  <2>10. ~Holds(p)' /\ \A q \in Publishers : q # p => (Holds(q)' <=> Holds(q))
    <3>1. ~Holds(p)'
      BY <2>5, <2>6 DEF Holds, Working
    <3>2. ASSUME NEW q \in Publishers, q # p, Working(q) PROVE Holds(q)' <=> Holds(q)
      <4>1. publisher[q].workflow \in Workflows /\ publisher'[q] = publisher[q]
        BY <2>5, <3>2, PublisherFacts
      <4> QED
        BY <2>1, <2>2, <2>3, <2>4, <2>7, <3>2, <4>1 DEF Holds, Working
    <3>3. ASSUME NEW q \in Publishers, q # p, ~Working(q) PROVE Holds(q)' <=> Holds(q)
      BY <2>5, <3>3 DEF Holds, Working
    <3> QED
      BY <3>1, <3>2, <3>3
  <2>11. ASSUME NEW u \in Workflows PROVE CreatesBounded(u)'
    <3>1. /\ CreatesBounded(u) /\ spare[u] \in Nat /\ Len(checks[u]) \in Nat /\ u # 0
          /\ checks'[u] = checks[u] /\ spare'[u] = spare[u]
      BY <1>1, SubjectFacts
    <3>2. CASE u # w
      BY <1>1, <2>1, <2>4, <2>5, <2>6, <3>1, <3>2, CreatesUntouched
    <3>3. CASE u = w
      <4>1. FlyingCreates(w)' = FlyingCreates(w)
        BY <1>1 DEF FlyingCreates
      <4>2. StrayCreates(w)' = StrayCreates(w)
        BY <1>1, <2>5, <2>6, <2>10 DEF StrayCreates
      <4>3. \A c : MayCreate(w, c)' <=> MayCreate(w, c)
        BY <1>1, <4>1 DEF MayCreate
      <4>4. ASSUME new.state = "pending" PROVE out.kind = "retry" /\ RecoverState(new) = out.cont
        <5>1. out.kind = "retry" /\ new.cont = out.cont /\ out.cont.state # "none"
          BY <2>2, <2>8, <4>4
        <5>2. out.cont # NoCont
          BY <5>1 DEF NoCont, At
        <5> QED
          BY <5>1, <5>2 DEF RecoverState
      <4>5. new.state # "absent"
        BY <2>2
      <4>6. ASSUME UnderWay(w)' PROVE UnderWay(w)
        <5>1. ~\E q \in Publishers : Holds(q)' /\ publisher'[q].workflow = w
          BY <2>3, <2>5, <2>10
        <5>2. new.state = "pending" /\ MayCreate(w, RecoverState(new))'
          BY <2>4, <4>5, <4>6, <5>1 DEF UnderWay
        <5>3. out.kind = "retry" /\ MayCreate(w, out.cont)
          BY <4>3, <4>4, <5>2
        <5> QED
          BY <1>1, <2>1, <2>3, <5>3 DEF UnderWay
      <4>7. Due(w)' <= Due(w)
        BY <4>6 DEF Due
      <4> QED
        BY <3>1, <3>3, <4>1, <4>2, <4>7, CreateNumbers, SumKept
    <3> QED
      BY <3>2, <3>3
  <2>12. ClaimInv(p)' /\ OutcomeInv(p)'
    BY <2>5, <2>6 DEF ClaimInv, OutcomeInv
  <2>13. ASSUME NEW q \in Publishers, q # p, Holds(q)'
         PROVE Holds(q) /\ outbox'[publisher[q].workflow].binding = outbox[publisher[q].workflow].binding
    <3>1. Holds(q) /\ publisher[q].workflow \in Workflows /\ publisher[q].workflow # w
      BY <2>3, <2>10, <2>13, HolderFacts
    <3> QED
      BY <2>4, <3>1
  <2>14. \A q \in Publishers :
          \/ /\ publisher'[q] = publisher[q]
             /\ Holds(q)' => /\ Holds(q)
                             /\ outbox'[publisher[q].workflow].binding = outbox[publisher[q].workflow].binding
          \/ ClaimInv(q)' /\ OutcomeInv(q)'
    BY <2>5, <2>12, <2>13
  <2>15. \A u \in Workflows : outbox'[u] = outbox[u] \/ RowInv(u)'
    BY <2>4, <2>9
  <2>16. /\ flying' \in [Publishers -> RequestType] /\ spare' \in [Workflows -> Nat]
         /\ \A q \in Publishers : flying'[q] = flying[q]
    BY <1>1, Opened
  <2> QED
    BY <1>1, <2>4, <2>5, <2>11, <2>14, <2>15, <2>16, QuietStep
<1> QED
  BY <1>3, <1>4

\* claim_result_inner fails the expired claims at the limit first.
SweptRow(row) ==
    IF Expired(row) /\ row.attempts = MaxPublications THEN FailedRow(row, "attempt-limit") ELSE row

\* The sweep only fails rows whose last claim has run out.
LEMMA SweptFacts ==
  ASSUME PublicationInv, NEW u \in Workflows, NEW new, new = SweptRow(outbox[u])
  PROVE  /\ new \in RowType
         /\ new # outbox[u] =>
                /\ new.state = "failed" /\ new.owner = Nobody /\ new.cont = NoCont
                /\ new.binding = outbox[u].binding /\ new.failure = "attempt-limit"
<1>1. PICK row : row = outbox[u] /\ row \in RowType
  BY SubjectFacts
<1>2. CASE Expired(row) /\ row.attempts = MaxPublications
  <2>1. new = FailedRow(row, "attempt-limit")
    BY <1>1, <1>2 DEF SweptRow
  <2>2. "attempt-limit" \in FailureType
    BY DEF FailureType
  <2>3. new \in RowType
    BY <1>1, <2>1, <2>2, RowTypes
  <2>4. /\ new.state = "failed" /\ new.owner = Nobody /\ new.cont = NoCont
        /\ new.binding = row.binding /\ new.failure = "attempt-limit"
    BY <2>1 DEF FailedRow, Row
  <2> QED
    BY <1>1, <2>3, <2>4
<1>3. CASE ~(Expired(row) /\ row.attempts = MaxPublications)
  BY <1>1, <1>3 DEF SweptRow
<1> QED
  BY <1>2, <1>3

\* What a worker finds when it claims a row.
LEMMA RecoverFacts ==
  ASSUME PublicationInv, NEW w \in Workflows, NEW c, c = RecoverState(outbox[w])
  PROVE  /\ c \in ContType /\ c.state # "none" /\ Fits(w, c) /\ Desired(w, c.state) /\ Reached(w, c.state)
         /\ outbox[w].binding # 0 => c.run = outbox[w].binding /\ c.state \notin {"suite", "create", "reconcile"}
<1>1. PICK row : row = outbox[w]
  OBVIOUS
<1>2. /\ row \in RowType /\ row.binding \in 0 .. Len(checks[w]) /\ Len(checks[w]) \in Nat /\ Len(checks[w]) <= MaxChecks
      /\ row.cont # NoCont => /\ row.cont.state # "none" /\ Fits(w, row.cont) /\ Desired(w, row.cont.state)
                              /\ row.binding # 0 => row.cont.run = row.binding
  BY <1>1, SubjectFacts DEF RowInv
<1>3. \A op : Desired(w, op) => Reached(w, op)
  BY Ranks DEF Desired, Reached
<1>4. CASE row.cont # NoCont
  <2>1. c = row.cont
    BY <1>1, <1>4 DEF RecoverState
  <2>2. row.cont \in ContType
    BY <1>2 DEF RowType
  <2>3. row.binding # 0 => c.run = row.binding /\ c.state \in {"read", "start", "complete"}
    BY <1>2, <1>4, <2>1 DEF Fits
  <2> QED
    BY <1>1, <1>2, <1>3, <1>4, <2>1, <2>2, <2>3
<1>5. CASE row.cont = NoCont /\ row.binding # 0
  <2>1. c = RunBound(row.binding)
    BY <1>1, <1>5 DEF RecoverState
  <2>2. row.binding \in 0 .. MaxChecks
    BY <1>2 DEF RowType
  <2>3. c.state = "read" /\ c.run = row.binding
    BY <2>1 DEF RunBound, At
  <2>4. Fits(w, c) /\ Desired(w, c.state)
    BY <1>2, <1>5, <2>3 DEF Fits, Desired
  <2> QED
    BY <1>1, <1>3, <1>5, <2>1, <2>2, <2>3, <2>4, ContTypes
<1>6. CASE row.cont = NoCont /\ row.binding = 0
  <2>1. c = EnsureSuite
    BY <1>1, <1>6 DEF RecoverState
  <2>2. c.state = "suite" /\ c.run = 0
    BY <2>1 DEF EnsureSuite, At
  <2>3. Fits(w, c) /\ Desired(w, c.state)
    BY <1>2, <2>2 DEF Fits, Desired
  <2> QED
    BY <1>1, <1>3, <1>6, <2>1, <2>2, <2>3, ContTypes
<1> QED
  BY <1>4, <1>5, <1>6

\* A worker sweeps the outbox and claims the row of w, if there is one to claim.
LEMMA SweepStep ==
  ASSUME PublicationInv, NEW p \in Publishers, ~Working(p), DeliveryInv', PhasesInOrder',
         saved' = saved, checks' = checks, late' = late, flying' = flying,
         outbox' \in [Workflows -> RowType], publisher' \in [Publishers -> ClaimType],
         spare' \in [Workflows -> Nat],
         \A q \in Publishers : q # p => publisher'[q] = publisher[q],
         NEW w,
         \A u \in Workflows : u # w => outbox'[u] = SweptRow(outbox[u]) /\ spare'[u] = spare[u],
         \/ w \notin Workflows /\ publisher'[p] = publisher[p]
         \/ /\ w \in Workflows
            /\ publisher'[p].stage = "claimed" /\ publisher'[p].workflow = w
            /\ publisher'[p].phase = saved[w].phase /\ publisher'[p].state = RecoverState(outbox[w])
            /\ publisher'[p].binding = outbox[w].binding
            /\ outbox'[w].state = "claimed" /\ outbox'[w].owner = p
            /\ outbox'[w].cont = outbox[w].cont /\ outbox'[w].binding = outbox[w].binding
            /\ outbox'[w].failure = outbox[w].failure
            /\ \/ outbox[w].state = "pending" /\ spare'[w] = spare[w]
               \/ /\ outbox[w].state = "claimed"
                  /\ spare'[w] = IF outbox[w].binding = 0 THEN spare[w] + 1 ELSE spare[w]
  PROVE  PublicationInv'
<1>1. /\ Nobody \notin Publishers
      /\ \A q \in Publishers : Working(q) => publisher[q].workflow \in Workflows
  BY PublicationAssumption, PublisherFacts
<1>2. \A u \in Workflows : u # w =>
        \/ outbox'[u] = outbox[u]
        \/ /\ outbox'[u].state = "failed" /\ outbox'[u].owner = Nobody /\ outbox'[u].cont = NoCont
           /\ outbox'[u].binding = outbox[u].binding /\ outbox'[u].failure = "attempt-limit"
  BY SweptFacts
<1>3. Holds(p)' \/ ~Working(p)'
  BY DEF Holds, Working
<1>4. ASSUME NEW q \in Publishers, q # p, Holds(q)'
      PROVE  /\ Holds(q) /\ publisher[q].workflow \in Workflows /\ publisher[q].workflow # w
             /\ outbox'[publisher[q].workflow] = outbox[publisher[q].workflow]
  <2>1. Working(q) /\ publisher'[q] = publisher[q]
    BY <1>4 DEF Holds, Working
  <2>2. publisher[q].workflow \in Workflows /\ outbox'[publisher[q].workflow].owner = q
    BY <1>1, <1>4, <2>1 DEF Holds
  <2>3. publisher[q].workflow # w
    BY <1>4, <2>2
  <2>4. outbox'[publisher[q].workflow] = outbox[publisher[q].workflow]
    BY <1>1, <1>2, <2>2, <2>3
  <2> QED
    BY <2>1, <2>2, <2>3, <2>4 DEF Holds
<1>5. ASSUME NEW u \in Workflows PROVE outbox'[u] = outbox[u] \/ RowInv(u)'
  <2>1. RowInv(u) /\ Len(checks[u]) \in Nat
    BY SubjectFacts
  <2>2. CASE u = w
    <3>1. checks'[u] = checks[u] /\ saved'[u] = saved[u]
      OBVIOUS
    <3> QED
      BY <2>1, <2>2, <3>1 DEF RowInv, Fits, Desired
  <2>3. CASE u # w /\ outbox'[u] # outbox[u]
    <3>1. NoCont.state = "none" /\ NoCont.run = 0
      BY DEF NoCont, At
    <3>2. Fits(u, NoCont)' /\ Desired(u, NoCont.state)'
      BY <2>1, <3>1 DEF Fits, Desired
    <3>3. outbox[u].binding \in 0 .. Len(checks'[u])
      BY <2>1 DEF RowInv
    <3> QED
      BY <1>2, <2>3, <3>2, <3>3 DEF RowInv
  <2> QED
    BY <2>2, <2>3
<1>6. ASSUME w \in Workflows PROVE ClaimInv(p)' /\ OutcomeInv(p)' /\ CreatesBounded(w)'
  <2>1. PICK c : c = RecoverState(outbox[w])
    OBVIOUS
  <2>2. /\ c \in ContType /\ c.state # "none" /\ Fits(w, c) /\ Desired(w, c.state) /\ Reached(w, c.state)
        /\ outbox[w].binding # 0 => c.run = outbox[w].binding /\ c.state \notin {"suite", "create", "reconcile"}
    BY <1>6, <2>1, RecoverFacts
  <2>3. Holds(p)' /\ publisher'[p].stage = "claimed" /\ publisher'[p].workflow = w /\ publisher'[p].state = c
    BY <1>6, <2>1 DEF Holds, Working
  <2>4. Fits(w, c)' /\ Desired(w, c.state)' /\ Reached(w, c.state)'
    BY <2>2 DEF Fits, Desired, Reached
  <2>5. ClaimInv(p)' /\ OutcomeInv(p)'
    BY <1>6, <2>2, <2>3, <2>4 DEF ClaimInv, OutcomeInv
  <2>6. CreatesBounded(w)'
    <3> DEFINE L == Len(checks[w])
               F == Cardinality(FlyingCreates(w))
               S == Cardinality(StrayCreates(w))
               SS == Cardinality(StrayCreates(w)')
               D == Due(w)
               DD == Due(w)'
               s == spare[w]
               ss == spare'[w]
    <3>1. /\ L \in Nat /\ F \in Nat /\ S \in Nat /\ SS \in Nat /\ D \in 0 .. 1 /\ DD \in 0 .. 1
          /\ s \in Nat /\ ss \in Nat /\ CreatesBounded(w) /\ checks'[w] = checks[w]
      BY <1>6, CreateNumbers, SubjectFacts
    <3>2. FlyingCreates(w)' = FlyingCreates(w)
      BY DEF FlyingCreates
    <3>3. SS <= S + D
      BY <1>3, <1>6, LostClaims
    <3>4. \A d : MayCreate(w, d)' <=> MayCreate(w, d)
      BY <3>2 DEF MayCreate
    <3>5. UnderWay(w)' => MayCreate(w, c)
      <4>1. \A q \in Publishers : Holds(q)' /\ publisher'[q].workflow = w => q = p
        BY <1>4
      <4> QED
        BY <1>6, <2>3, <3>4, <4>1 DEF UnderWay
    <3>6. CASE outbox[w].state = "pending"
      <4>1. MayCreate(w, c) => UnderWay(w)
        BY <2>1, <3>6 DEF UnderWay
      <4>2. outbox[w].owner = Nobody
        BY <1>6, <3>6, SubjectFacts DEF RowInv
      <4>3. \A q \in Publishers : publisher[q].workflow = w => ~Holds(q)
        BY <1>1, <4>2 DEF Holds
      <4>4. StrayCreates(w)' \subseteq StrayCreates(w)
        BY <2>3, <4>3 DEF StrayCreates
      <4>5. SS <= S
        BY <4>4, CreateNumbers, WorkerSets
      <4>6. DD <= D
        BY <3>5, <4>1 DEF Due
      <4>7. ss = s
        BY <1>6, <3>6
      <4> HIDE DEF L, F, S, SS, D, DD, s, ss
      <4> QED
        <5>1. L + F + SS + DD + s <= L + F + S + D + ss
          BY <3>1, <4>5, <4>6, <4>7
        <5> QED
          BY <3>1, <3>2, <5>1, SumKept DEF L, F, S, SS, D, DD, s, ss
    <3>7. CASE outbox[w].state = "claimed"
      <4>1. ss = s + 1 \/ (ss = s /\ outbox[w].binding # 0)
        BY <1>6, <3>7
      <4>2. outbox[w].binding # 0 => ~MayCreate(w, c)
        BY <2>2 DEF MayCreate
      <4>3. outbox[w].binding # 0 => DD = 0
        BY <3>5, <4>2 DEF Due
      <4> HIDE DEF L, F, S, SS, D, DD, s, ss
      <4> QED
        <5>1. L + F + SS + DD + s <= L + F + S + D + ss
          BY <3>1, <3>3, <4>1, <4>3
        <5> QED
          BY <3>1, <3>2, <5>1, SumKept DEF L, F, S, SS, D, DD, s, ss
    <3> QED
      BY <1>6, <3>6, <3>7
  <2> QED
    BY <2>5, <2>6
<1>7. w \notin Workflows => publisher'[p] = publisher[p] /\ ~Holds(p)'
  BY DEF Holds, Working
<1>8. ASSUME NEW u \in Workflows, u # w PROVE CreatesBounded(u)'
  <2> DEFINE L == Len(checks[u])
             F == Cardinality(FlyingCreates(u))
             S == Cardinality(StrayCreates(u))
             SS == Cardinality(StrayCreates(u)')
             D == Due(u)
             DD == Due(u)'
             s == spare[u]
  <2>1. /\ L \in Nat /\ F \in Nat /\ S \in Nat /\ SS \in Nat /\ D \in 0 .. 1 /\ DD \in 0 .. 1
        /\ s \in Nat /\ CreatesBounded(u) /\ checks'[u] = checks[u] /\ spare'[u] = spare[u]
    BY <1>8, CreateNumbers, SubjectFacts
  <2>2. FlyingCreates(u)' = FlyingCreates(u)
    BY DEF FlyingCreates
  <2>3. \A d : MayCreate(u, d)' <=> MayCreate(u, d)
    BY <2>2 DEF MayCreate
  <2>4. SS + DD <= S + D
    <3>1. CASE outbox'[u] = outbox[u]
      <4>1. ASSUME NEW q \in Publishers, q # p, publisher[q].workflow = u PROVE Holds(q)' <=> Holds(q)
        BY <3>1, <4>1 DEF Holds, Working
      <4>2. ~(Working(p)' /\ publisher'[p].workflow = u)
        BY <1>7, <1>8 DEF Working
      <4>3. StrayCreates(u)' \subseteq StrayCreates(u)
        BY <4>1, <4>2 DEF StrayCreates, Working
      <4>4. ASSUME UnderWay(u)' PROVE UnderWay(u)
        <5>1. ASSUME NEW q \in Publishers, Holds(q)', publisher'[q].workflow = u
              PROVE  Holds(q) /\ publisher'[q] = publisher[q]
          <6>1. q # p
            BY <4>2, <5>1 DEF Holds
          <6> QED
            BY <4>1, <5>1, <6>1
        <5> QED
          BY <2>3, <3>1, <4>4, <5>1 DEF UnderWay
      <4>5. DD <= D
        BY <4>4 DEF Due
      <4>6. SS <= S
        BY <4>3, CreateNumbers, WorkerSets
      <4> HIDE DEF S, SS, D, DD
      <4> QED
        BY <2>1, <4>5, <4>6
    <3>2. CASE outbox'[u] # outbox[u]
      <4>1. SS <= S + D
        BY <1>3, LostClaims
      <4>2. outbox'[u].state = "failed" /\ outbox'[u].owner = Nobody
        BY <1>2, <1>8, <3>2
      <4>3. ~UnderWay(u)'
        BY <1>1, <4>2 DEF UnderWay, Holds
      <4>4. DD = 0
        BY <4>3 DEF Due
      <4> HIDE DEF S, SS, D, DD
      <4> QED
        BY <2>1, <4>1, <4>4
    <3> QED
      BY <3>1, <3>2
  <2> HIDE DEF L, F, S, SS, D, DD, s
  <2> QED
    <3>1. L + F + SS + DD + s <= L + F + S + D + s
      BY <2>1, <2>4
    <3> QED
      BY <2>1, <2>2, <3>1, SumKept DEF L, F, S, SS, D, DD, s
<1>9. \A u \in Workflows : CreatesBounded(u)'
  BY <1>6, <1>8
<1>10. \A q \in Publishers :
        \/ /\ publisher'[q] = publisher[q]
           /\ Holds(q)' => /\ Holds(q)
                           /\ outbox'[publisher[q].workflow].binding = outbox[publisher[q].workflow].binding
        \/ ClaimInv(q)' /\ OutcomeInv(q)'
  BY <1>4, <1>6, <1>7
<1>11. flying' \in [Publishers -> RequestType] /\ \A q \in Publishers : flying'[q] = flying[q]
  BY Opened
<1> QED
  BY <1>5, <1>9, <1>10, <1>11, QuietStep

\* A worker claims a due result, or finds none after the sweep.
LEMMA ClaimResultStep ==
  ASSUME PublicationInv, NEW p \in Publishers, ClaimResult(p), DeliveryInv', PhasesInOrder'
  PROVE  PublicationInv'
<1>1. PICK swept : swept = [u \in Workflows |-> SweptRow(outbox[u])]
  OBVIOUS
<1>2. /\ swept \in [Workflows -> RowType] /\ \A u \in Workflows : swept[u] = SweptRow(outbox[u])
  BY <1>1, SweptFacts
<1>3. /\ ~Working(p) /\ saved' = saved /\ checks' = checks /\ late' = late /\ flying' = flying
      /\ \/ \E w \in Event :
                /\ Claimable(swept[w])
                /\ outbox' = [swept EXCEPT ![w].state = "claimed", ![w].attempts = @ + 1,
                                           ![w].owner = p, ![w].live = TRUE]
                /\ publisher' = [publisher EXCEPT ![p] =
                        [stage |-> "claimed", workflow |-> w, phase |-> saved[w].phase,
                         state |-> RecoverState(outbox[w]), binding |-> outbox[w].binding,
                         outcome |-> Retry(NoCont)]]
                /\ spare' = IF Expired(outbox[w]) /\ outbox[w].binding = 0
                            THEN [spare EXCEPT ![w] = @ + 1] ELSE spare
         \/ outbox' = swept /\ publisher' = publisher /\ spare' = spare
  BY <1>1 DEF ClaimResult, SweptRow, deliveryVars
<1>4. CASE outbox' = swept /\ publisher' = publisher /\ spare' = spare
  <2>1. 0 \notin Workflows
    BY EventFacts DEF PublicationInv, DeliveryInv
  <2>2. /\ outbox' \in [Workflows -> RowType] /\ publisher' \in [Publishers -> ClaimType]
        /\ spare' \in [Workflows -> Nat]
        /\ \A q \in Publishers : publisher'[q] = publisher[q]
        /\ \A u \in Workflows : u # 0 => outbox'[u] = SweptRow(outbox[u]) /\ spare'[u] = spare[u]
    BY <1>2, <1>4, Opened
  <2> QED
    BY <1>3, <2>1, <2>2, SweepStep
<1>5. ASSUME NEW w \in Event, Claimable(swept[w]),
             outbox' = [swept EXCEPT ![w].state = "claimed", ![w].attempts = @ + 1,
                                     ![w].owner = p, ![w].live = TRUE],
             publisher' = [publisher EXCEPT ![p] =
                        [stage |-> "claimed", workflow |-> w, phase |-> saved[w].phase,
                         state |-> RecoverState(outbox[w]), binding |-> outbox[w].binding,
                         outcome |-> Retry(NoCont)]],
             spare' = IF Expired(outbox[w]) /\ outbox[w].binding = 0
                            THEN [spare EXCEPT ![w] = @ + 1] ELSE spare
      PROVE  PublicationInv'
  <2>1. w \in Workflows
    BY EventFacts DEF PublicationInv, DeliveryInv
  <2>2. PICK row : row = outbox[w] /\ row \in RowType
    BY <2>1, SubjectFacts
  <2>3. swept[w] = row
    BY <1>2, <1>5, <2>1, <2>2, SweptFacts DEF Claimable, Expired
  <2>4. row.attempts < MaxPublications /\ (row.state = "pending" \/ Expired(row))
    BY <1>5, <2>3 DEF Claimable
  <2>5. PICK new : new = [row EXCEPT !.state = "claimed", !.attempts = row.attempts + 1, !.owner = p, !.live = TRUE]
    OBVIOUS
  <2>6. row.attempts \in 0 .. MaxPublications /\ row.attempts + 1 \in 0 .. MaxPublications
    <3>1. row.attempts \in 0 .. MaxPublications
      BY <2>2 DEF RowType
    <3> QED
      BY <2>4, <3>1, PublicationAssumption
  <2>7. /\ new \in RowType /\ new.state = "claimed" /\ new.owner = p
        /\ new.cont = row.cont /\ new.binding = row.binding /\ new.failure = row.failure
    <3> HIDE DEF ContType
    <3> QED
      BY <2>2, <2>5, <2>6 DEF RowType
  <2>8. outbox' = [swept EXCEPT ![w] = new]
    BY <1>2, <1>5, <2>1, <2>2, <2>3, <2>5
  <2>9. /\ outbox' \in [Workflows -> RowType] /\ outbox'[w] = new
        /\ \A u \in Workflows : u # w => outbox'[u] = swept[u]
    BY <1>2, <2>1, <2>7, <2>8
  <2>10. PICK claim : claim = [stage |-> "claimed", workflow |-> w, phase |-> saved[w].phase,
                         state |-> RecoverState(outbox[w]), binding |-> outbox[w].binding,
                         outcome |-> Retry(NoCont)]
    OBVIOUS
  <2>11. /\ claim \in ClaimType /\ claim.stage = "claimed" /\ claim.workflow = w
         /\ claim.phase = saved[w].phase /\ claim.state = RecoverState(outbox[w])
         /\ claim.binding = outbox[w].binding
    <3>1. /\ saved[w].phase \in Phases /\ RecoverState(outbox[w]) \in ContType
          /\ outbox[w].binding \in 0 .. MaxChecks /\ Retry(NoCont) \in OutcomeType
      <4>1. outbox[w].binding \in 0 .. MaxChecks
        BY <2>2 DEF RowType
      <4> QED
        BY <2>1, <4>1, SubjectFacts, RecoverFacts, ContTypes, OutcomeTypes
    <3> HIDE DEF ContType, OutcomeType
    <3> QED
      BY <2>1, <2>10, <3>1 DEF ClaimType
  <2>12. /\ publisher' \in [Publishers -> ClaimType] /\ publisher'[p] = claim
         /\ \A q \in Publishers : q # p => publisher'[q] = publisher[q]
    BY <1>5, <2>10, <2>11, Opened
  <2>13. /\ spare' \in [Workflows -> Nat] /\ \A u \in Workflows : u # w => spare'[u] = spare[u]
         /\ Expired(row) /\ row.binding = 0 => spare'[w] = spare[w] + 1
         /\ ~(Expired(row) /\ row.binding = 0) => spare'[w] = spare[w]
    <3>1. spare \in [Workflows -> Nat] /\ spare[w] + 1 \in Nat
      BY <2>1, Opened
    <3> QED
      BY <1>5, <2>1, <2>2, <3>1
  <2>14. \/ row.state = "pending" /\ spare'[w] = spare[w]
         \/ /\ row.state = "claimed"
            /\ spare'[w] = IF row.binding = 0 THEN spare[w] + 1 ELSE spare[w]
    BY <2>4, <2>13 DEF Expired
  <2>15. \A u \in Workflows : u # w => outbox'[u] = SweptRow(outbox[u]) /\ spare'[u] = spare[u]
    BY <1>2, <2>9, <2>13
  <2>16. /\ w \in Workflows
         /\ publisher'[p].stage = "claimed" /\ publisher'[p].workflow = w
         /\ publisher'[p].phase = saved[w].phase /\ publisher'[p].state = RecoverState(outbox[w])
         /\ publisher'[p].binding = outbox[w].binding
         /\ outbox'[w].state = "claimed" /\ outbox'[w].owner = p
         /\ outbox'[w].cont = outbox[w].cont /\ outbox'[w].binding = outbox[w].binding
         /\ outbox'[w].failure = outbox[w].failure
         /\ \/ outbox[w].state = "pending" /\ spare'[w] = spare[w]
            \/ /\ outbox[w].state = "claimed"
               /\ spare'[w] = IF outbox[w].binding = 0 THEN spare[w] + 1 ELSE spare[w]
    BY <2>1, <2>2, <2>7, <2>9, <2>11, <2>12, <2>14
  <2>17. /\ outbox' \in [Workflows -> RowType] /\ publisher' \in [Publishers -> ClaimType]
         /\ spare' \in [Workflows -> Nat] /\ \A q \in Publishers : q # p => publisher'[q] = publisher[q]
    BY <2>9, <2>12, <2>13
  <2> HIDE <1>5
  <2> QED
    BY <1>3, <2>15, <2>16, <2>17, SweepStep, ZenonT(40)
<1> QED
  BY <1>3, <1>4, <1>5

-----------------------------------------------------------------------------
(* Desired results move on.                                                *)

\* The versions and phases that are compared
LEMMA PhaseTypes ==
  ASSUME DeliveryTypeOK
  PROVE  /\ \A w \in Workflows : /\ w # 0 /\ version[w] \in Nat /\ saved[w].version \in Nat
                                 /\ phase[w] \in Phases /\ saved[w].phase \in Phases
                                 /\ Rank(phase[w]) \in Nat /\ Rank(saved[w].phase) \in Nat
         /\ \A p \in Projectors : /\ projector[p].workflow \in Workflows \cup {0}
                                  /\ projector[p].version \in Int /\ Rank(projector[p].phase) \in Nat
<1>1. /\ MaxVersion \in Nat /\ Workflows \subseteq Nat \ {0}
      /\ \A x \in Phases : Rank(x) \in Nat
  BY DeliveryAssumption, EventFacts, Ranks
<1>2. /\ \A w \in Workflows : /\ version[w] \in 0 .. MaxVersion /\ saved[w].version \in 0 .. MaxVersion
                              /\ phase[w] \in Phases /\ saved[w].phase \in Phases
      /\ \A p \in Projectors : /\ projector[p].workflow \in Workflows \cup {0}
                               /\ projector[p].version \in -1 .. MaxVersion /\ projector[p].phase \in Phases
  BY DEF DeliveryTypeOK
<1>3. \A n \in 0 .. MaxVersion : n \in Nat
  BY <1>1
<1>4. \A n \in -1 .. MaxVersion : n \in Int
  BY <1>1
<1> QED
  BY <1>1, <1>2, <1>3, <1>4

\* The runs move on.
LEMMA RunsInOrder ==
  ASSUME DeliveryTypeOK, PhasesInOrder, saved' = saved, projector' = projector,
         \A w \in Workflows : version'[w] \in Nat /\ Rank(phase'[w]) \in Nat,
         \A w \in Workflows : version[w] <= version'[w] /\ Rank(phase[w]) <= Rank(phase'[w])
  PROVE  PhasesInOrder'
<1>1. ASSUME NEW x, NEW w \in Workflows, x.version \in Int, Rank(x.phase) \in Nat, NotAhead(x, w)
      PROVE  NotAhead(x, w)'
  <2>1. /\ version[w] \in Nat /\ version'[w] \in Nat /\ Rank(phase[w]) \in Nat /\ Rank(phase'[w]) \in Nat
        /\ version[w] <= version'[w] /\ Rank(phase[w]) <= Rank(phase'[w])
    BY PhaseTypes
  <2>2. x.version <= version'[w]
    BY <1>1, <2>1 DEF NotAhead
  <2>3. Rank(x.phase) <= Rank(phase'[w])
    BY <1>1, <2>1 DEF NotAhead
  <2> QED
    BY <2>2, <2>3 DEF NotAhead
<1>2. ASSUME NEW w \in Workflows
      PROVE  /\ saved[w].version = 0 => saved[w].phase = "queued"
             /\ NotAhead(saved[w], w)'
  <2>1. saved[w].version \in Int /\ Rank(saved[w].phase) \in Nat
    BY PhaseTypes
  <2> QED
    BY <1>1, <2>1 DEF PhasesInOrder
<1>3. ASSUME NEW p \in Projectors, NEW o, o = projector[p], o.workflow # 0
      PROVE  /\ NotAhead(o, o.workflow)' /\ InOrder(saved[o.workflow], o)
             /\ \A q \in Projectors : projector[q].workflow = o.workflow => InOrder(projector[q], o)
  <2>1. o.workflow \in Workflows /\ o.version \in Int /\ Rank(o.phase) \in Nat
    BY <1>3, PhaseTypes
  <2>2. /\ NotAhead(o, o.workflow) /\ InOrder(saved[o.workflow], o)
        /\ \A q \in Projectors : projector[q].workflow = o.workflow => InOrder(projector[q], o)
    BY <1>3 DEF PhasesInOrder
  <2> QED
    BY <1>1, <2>1, <2>2
<1> QED
  BY <1>2, <1>3 DEF PhasesInOrder, NotAhead

\* A service observes a run as it is.
LEMMA ObserveInOrder ==
  ASSUME DeliveryInv, PhasesInOrder, NEW p \in Projectors, Observe(p)
  PROVE  PhasesInOrder'
<1>1. PICK w \in Event :
        projector' = [projector EXCEPT ![p] = [workflow |-> w, version |-> version[w], phase |-> phase[w]]]
  BY DEF Observe
<1>2. DeliveryTypeOK /\ w \in Workflows /\ version' = version /\ phase' = phase /\ saved' = saved
  BY EventFacts DEF DeliveryInv, Observe
<1>3. /\ projector'[p].workflow = w /\ projector'[p].version = version[w] /\ projector'[p].phase = phase[w]
      /\ \A q \in Projectors : q # p => projector'[q] = projector[q]
  BY <1>1, <1>2 DEF DeliveryTypeOK
<1>4. version[w] \in Nat /\ Rank(phase[w]) \in Nat /\ w # 0
  BY <1>2, PhaseTypes
<1>5. \A u \in Workflows : (saved[u].version = 0 => saved[u].phase = "queued") /\ NotAhead(saved[u], u)
  BY DEF PhasesInOrder
<1>6. NotAhead(saved[w], w)
  BY <1>2, <1>5
<1>7. ASSUME NEW q \in Projectors, NEW o, o = projector[q], o.workflow = w, q # p
      PROVE  InOrder(o, projector'[p]) /\ InOrder(projector'[p], o)
  <2>1. o.version <= version[w] /\ Rank(o.phase) <= Rank(phase[w])
    BY <1>4, <1>7 DEF PhasesInOrder, NotAhead
  <2>2. o.version \in Int
    BY <1>2, <1>7, PhaseTypes
  <2>3. ~(version[w] < o.version)
    BY <1>4, <2>1, <2>2
  <2> QED
    BY <1>3, <2>1, <2>3 DEF InOrder
<1>8. NotAhead(projector'[p], w) /\ InOrder(saved[w], projector'[p]) /\ InOrder(projector'[p], projector'[p])
  <2>1. version[w] <= version[w] /\ Rank(phase[w]) <= Rank(phase[w])
    BY <1>4
  <2> QED
    BY <1>3, <1>6, <2>1 DEF NotAhead, InOrder
<1>9. ASSUME NEW q \in Projectors, NEW o, o = projector'[q], o.workflow # 0
      PROVE  /\ NotAhead(o, o.workflow) /\ InOrder(saved[o.workflow], o)
             /\ \A r \in Projectors : projector'[r].workflow = o.workflow => InOrder(projector'[r], o)
  <2>1. CASE q = p
    BY <1>3, <1>7, <1>8, <1>9, <2>1
  <2>2. CASE q # p
    <3>1. /\ o = projector[q] /\ NotAhead(o, o.workflow) /\ InOrder(saved[o.workflow], o)
          /\ \A r \in Projectors : projector[r].workflow = o.workflow => InOrder(projector[r], o)
      BY <1>3, <1>9, <2>2 DEF PhasesInOrder
    <3> QED
      BY <1>3, <1>7, <2>2, <3>1
  <2> QED
    BY <2>1, <2>2
<1> QED
  BY <1>2, <1>5, <1>9 DEF PhasesInOrder, NotAhead

\* A subject has a later desired result, and one observation less is at hand.
LEMMA SubjectInOrder ==
  ASSUME DeliveryInv, PhasesInOrder, NEW w \in Workflows, version' = version, phase' = phase,
         \A u \in Workflows : u # w => saved'[u] = saved[u],
         \A q \in Projectors : projector'[q] = projector[q] \/ projector'[q].workflow = 0,
         NEW x, saved'[w] = x, x.version # 0, NotAhead(x, w),
         \A q \in Projectors : projector[q].workflow = w => InOrder(x, projector[q])
  PROVE  PhasesInOrder'
<1>1. ASSUME NEW u \in Workflows
      PROVE  /\ saved'[u].version = 0 => saved'[u].phase = "queued"
             /\ NotAhead(saved'[u], u)
  BY DEF PhasesInOrder
<1>2. ASSUME NEW q \in Projectors, NEW o, o = projector'[q], o.workflow # 0
      PROVE  /\ NotAhead(o, o.workflow) /\ InOrder(saved'[o.workflow], o)
             /\ \A r \in Projectors : projector'[r].workflow = o.workflow => InOrder(projector'[r], o)
  <2>1. o = projector[q]
    BY <1>2
  <2>2. o.workflow \in Workflows
    BY <1>2, <2>1, PhaseTypes DEF DeliveryInv
  <2>3. /\ NotAhead(o, o.workflow) /\ InOrder(saved[o.workflow], o)
        /\ \A r \in Projectors : projector[r].workflow = o.workflow => InOrder(projector[r], o)
    BY <1>2, <2>1 DEF PhasesInOrder
  <2>4. InOrder(saved'[o.workflow], o)
    BY <1>2, <2>1, <2>2, <2>3
  <2>5. ASSUME NEW r \in Projectors, projector'[r].workflow = o.workflow PROVE InOrder(projector'[r], o)
    <3>1. projector'[r] = projector[r]
      BY <1>2, <2>5
    <3> QED
      BY <2>3, <2>5, <3>1
  <2> QED
    BY <2>3, <2>4, <2>5
<1> QED
  BY <1>1, <1>2 DEF PhasesInOrder, NotAhead

\* What a step that stores a desired result does to the subjects: the phases
\* of their results never go back.
LEMMA SavingFacts ==
  ASSUME DeliveryInv, PhasesInOrder, Saving
  PROVE  /\ PhasesInOrder'
         /\ \A w \in Workflows : Rank(saved[w].phase) <= Rank(saved'[w].phase) /\ saved'[w].phase \in Phases
<1>1. /\ DeliveryTypeOK /\ setup.deliverers \subseteq Deliverers /\ setup.projectors \subseteq Projectors
      /\ Event \subseteq Workflows
  BY EventFacts DEF DeliveryInv
<1>2. DeliveryTypeOK'
  BY DeliveryStep DEF DeliveryInv
<1>3. \A w \in Workflows : saved'[w].phase \in Phases
  BY <1>2 DEF DeliveryTypeOK
<1>4. \A n \in Nat : n <= n
  OBVIOUS
<1>5. ASSUME saved' = saved, version' = version, phase' = phase,
             \A q \in Projectors : projector'[q] = projector[q] \/ projector'[q].workflow = 0
      PROVE  PhasesInOrder' /\ \A w \in Workflows : Rank(saved[w].phase) <= Rank(saved'[w].phase)
  <2>1. \A w \in Workflows : Rank(saved[w].phase) <= Rank(saved'[w].phase)
    BY <1>1, <1>4, <1>5, PhaseTypes
  <2>2. ASSUME NEW q \in Projectors, NEW o, o = projector'[q], o.workflow # 0
        PROVE  /\ NotAhead(o, o.workflow) /\ InOrder(saved[o.workflow], o)
               /\ \A r \in Projectors : projector'[r].workflow = o.workflow => InOrder(projector'[r], o)
    <3>1. /\ o = projector[q] /\ NotAhead(o, o.workflow) /\ InOrder(saved[o.workflow], o)
          /\ \A r \in Projectors : projector[r].workflow = o.workflow => InOrder(projector[r], o)
      BY <1>5, <2>2 DEF PhasesInOrder
    <3>2. ASSUME NEW r \in Projectors, projector'[r].workflow = o.workflow PROVE InOrder(projector'[r], o)
      <4>1. projector'[r] = projector[r]
        BY <1>5, <2>2, <3>2
      <4> QED
        BY <3>1, <3>2, <4>1
    <3> QED
      BY <3>1, <3>2
  <2>3. \A u \in Workflows : (saved[u].version = 0 => saved[u].phase = "queued") /\ NotAhead(saved[u], u)
    BY DEF PhasesInOrder
  <2> QED
    BY <1>5, <2>1, <2>2, <2>3 DEF PhasesInOrder, NotAhead
<1>6. ASSUME NEW d \in Deliverers, ProjectInvocation(d)
      PROVE  PhasesInOrder' /\ \A w \in Workflows : Rank(saved[w].phase) <= Rank(saved'[w].phase)
  <2>1. PICK w, attempt, outcome, value : /\ w = deliverer[d].next /\ attempt = deliverer[d].attempt
            /\ outcome = SaveOutcome(w, attempt, 1, "queued") /\ value = FirstResult(attempt)
    OBVIOUS
  <2>2. Stored(w, outcome, value) /\ version' = version /\ phase' = phase /\ projector' = projector
    BY <1>6, <2>1 DEF ProjectInvocation
  <2>3. /\ w \in Workflows /\ version[w] # 0 /\ version[w] \in Nat /\ saved[w].version \in Nat
    <3>1. ProcessingRow(d) /\ Processing(d) /\ deliverer[d].stage = "project"
      BY <1>6 DEF DeliveryInv, ProjectInvocation, Processing
    <3>2. w \in Event /\ version[w] # 0
      BY <2>1, <3>1 DEF ProcessingRow
    <3> QED
      BY <1>1, <3>2, PhaseTypes
  <2>4. /\ outcome \in {"inserted", "conflict", "unchanged", "superseded"}
        /\ outcome = "inserted" => saved[w].version = 0
        /\ outcome # "superseded"
    <3>1. /\ outcome \in {"inserted", "conflict", "unchanged", "superseded"}
          /\ outcome = "inserted" => saved[w].version = 0
          /\ outcome # "inserted" => saved[w].version # 0
          /\ outcome = "superseded" => ~(saved[w].version >= 1)
      BY <2>1, OutcomeFacts
    <3> QED
      BY <2>3, <3>1
  <2>5. CASE outcome # "inserted"
    <3>1. saved' = saved
      BY <2>2, <2>4, <2>5 DEF Stored
    <3> QED
      BY <1>5, <2>2, <3>1
  <2>6. CASE outcome = "inserted"
    <3>1. saved' = [saved EXCEPT ![w] = value]
      BY <2>2, <2>6 DEF Stored
    <3>2. saved'[w] = value /\ \A u \in Workflows : u # w => saved'[u] = saved[u]
      BY <1>1, <2>3, <3>1 DEF DeliveryTypeOK
    <3>3. value.version = 1 /\ value.phase = "queued"
      BY <2>1 DEF FirstResult
    <3>4. Rank("queued") = 1 /\ \A x \in Phases : Rank("queued") <= Rank(x)
      BY Ranks
    <3>5. NotAhead(value, w)
      BY <1>1, <2>3, <3>3, <3>4, PhaseTypes DEF NotAhead
    <3>6. \A q \in Projectors : InOrder(value, projector[q])
      BY <1>1, <3>3, <3>4 DEF InOrder, DeliveryTypeOK
    <3>7. PhasesInOrder'
      BY <2>2, <2>3, <3>2, <3>3, <3>5, <3>6, SubjectInOrder
    <3>8. saved[w].phase = "queued"
      BY <2>3, <2>4, <2>6 DEF PhasesInOrder
    <3> QED
      BY <1>1, <1>4, <3>2, <3>3, <3>4, <3>7, <3>8, PhaseTypes
  <2> QED
    BY <2>5, <2>6
<1>7. ASSUME NEW p \in Projectors, Reconcile(p)
      PROVE  PhasesInOrder' /\ \A w \in Workflows : Rank(saved[w].phase) <= Rank(saved'[w].phase)
  <2>1. PICK o, w, subject : o = projector[p] /\ w = o.workflow /\ subject = saved[w].attempt
    OBVIOUS
  <2>2. PICK outcome, value : /\ outcome = SaveOutcome(w, subject, o.version, o.phase)
                              /\ value = [version |-> o.version, phase |-> o.phase, attempt |-> subject]
    OBVIOUS
  <2>3. /\ w # 0 /\ Stored(w, outcome, value) /\ version' = version /\ phase' = phase
        /\ projector' = [projector EXCEPT ![p] = IF outcome = "conflict" THEN Stopped ELSE Unobserved]
    BY <1>7, <2>1, <2>2 DEF Reconcile
  <2>4. \A q \in Projectors : projector'[q] = projector[q] \/ projector'[q].workflow = 0
    BY <1>1, <2>3 DEF Stopped, Unobserved, DeliveryTypeOK
  <2>5. /\ w \in Workflows /\ o.version \in Int /\ o.version # 0 /\ saved[w].version \in Nat /\ saved[w].version # 0
    BY <1>1, <2>1, <2>3, PhaseTypes DEF DeliveryInv, SubjectRows
  <2>6. /\ outcome \in {"conflict", "unchanged", "superseded"}
        /\ outcome = "superseded" => ~(saved[w].version >= o.version)
    BY <2>2, <2>5, OutcomeFacts
  <2>7. CASE outcome # "superseded"
    <3>1. saved' = saved
      BY <2>3, <2>6, <2>7 DEF Stored
    <3> QED
      BY <1>5, <2>3, <2>4, <3>1
  <2>8. CASE outcome = "superseded"
    <3>1. saved' = [saved EXCEPT ![w] = value]
      BY <2>3, <2>8 DEF Stored
    <3>2. saved'[w] = value /\ \A u \in Workflows : u # w => saved'[u] = saved[u]
      BY <1>1, <2>5, <3>1 DEF DeliveryTypeOK
    <3>3. value.version = o.version /\ value.phase = o.phase
      BY <2>2
    <3>4. saved[w].version < o.version
      BY <2>5, <2>6, <2>8
    <3>5. /\ NotAhead(o, w) /\ InOrder(saved[w], o)
          /\ \A q \in Projectors : projector[q].workflow = w => InOrder(o, projector[q])
      BY <2>1, <2>3, <2>5 DEF PhasesInOrder
    <3>6. /\ NotAhead(value, w) /\ \A q \in Projectors : projector[q].workflow = w => InOrder(value, projector[q])
      BY <3>3, <3>5 DEF NotAhead, InOrder
    <3>7. PhasesInOrder'
      BY <2>3, <2>4, <2>5, <3>2, <3>3, <3>6, SubjectInOrder
    <3>8. Rank(saved[w].phase) <= Rank(value.phase)
      BY <3>3, <3>4, <3>5 DEF InOrder
    <3> QED
      BY <1>1, <1>4, <3>2, <3>7, <3>8, PhaseTypes
  <2> QED
    BY <2>6, <2>7, <2>8
<1> QED
  BY <1>1, <1>3, <1>6, <1>7 DEF Saving

\* The steps of the delivery that store no desired result.
LEMMA SilentFacts ==
  ASSUME DeliveryInv, PhasesInOrder, Silent
  PROVE  PhasesInOrder' /\ saved' = saved
<1>1. /\ DeliveryTypeOK /\ setup.deliverers \subseteq Deliverers /\ setup.projectors \subseteq Projectors
      /\ Event \subseteq Workflows
  BY EventFacts DEF DeliveryInv
<1>2. DeliveryTypeOK'
  BY DeliveryStep DEF DeliveryInv
<1>3. \A n \in Nat : n <= n
  OBVIOUS
<1>4. ASSUME version' = version, phase' = phase, saved' = saved, projector' = projector PROVE PhasesInOrder'
  BY <1>4 DEF PhasesInOrder, NotAhead
<1>5. ASSUME NEW d \in Deliverers,
             ClaimProcessing(d) \/ RenewProcessing(d) \/ Unavailable(d) \/ ConcludeProcessing(d) \/ DropProcessing(d)
      PROVE  PhasesInOrder' /\ saved' = saved
  BY <1>4, <1>5 DEF ClaimProcessing, RenewProcessing, Unavailable, ConcludeProcessing, DropProcessing
<1>6. ASSUME ExpireProcessing PROVE PhasesInOrder' /\ saved' = saved
  BY <1>4, <1>6 DEF ExpireProcessing
<1>7. ASSUME NEW d \in Deliverers, AdmitWorkflow(d) PROVE PhasesInOrder' /\ saved' = saved
  <2>1. PICK w : w = deliverer[d].next
    OBVIOUS
  <2>2. /\ phase' = phase /\ saved' = saved /\ projector' = projector
        /\ version' = version \/ (version[w] = 0 /\ \E v \in {1, 2} : version' = [version EXCEPT ![w] = v])
    BY <1>7, <2>1 DEF AdmitWorkflow
  <2>3. version \in [Workflows -> 0 .. MaxVersion]
    BY <1>1 DEF DeliveryTypeOK
  <2>4. ASSUME NEW u \in Workflows PROVE version[u] <= version'[u] /\ Rank(phase[u]) <= Rank(phase'[u])
    <3>1. version[u] \in Nat /\ Rank(phase[u]) \in Nat
      BY <1>1, PhaseTypes
    <3>2. version'[u] = version[u] \/ (version[u] = 0 /\ version'[u] \in {1, 2})
      BY <2>2, <2>3
    <3> QED
      BY <1>3, <2>2, <3>1, <3>2
  <2>5. \A u \in Workflows : version'[u] \in Nat /\ Rank(phase'[u]) \in Nat
    <3>1. \A u \in Workflows : version'[u] \in 0 .. MaxVersion /\ phase'[u] \in Phases
      BY <1>2 DEF DeliveryTypeOK
    <3> QED
      BY <3>1, Ranks, DeliveryAssumption
  <2> QED
    BY <1>1, <2>2, <2>4, <2>5, RunsInOrder
<1>8. ASSUME NEW w \in Event, AdvanceRun(w) PROVE PhasesInOrder' /\ saved' = saved
  <2>1. PICK p \in Phases, v \in {version[w], version[w] + 1} :
          /\ Rank(p) > Rank(phase[w]) /\ phase' = [phase EXCEPT ![w] = p]
          /\ version' = [version EXCEPT ![w] = v] /\ saved' = saved /\ projector' = projector
    BY <1>8 DEF AdvanceRun
  <2>2. version \in [Workflows -> 0 .. MaxVersion] /\ phase \in [Workflows -> Phases] /\ w \in Workflows
    BY <1>1 DEF DeliveryTypeOK
  <2>3. ASSUME NEW u \in Workflows PROVE version[u] <= version'[u] /\ Rank(phase[u]) <= Rank(phase'[u])
    <3>1. version[u] \in Nat /\ Rank(phase[u]) \in Nat /\ Rank(p) \in Nat
      BY <1>1, PhaseTypes, Ranks
    <3>2. (version'[u] = version[u] \/ version'[u] = version[u] + 1)
      BY <2>1, <2>2
    <3>3. phase'[u] = phase[u] \/ (u = w /\ phase'[u] = p)
      BY <2>1, <2>2
    <3>4. version[u] <= version'[u]
      BY <3>1, <3>2
    <3>5. Rank(phase[u]) <= Rank(phase'[u])
      BY <1>3, <2>1, <3>1, <3>3
    <3> QED
      BY <3>4, <3>5
  <2>4. \A u \in Workflows : version'[u] \in Nat /\ Rank(phase'[u]) \in Nat
    <3>1. \A u \in Workflows : version'[u] \in 0 .. MaxVersion /\ phase'[u] \in Phases
      BY <1>2 DEF DeliveryTypeOK
    <3> QED
      BY <3>1, Ranks, DeliveryAssumption
  <2> QED
    BY <1>1, <2>1, <2>3, <2>4, RunsInOrder
<1>9. ASSUME NEW p \in Projectors, Observe(p) PROVE PhasesInOrder' /\ saved' = saved
  BY <1>9, ObserveInOrder DEF Observe
<1> QED
  BY <1>1, <1>5, <1>6, <1>7, <1>8, <1>9 DEF Silent

\* A new desired result starts the row over: a claim on it is lost, and so is
\* the create that its worker may have been about to send.
LEMMA RenewedCreates ==
  ASSUME PublicationInv, NEW u \in Workflows, outbox'[u] = Renewed(outbox[u]),
         publisher' = publisher, flying' = flying, checks' = checks, spare' \in [Workflows -> Nat],
         spare'[u] = IF outbox[u].state # "absent" /\ outbox[u].binding = 0 THEN spare[u] + 1 ELSE spare[u]
  PROVE  CreatesBounded(u)'
<1>1. PICK row, new : row = outbox[u] /\ new = Renewed(row)
  OBVIOUS
<1>2. /\ new.state = "pending" /\ new.owner = Nobody /\ new.cont = NoCont /\ new.binding = row.binding
      /\ outbox'[u] = new
  BY <1>1 DEF Renewed, Row
<1>3. Nobody \notin Publishers /\ row.binding \in 0 .. MaxChecks
  <2>1. row \in RowType
    BY <1>1, SubjectFacts
  <2> QED
    BY <2>1, PublicationAssumption DEF RowType
<1>4. \A q \in Publishers : publisher'[q].workflow = u => ~Holds(q)'
  BY <1>2, <1>3 DEF Holds
<1> DEFINE L == Len(checks[u])
           F == Cardinality(FlyingCreates(u))
           S == Cardinality(StrayCreates(u))
           SS == Cardinality(StrayCreates(u)')
           D == Due(u)
           DD == Due(u)'
           s == spare[u]
           ss == spare'[u]
<1>5. /\ L \in Nat /\ F \in Nat /\ S \in Nat /\ SS \in Nat /\ D \in 0 .. 1 /\ DD \in 0 .. 1
      /\ s \in Nat /\ ss \in Nat /\ CreatesBounded(u) /\ checks'[u] = checks[u]
  BY CreateNumbers, SubjectFacts
<1>6. FlyingCreates(u)' = FlyingCreates(u)
  BY DEF FlyingCreates
<1>7. SS <= S + D
  <2>1. Nobody \in Publishers => ~Working(Nobody) /\ (Holds(Nobody)' \/ ~Working(Nobody)')
    BY <1>3
  <2> QED
    BY <2>1, LostClaims
<1>8. CASE row.state = "absent"
  <2>1. row.cont = NoCont /\ row.binding = 0 /\ row.owner = Nobody
    BY <1>1, <1>8, SubjectFacts DEF RowInv
  <2>2. MayCreate(u, RecoverState(row))
    BY <2>1 DEF MayCreate, RecoverState, EnsureSuite, At
  <2>3. D = 1
    BY <1>1, <1>8, <2>2 DEF Due, UnderWay
  <2>4. \A q \in Publishers : publisher[q].workflow = u => ~Holds(q)
    BY <1>1, <1>3, <2>1 DEF Holds
  <2>5. StrayCreates(u)' \subseteq StrayCreates(u)
    BY <2>4 DEF StrayCreates
  <2>6. SS <= S
    BY <2>5, CreateNumbers, WorkerSets
  <2>7. ss = s
    BY <1>1, <1>8
  <2> HIDE DEF L, F, S, SS, D, DD, s, ss
  <2>8. L + F + SS + DD + s <= L + F + S + D + ss
    BY <1>5, <2>3, <2>6, <2>7
  <2> QED
    BY <1>5, <1>6, <2>8, SumKept DEF L, F, S, SS, D, DD, s, ss
<1>9. CASE row.state # "absent" /\ row.binding = 0
  <2>1. ss = s + 1
    BY <1>1, <1>9
  <2> HIDE DEF L, F, S, SS, D, DD, s, ss
  <2>2. L + F + SS + DD + s <= L + F + S + D + ss
    BY <1>5, <1>7, <2>1
  <2> QED
    BY <1>5, <1>6, <2>2, SumKept DEF L, F, S, SS, D, DD, s, ss
<1>10. CASE row.state # "absent" /\ row.binding # 0
  <2>1. RecoverState(new) = RunBound(row.binding)
    BY <1>2, <1>10 DEF RecoverState
  <2>2. ~MayCreate(u, RecoverState(new))'
    BY <2>1 DEF MayCreate, RunBound, At
  <2>3. DD = 0
    BY <1>2, <1>4, <2>2 DEF Due, UnderWay
  <2>4. ss = s
    BY <1>1, <1>10
  <2> HIDE DEF L, F, S, SS, D, DD, s, ss
  <2>5. L + F + SS + DD + s <= L + F + S + D + ss
    BY <1>5, <1>7, <2>3, <2>4
  <2> QED
    BY <1>5, <1>6, <2>5, SumKept DEF L, F, S, SS, D, DD, s, ss
<1> QED
  BY <1>8, <1>9, <1>10

\* A step of the delivery, with the rows that it starts over.
LEMMA SaveStep ==
  ASSUME PublicationInv, SaveDesired
  PROVE  PublicationInv'
<1>1. /\ Saving /\ publisher' = publisher /\ flying' = flying /\ checks' = checks /\ late' = late
      /\ outbox' = [w \in Workflows |-> IF saved'[w] = saved[w] THEN outbox[w] ELSE Renewed(outbox[w])]
      /\ spare' = [w \in Workflows |->
                    IF saved'[w] # saved[w] /\ outbox[w].state # "absent" /\ outbox[w].binding = 0
                    THEN spare[w] + 1 ELSE spare[w]]
  BY DEF SaveDesired
<1>2. DeliveryInv' /\ PhasesInOrder'
      /\ \A w \in Workflows : Rank(saved[w].phase) <= Rank(saved'[w].phase) /\ saved'[w].phase \in Phases
  BY <1>1, DeliveryStep, SavingFacts DEF PublicationInv
<1>3. \A w \in Workflows : /\ saved'[w] = saved[w] => outbox'[w] = outbox[w] /\ spare'[w] = spare[w]
                           /\ saved'[w] # saved[w] =>
                                /\ outbox'[w] = Renewed(outbox[w])
                                /\ spare'[w] = IF outbox[w].state # "absent" /\ outbox[w].binding = 0
                                               THEN spare[w] + 1 ELSE spare[w]
  BY <1>1
<1>4. outbox' \in [Workflows -> RowType]
  BY <1>1, SubjectFacts, RowTypes
<1>5. spare' \in [Workflows -> Nat]
  <2>1. \A w \in Workflows : spare[w] \in Nat /\ spare[w] + 1 \in Nat
    BY SubjectFacts
  <2> QED
    BY <1>1, <2>1
<1>6. \A u \in Workflows : /\ Len(checks[u]) \in Nat /\ Len(checks'[u]) \in Nat
                           /\ Len(checks[u]) <= Len(checks'[u])
                           /\ saved[u].phase \in Phases /\ saved'[u].phase \in Phases
                           /\ Rank(saved[u].phase) <= Rank(saved'[u].phase)
  <2>1. \A n \in Nat : n <= n
    OBVIOUS
  <2> QED
    BY <1>1, <1>2, <2>1, SubjectFacts
<1>7. ASSUME NEW w \in Workflows PROVE RowInv(w)' /\ ChecksBehind(w)' /\ CreatesBounded(w)'
  <2>1. RowInv(w) /\ ChecksBehind(w) /\ CreatesBounded(w) /\ spare[w] \in Nat /\ checks[w] \in Seq(Phases)
    BY SubjectFacts
  <2>2. ChecksBehind(w)'
    <3>1. ASSUME NEW i \in 1 .. Len(checks[w]) PROVE Rank(checks[w][i]) <= Rank(saved'[w].phase)
      <4>1. Rank(checks[w][i]) <= Rank(saved[w].phase) /\ checks[w][i] \in Phases
        BY <2>1 DEF ChecksBehind
      <4>2. Rank(checks[w][i]) \in Nat /\ Rank(saved[w].phase) \in Nat /\ Rank(saved'[w].phase) \in Nat
        BY <1>6, <4>1, Ranks
      <4> QED
        BY <1>6, <4>1, <4>2
    <3> QED
      BY <1>1, <3>1 DEF ChecksBehind
  <2>3. CASE saved'[w] = saved[w]
    <3>1. outbox[w].state = "completed" => Shown(w, outbox[w].binding)'
      BY <1>1, <2>1, <2>3 DEF RowInv, Shown
    <3>2. RowInv(w)'
      BY <1>3, <1>6, <2>1, <2>3, <3>1, RowKept
    <3>3. /\ outbox'[w] = outbox[w] /\ checks'[w] = checks[w] /\ spare'[w] = spare[w] /\ Len(checks[w]) \in Nat
          /\ \A q \in Publishers : publisher'[q] = publisher[q] /\ flying'[q] = flying[q]
      BY <1>1, <1>3, <1>6, <2>3
    <3>4. CreatesBounded(w)'
      BY <2>1, <3>3, CreatesUntouched
    <3> QED
      BY <2>2, <3>2, <3>4
  <2>4. CASE saved'[w] # saved[w]
    <3>1. CreatesBounded(w)'
      BY <1>1, <1>3, <1>5, <2>4, RenewedCreates
    <3>2. PICK new : new = outbox'[w]
      OBVIOUS
    <3>3. /\ new.state = "pending" /\ new.owner = Nobody /\ new.cont = NoCont
          /\ new.binding = outbox[w].binding /\ new.failure = "none"
      BY <1>3, <2>4, <3>2 DEF Renewed, Row
    <3>4. outbox[w].binding \in 0 .. Len(checks'[w])
      BY <1>1, <2>1 DEF RowInv
    <3>5. Fits(w, NoCont)' /\ Desired(w, NoCont.state)'
      BY <1>6 DEF Fits, Desired, NoCont, At
    <3>6. RowInv(w)'
      BY <3>2, <3>3, <3>4, <3>5 DEF RowInv
    <3> QED
      BY <2>2, <3>1, <3>6
  <2> QED
    BY <2>3, <2>4
<1>8. ASSUME NEW q \in Publishers PROVE ClaimInv(q)' /\ OutcomeInv(q)' /\ FlightInv(q)'
  <2> DEFINE w == publisher[q].workflow
             out == publisher[q].outcome
  <2>1. ClaimInv(q) /\ OutcomeInv(q) /\ FlightInv(q) /\ publisher'[q] = publisher[q] /\ flying'[q] = flying[q]
    BY <1>1, PublisherFacts
  <2>2. ASSUME Holds(q)' PROVE Holds(q) /\ w \in Workflows /\ saved'[w] = saved[w] /\ outbox'[w] = outbox[w]
    <3>1. Working(q) /\ outbox'[w].owner = q
      BY <2>1, <2>2 DEF Holds, Working
    <3>2. w \in Workflows
      BY <3>1, PublisherFacts
    <3>3. Renewed(outbox[w]).owner = Nobody /\ Nobody \notin Publishers
      BY PublicationAssumption DEF Renewed, Row
    <3>4. saved'[w] = saved[w]
      BY <1>3, <3>1, <3>2, <3>3
    <3> QED
      BY <1>3, <3>1, <3>2, <3>4 DEF Holds
  <2>3. ClaimInv(q)'
    BY <1>6, <2>1, <2>2, ClaimKept
  <2>4. ASSUME publisher[q].stage = "done", Holds(q)', out.kind = "published" PROVE Shown(w, out.cont.run)'
    <3>1. Shown(w, out.cont.run) /\ saved'[w] = saved[w]
      BY <2>1, <2>2, <2>4 DEF OutcomeInv
    <3> QED
      BY <1>1, <2>1, <3>1 DEF Shown
  <2>5. OutcomeInv(q)'
    BY <1>6, <2>1, <2>2, <2>4, OutcomeKept
  <2>6. FlightInv(q)'
    BY <1>6, <2>1, FlightKept
  <2> QED
    BY <2>3, <2>5, <2>6
<1>9. PublicationTypes'
  <2>1. PublicationTypes
    BY DEF PublicationInv
  <2> QED
    BY <1>1, <1>4, <1>5, <2>1 DEF PublicationTypes
<1> QED
  BY <1>2, <1>7, <1>8, <1>9 DEF PublicationInv

\* A step that leaves the desired results and the publication alone.
LEMMA IdleStep ==
  ASSUME PublicationInv, DeliveryInv', PhasesInOrder', saved' = saved, UNCHANGED publicationVars
  PROVE  PublicationInv'
<1>1. /\ outbox' = outbox /\ publisher' = publisher /\ flying' = flying /\ checks' = checks
      /\ spare' = spare /\ late' = late
  BY DEF publicationVars
<1>2. ASSUME NEW u \in Workflows PROVE CreatesBounded(u)' /\ outbox'[u] = outbox[u]
  <2>1. /\ outbox'[u] = outbox[u] /\ checks'[u] = checks[u] /\ spare'[u] = spare[u]
        /\ \A q \in Publishers : publisher'[q] = publisher[q] /\ flying'[q] = flying[q]
    BY <1>1
  <2> QED
    BY <2>1, SubjectFacts, CreatesUntouched
<1>3. \A q \in Publishers :
        /\ publisher'[q] = publisher[q] /\ flying'[q] = flying[q]
        /\ Holds(q)' => /\ Holds(q)
                        /\ outbox'[publisher[q].workflow].binding = outbox[publisher[q].workflow].binding
  BY <1>1 DEF Holds, Working
<1> QED
  BY <1>1, <1>2, <1>3, Opened, QuietStep

-----------------------------------------------------------------------------
(* The publication keeps its promises.                                     *)

\* Nothing has been published when the results are first desired.
LEMMA PublicationStart == ResultInit => PublicationInv
<1> SUFFICES ASSUME ResultInit PROVE PublicationInv
  OBVIOUS
<1>1. /\ DeliveryInit /\ DeliveryInv /\ DeliveryTypeOK
      /\ outbox = [w \in Workflows |-> Row(IF saved[w].version = 0 THEN "absent" ELSE "pending")]
      /\ publisher = [p \in Publishers |-> Unclaimed] /\ flying = [p \in Publishers |-> NoRequest]
      /\ checks = [w \in Workflows |-> << >>] /\ spare = [w \in Workflows |-> 0]
      /\ late = [w \in Workflows |-> FALSE]
  BY DeliveryStart DEF ResultInit, DeliveryInv
<1>2. \A w \in Workflows : /\ outbox[w] \in {Row("absent"), Row("pending")}
                           /\ checks[w] = << >> /\ Len(checks[w]) = 0 /\ spare[w] = 0
  BY <1>1
<1>3. \A p \in Publishers : publisher[p].stage = "idle" /\ publisher[p].workflow = 0 /\ flying[p] = NoRequest
  BY <1>1 DEF Unclaimed
<1>4. PublicationTypes
  <2>1. outbox \in [Workflows -> RowType]
    BY <1>1, RowTypes
  <2>2. publisher \in [Publishers -> ClaimType] /\ flying \in [Publishers -> RequestType]
    BY <1>1, ClaimTypes
  <2>3. /\ checks \in [Workflows -> Seq(Phases)] /\ spare \in [Workflows -> Nat]
        /\ \A w \in Workflows : Len(checks[w]) <= MaxChecks
    BY <1>1, <1>2, PublicationAssumption
  <2>4. late \in [Workflows -> BOOLEAN]
    BY <1>1
  <2> QED
    BY <2>1, <2>2, <2>3, <2>4 DEF PublicationTypes
<1>5. PhasesInOrder
  <2>1. ASSUME NEW w \in Workflows PROVE saved[w].phase = "queued" /\ NotAhead(saved[w], w)
    <3>1. /\ saved[w].phase = "queued" /\ phase[w] = "queued" /\ saved[w].version = version[w]
      BY <1>1 DEF DeliveryInit, FirstResult, Unsaved
    <3>2. version[w] \in Nat /\ Rank(phase[w]) \in Nat
      BY <1>1, PhaseTypes
    <3> QED
      BY <3>1, <3>2 DEF NotAhead
  <2>2. \A p \in Projectors : projector[p].workflow = 0
    BY <1>1 DEF DeliveryInit, Unobserved
  <2> QED
    BY <2>1, <2>2 DEF PhasesInOrder
<1>6. ASSUME NEW w \in Workflows PROVE RowInv(w) /\ ChecksBehind(w) /\ CreatesBounded(w)
  <2>1. PICK row : row = outbox[w]
    OBVIOUS
  <2>2. /\ row.state \in {"absent", "pending"} /\ row.owner = Nobody /\ row.cont = NoCont /\ row.binding = 0
        /\ row.failure = "none"
    BY <1>2, <2>1 DEF Row
  <2>3. NoCont.state = "none" /\ NoCont.run = 0
    BY DEF NoCont, At
  <2>4. RowInv(w)
    BY <1>2, <2>1, <2>2, <2>3 DEF RowInv, Fits, Desired
  <2>5. ChecksBehind(w)
    BY <1>2 DEF ChecksBehind
  <2>6. FlyingCreates(w) = {} /\ StrayCreates(w) = {}
    BY <1>3 DEF FlyingCreates, StrayCreates, NoRequest
  <2>7. Cardinality(FlyingCreates(w)) = 0 /\ Cardinality(StrayCreates(w)) = 0
    BY <2>6, FS_EmptySet
  <2>8. CreatesBounded(w)
    BY <1>2, <2>7, CreateNumbers DEF CreatesBounded
  <2> QED
    BY <2>4, <2>5, <2>8
<1>7. ASSUME NEW p \in Publishers PROVE ClaimInv(p) /\ OutcomeInv(p) /\ FlightInv(p)
  BY <1>3 DEF ClaimInv, OutcomeInv, FlightInv
<1> QED
  BY <1>1, <1>4, <1>5, <1>6, <1>7 DEF PublicationInv

\* Every step keeps the invariant of the publication.
LEMMA PublicationKept == PublicationInv /\ [ResultNext]_resultVars => PublicationInv'
<1> SUFFICES ASSUME PublicationInv, [ResultNext]_resultVars PROVE PublicationInv'
  OBVIOUS
<1>1. DeliveryInv /\ PhasesInOrder /\ DeliveryTypeOK
  BY DEF PublicationInv, DeliveryInv
<1>2. setup.publishers \subseteq Publishers /\ Event \subseteq Workflows
  BY <1>1, EventFacts
<1>3. CASE UNCHANGED resultVars
  <2>1. /\ DeliveryInv' /\ UNCHANGED <<setup, delivery, deliverer, version, phase, saved, projector>>
        /\ UNCHANGED publicationVars
    BY <1>1, <1>3, PublishKeepsDelivery DEF resultVars
  <2>2. PhasesInOrder'
    BY <1>1, <2>1 DEF PhasesInOrder, NotAhead
  <2> QED
    BY <2>1, <2>2, IdleStep
<1>4. CASE Silent /\ UNCHANGED publicationVars
  BY <1>1, <1>4, DeliveryStep, SilentFacts, IdleStep
<1>5. CASE SaveDesired
  BY <1>5, SaveStep
<1>6. CASE Publish
  <2>1. DeliveryInv' /\ UNCHANGED <<setup, delivery, deliverer, version, phase, saved, projector>>
    BY <1>1, <1>6, PublishKeepsDelivery
  <2>2. PhasesInOrder'
    BY <1>1, <2>1 DEF PhasesInOrder, NotAhead
  <2>3. ASSUME NEW p \in Publishers, Postpone(p) \/ Refuse(p) PROVE PublicationInv'
    <3>1. /\ Claimed(p) /\ UNCHANGED <<outbox, flying, checks, spare, late>>
          /\ \E out \in {Retry(publisher[p].state), Failed("rejected")} : Done(p, out)
      BY <2>3 DEF Postpone, Refuse
    <3> QED
      BY <2>1, <2>2, <3>1, IdleDone
  <2>4. ASSUME NEW p \in Publishers, Abandon(p) PROVE PublicationInv'
    <3>1. /\ Working(p) /\ publisher' = [publisher EXCEPT ![p] = Unclaimed]
          /\ outbox' = outbox /\ checks' = checks /\ spare' = spare /\ late' = late
          /\ flying' = flying \/ (Claimed(p) /\ Abandoned(p))
      BY <2>4 DEF Abandon, Claimed, Working
    <3> QED
      BY <2>1, <2>2, <3>1, QuitStep
  <2>5. ASSUME NEW p \in Publishers,
               ClaimResult(p) \/ Perform(p) \/ TimeOut(p) \/ Settle(p) \/ Land(p) \/ Lose(p)
        PROVE  PublicationInv'
    BY <2>1, <2>2, <2>5, ClaimResultStep, PerformStep, TimeOutStep, SettleStep, LandStep, LoseStep
  <2>6. ASSUME NEW w \in Workflows, ExpireResult(w) PROVE PublicationInv'
    BY <2>1, <2>2, <2>6, ExpireResultStep
  <2> QED
    BY <1>2, <1>6, <2>3, <2>4, <2>5, <2>6 DEF Publish
<1> QED
  BY <1>3, <1>4, <1>5, <1>6 DEF ResultNext

\* A desired result that the outbox calls completed is what its Check Run
\* shows, unless a request of a lost claim reached GitHub afterwards
\* (complete_result_inner).
THEOREM ResultsShown == ResultSpec => []ShownUnlessOvertaken
<1>1. PublicationInv => ShownUnlessOvertaken
  BY DEF PublicationInv, RowInv, Shown, ShownUnlessOvertaken
<1> QED
  BY <1>1, PublicationStart, PublicationKept, PTL DEF ResultSpec

\* A subject has one Check Run, and one more at most for each time its
\* publication began afresh before a Check Run was bound; a publication fails
\* over a conflict only when there are several (create_check_run,
\* reconcile_check_run_creation, read_run).
THEOREM ChecksBounded == ResultSpec => []ChecksAccounted
<1>1. ASSUME PublicationInv PROVE ChecksAccounted
  <2>1. ResultTypeOK
    <3>1. DeliveryTypeOK /\ PublicationTypes
      BY <1>1 DEF PublicationInv, DeliveryInv
    <3> QED
      BY <3>1 DEF ResultTypeOK, PublicationTypes, RowType, ClaimType, RequestType, ContType, OutcomeType,
                  FailureType
  <2>2. ASSUME NEW w \in Workflows
        PROVE  /\ Len(checks[w]) <= 1 + spare[w]
               /\ outbox[w].failure = "conflict" => Len(checks[w]) > 1
    <3>1. CreatesBounded(w) /\ RowInv(w) /\ Len(checks[w]) \in Nat /\ spare[w] \in Nat
      BY <1>1, SubjectFacts
    <3>2. /\ Cardinality(FlyingCreates(w)) \in Nat /\ Cardinality(StrayCreates(w)) \in Nat /\ Due(w) \in 0 .. 1
      BY CreateNumbers
    <3>3. Len(checks[w]) <= 1 + spare[w]
      BY <3>1, <3>2 DEF CreatesBounded
    <3> QED
      BY <3>1, <3>3 DEF RowInv
  <2> QED
    BY <2>1, <2>2 DEF ChecksAccounted
<1> QED
  BY <1>1, PublicationStart, PublicationKept, PTL DEF ResultSpec
==============================================================================
