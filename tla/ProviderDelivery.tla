-------------------------- MODULE ProviderDelivery --------------------------
(***************************************************************************)
(* From a verified webhook to the desired result of each workflow run.     *)
(*                                                                         *)
(* A processing worker claims the invocation of a delivery, admits the     *)
(* event's workflows one after the other and records, for each, a result   *)
(* subject whose desired result is "queued" (ProviderProcessingWorker,     *)
(* ProviderWorkflowApplicationService::apply).  Projection services, one   *)
(* per server, then carry every later change of a run into the desired     *)
(* result (ProviderWorkflowResultProjectionService).                       *)
(*                                                                         *)
(* A version stands for a reading of updated_at: 1 is the creation of the  *)
(* invocation, which the first desired result carries.  All workflows are  *)
(* selected and valid; the others are projected as completed at once and   *)
(* take no further part.                                                   *)
(***************************************************************************)
EXTENDS Integers, FiniteSets

CONSTANTS
    Workflows,      \* 1..n, in the order in which apply goes through them
    Deliverers,     \* processing workers
    Projectors,     \* projection services
    Publishers,     \* result workers of the connection (ResultPublication)
    Setups,         \* what a behaviour starts from, see DeliveryInit
    MaxProcessings, \* MAX_PROVIDER_PROCESSING_ATTEMPTS
    MaxVersion,     \* bound on the changes of a run
    MaxFaults       \* bound on dropped, stalled and unavailable operations

ASSUME DeliveryAssumption ==
    /\ IsFiniteSet(Workflows) /\ Workflows = 1..Cardinality(Workflows)
    /\ MaxProcessings \in Nat \ {0}
    /\ MaxVersion \in Nat \ {0, 1}
    /\ MaxFaults \in Nat
    /\ \A s \in Setups : /\ \E n \in Workflows : s.event = 1..n
                         /\ s.deliverers \subseteq Deliverers
                         /\ s.projectors \subseteq Projectors
                         /\ s.publishers \subseteq Publishers

VARIABLES
    setup,      \* the event's workflows, the workers that run
    delivery,   \* provider_processing_invocations
    deliverer,  \* what each processing worker has in hand
    version,    \* updated_at of each workflow run, 0 before its admission
    phase,      \* status of each workflow run
    tied,       \* history: the last change of the status left updated_at as it was
    saved,      \* provider_result_subjects and the desired result in the outbox
    projector,  \* the observation in the hands of each projection service
    faults

deliveryVars == <<setup, delivery, deliverer, version, phase, tied, saved, projector, faults>>

Phases == {"queued", "running", "completed"}
Rank(p) == CASE p = "queued" -> 1 [] p = "running" -> 2 [] p = "completed" -> 3

Unsaved == [version |-> 0, phase |-> "queued", attempt |-> 0]
FirstResult(attempt) == [version |-> 1, phase |-> "queued", attempt |-> attempt]
Unobserved == [workflow |-> 0, version |-> 0, phase |-> "queued"]
NotProcessing == [stage |-> "idle", attempt |-> 0, next |-> 1]

Event == setup.event

\* accept_delivery has stored the invocation; or it has been completed and
\* every workflow has its first desired result.
DeliveryInit ==
    /\ setup \in Setups
    /\ delivery = IF setup.delivered
                  THEN [state |-> "completed", attempts |-> 1, live |-> FALSE]
                  ELSE [state |-> "pending", attempts |-> 0, live |-> FALSE]
    /\ deliverer = [d \in Deliverers |-> NotProcessing]
    /\ version = [w \in Workflows |-> IF setup.delivered /\ w \in Event THEN 1 ELSE 0]
    /\ phase = [w \in Workflows |-> "queued"]
    /\ tied = [w \in Workflows |-> FALSE]
    /\ saved = [w \in Workflows |-> IF setup.delivered /\ w \in Event THEN FirstResult(1) ELSE Unsaved]
    /\ projector = [p \in Projectors |-> Unobserved]
    /\ faults = 0

Fault == faults < MaxFaults /\ faults' = faults + 1

-----------------------------------------------------------------------------
(* The claim on an invocation                                              *)

\* The attempt number grows with every claim and is its fence.
Owns(d) ==
    /\ delivery.state = "claimed"
    /\ delivery.attempts = deliverer[d].attempt

\* What every conditional UPDATE and the admission require of the claim
Current(d) == Owns(d) /\ delivery.live

Processing(d) == deliverer[d].stage # "idle"

\* automata_enforce_provider_processing_transition, for the attempts column:
\* from claimed to claimed is a new claim unless it binds a control's source.
TransitionAllowed(old, new) ==
    IF new.state = "claimed"
    THEN /\ old.state \in {"pending", "claimed"}
         /\ new.attempts = old.attempts + 1
    ELSE old.state = "claimed" /\ new.attempts = old.attempts

Processable ==
    /\ delivery.attempts < MaxProcessings
    /\ delivery.state = "pending" \/ (delivery.state = "claimed" /\ ~delivery.live)

ClaimProcessing(d) ==
    /\ deliverer[d].stage = "idle"
    /\ Processable
    /\ delivery' = [state |-> "claimed", attempts |-> delivery.attempts + 1, live |-> TRUE]
    /\ TransitionAllowed(delivery, delivery')
    /\ deliverer' = [deliverer EXCEPT ![d] =
            [stage |-> "admit", attempt |-> delivery.attempts + 1, next |-> 1]]
    /\ UNCHANGED <<setup, version, phase, tied, saved, projector, faults>>

\* renew_processing extends the expiry of a claimed row and leaves its
\* attempts: an UPDATE the table's trigger refuses.  The error drops the
\* processing; the row stays claimed until the claim runs out.
RenewProcessing(d) ==
    /\ deliverer[d].stage \in {"admit", "project"}
    /\ ~(Current(d) /\ TransitionAllowed(delivery, delivery))
    /\ deliverer' = [deliverer EXCEPT ![d] = NotProcessing]
    /\ UNCHANGED <<setup, delivery, version, phase, tied, saved, projector, faults>>

\* The claim runs out: its worker is gone or (a fault) has stalled.
ExpireProcessing ==
    /\ delivery.state = "claimed" /\ delivery.live
    /\ delivery' = [delivery EXCEPT !.live = FALSE]
    /\ IF \E d \in Deliverers : Processing(d) /\ Owns(d) THEN Fault ELSE UNCHANGED faults
    /\ UNCHANGED <<setup, deliverer, version, phase, tied, saved, projector>>

-----------------------------------------------------------------------------
(* ProviderWorkflowApplicationService::apply                               *)

Goto(d, stage) == deliverer' = [deliverer EXCEPT ![d].stage = stage]

\* Admission is idempotent, and a worker whose claim is not current is told
\* that its authority does not match.
AdmitWorkflow(d) ==
    /\ deliverer[d].stage = "admit"
    /\ LET w == deliverer[d].next
       IN  IF Current(d)
           THEN /\ Goto(d, "project")
                /\ \/ version[w] # 0 /\ UNCHANGED version
                   \/ version[w] = 0 /\ \E v \in {1, 2} : version' = [version EXCEPT ![w] = v]
           ELSE Goto(d, "fail") /\ UNCHANGED version
    /\ UNCHANGED <<setup, delivery, phase, tied, saved, projector, faults>>

\* Blob store or database unavailable, during an admission or a projection
Unavailable(d) ==
    /\ deliverer[d].stage \in {"admit", "project"}
    /\ Fault
    /\ Goto(d, "retry")
    /\ UNCHANGED <<setup, delivery, version, phase, tied, saved, projector>>

\* Mutant: the digest of a projection leaves out updated_at.
SaveOutcomeByPhase(w, subject, v, p) ==
    CASE saved[w].version = 0 -> "inserted"
      [] saved[w].version # 0 /\ saved[w].attempt # subject -> "conflict"
      [] saved[w].attempt = subject /\ saved[w].phase = p /\ saved[w].version # 0 -> "unchanged"
      [] OTHER -> IF saved[w].version >= v THEN "conflict" ELSE "superseded"

\* save_desired_result_inner.  The subject's digest has the attempt of the
\* processing that created it, the projection's digest has updated_at.
SaveOutcome(w, subject, v, p) ==
    CASE saved[w].version = 0 -> "inserted"
      [] saved[w].version # 0 /\ saved[w].attempt # subject -> "conflict"
      [] saved[w].attempt = subject /\ saved[w].version = v /\ saved[w].phase = p -> "unchanged"
      [] OTHER -> IF saved[w].version >= v THEN "conflict" ELSE "superseded"

Stored(w, outcome, value) ==
    saved' = IF outcome \in {"inserted", "superseded"} THEN [saved EXCEPT ![w] = value] ELSE saved

\* project_invocation is not fenced by the claim.
ProjectInvocation(d) ==
    /\ deliverer[d].stage = "project"
    /\ LET w       == deliverer[d].next
           attempt == deliverer[d].attempt
           outcome == SaveOutcome(w, attempt, 1, "queued")
       IN  /\ Stored(w, outcome, FirstResult(attempt))
           /\ IF outcome = "conflict" THEN Goto(d, "fail")
              ELSE IF w + 1 \in Event
                   THEN deliverer' = [deliverer EXCEPT ![d].stage = "admit", ![d].next = w + 1]
                   ELSE Goto(d, "complete")
    /\ UNCHANGED <<setup, delivery, version, phase, tied, projector, faults>>

\* Mutant: an unavailable dependency ends the invocation.
ConcludedRetryless(stage) == IF stage = "complete" THEN "completed" ELSE "failed"

\* The state that complete, retry and fail write
Concluded(stage) ==
    CASE stage = "complete" -> "completed"
      [] stage = "retry" -> "pending"
      [] stage = "fail" -> "failed"

\* apply_outcome: a lost claim is refused and forgotten.
ConcludeProcessing(d) ==
    /\ deliverer[d].stage \in {"complete", "retry", "fail"}
    /\ delivery' = IF Current(d)
                   THEN [delivery EXCEPT !.state = Concluded(deliverer[d].stage), !.live = FALSE]
                   ELSE delivery
    /\ deliverer' = [deliverer EXCEPT ![d] = NotProcessing]
    /\ UNCHANGED <<setup, version, phase, tied, saved, projector, faults>>

\* The server of the worker stops.
DropProcessing(d) ==
    /\ Processing(d)
    /\ Fault
    /\ deliverer' = [deliverer EXCEPT ![d] = NotProcessing]
    /\ UNCHANGED <<setup, delivery, version, phase, tied, saved, projector>>

-----------------------------------------------------------------------------
(* Runs and their projection                                               *)

\* Every transaction that changes the status of a run, here cancel_run, writes
\* updated_at with it: the caller's time or, when that is the earlier one, the
\* time of the previous change once more.  So do reconcile_run_in_transaction,
\* which accepts an equal time, and the finalization of a run.
AdvanceRun(w) ==
    /\ version[w] # 0
    /\ \E p \in Phases, v \in {version[w], version[w] + 1} :
            /\ Rank(p) > Rank(phase[w])
            /\ v <= MaxVersion
            /\ phase' = [phase EXCEPT ![w] = p]
            /\ version' = [version EXCEPT ![w] = v]
            /\ tied' = [tied EXCEPT ![w] = (v = version[w])]
    /\ UNCHANGED <<setup, delivery, deliverer, saved, projector, faults>>

\* next_workflow_result: a subject whose run has a later updated_at
Behind(w) == saved[w].version # 0 /\ version[w] > saved[w].version

Observe(p) ==
    /\ projector[p] = Unobserved
    /\ \E w \in Event :
            /\ Behind(w)
            /\ projector' = [projector EXCEPT ![p] =
                    [workflow |-> w, version |-> version[w], phase |-> phase[w]]]
    /\ UNCHANGED <<setup, delivery, deliverer, version, phase, tied, saved, faults>>

Stopped == [Unobserved EXCEPT !.version = -1]

\* reconcile_workflow_run: a conflict ends the service, and with it the server.
Reconcile(p) ==
    LET o       == projector[p]
        subject == saved[o.workflow].attempt
        outcome == SaveOutcome(o.workflow, subject, o.version, o.phase)
    IN  /\ o.workflow # 0
        /\ Stored(o.workflow, outcome, [version |-> o.version, phase |-> o.phase, attempt |-> subject])
        /\ projector' = [projector EXCEPT ![p] = IF outcome = "conflict" THEN Stopped ELSE Unobserved]
        /\ UNCHANGED <<setup, delivery, deliverer, version, phase, tied, faults>>

\* The steps that leave the outbox of the results alone
Silent ==
    \/ \E d \in setup.deliverers :
            \/ ClaimProcessing(d) \/ RenewProcessing(d) \/ AdmitWorkflow(d)
            \/ Unavailable(d) \/ ConcludeProcessing(d) \/ DropProcessing(d)
    \/ ExpireProcessing
    \/ \E w \in Event : AdvanceRun(w)
    \/ \E p \in setup.projectors : Observe(p)

\* The steps that may store a desired result
Saving ==
    \/ \E d \in setup.deliverers : ProjectInvocation(d)
    \/ \E p \in setup.projectors : Reconcile(p)

DeliveryNext == Silent \/ Saving

DeliverySpec == DeliveryInit /\ [][DeliveryNext]_deliveryVars

-----------------------------------------------------------------------------
(* Properties                                                              *)

DeliveryTypeOK ==
    /\ setup \in Setups
    /\ delivery \in [state : {"pending", "claimed", "completed", "failed"},
                     attempts : 0..MaxProcessings, live : BOOLEAN]
    /\ deliverer \in [Deliverers -> [stage : {"idle", "admit", "project", "complete", "retry", "fail"},
                                     attempt : 0..MaxProcessings, next : Workflows]]
    /\ version \in [Workflows -> 0..MaxVersion]
    /\ phase \in [Workflows -> Phases]
    /\ saved \in [Workflows -> [version : 0..MaxVersion, phase : Phases, attempt : 0..MaxProcessings]]
    /\ projector \in [Projectors -> [workflow : Workflows \cup {0}, version : -1..MaxVersion, phase : Phases]]
    /\ faults \in 0..MaxFaults

\* An invocation is completed only when each of the event's workflows has a
\* run and a result subject, and it fails only over a subject that an earlier
\* attempt left behind: no fault, stall or takeover does it otherwise
\* (complete_processing and fail_processing, called by apply_outcome).
ConclusionsEarned ==
    /\ delivery.state = "completed" => \A w \in Event : version[w] # 0 /\ saved[w].version # 0
    /\ delivery.state = "failed" => \E w \in Event : saved[w].attempt \in 1..(delivery.attempts - 1)

\* apply "Selects every configured workflow and admits each accepted plan."
\* (provider_trigger.rs:155): an invocation that is over has admitted them all.
AdmitsEachWorkflow ==
    delivery.state \in {"completed", "failed"} => \A w \in Event : version[w] # 0
=============================================================================
