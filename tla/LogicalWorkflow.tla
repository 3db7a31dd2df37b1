--------------------------- MODULE LogicalWorkflow ---------------------------
(***************************************************************************)
(* The durable orchestration of one workflow run's graph of logical jobs:  *)
(* selection, preparation and activation of a job whose prerequisites are  *)
(* final, materialization of each activated instance into a concrete job   *)
(* and attempt, projection of the attempt's terminal row into an instance  *)
(* result, aggregation of instance results into a job result and of job    *)
(* results into the run's conclusion, calls of reusable workflows,         *)
(* preemption by a newer run, and the rerun of a finalized run.            *)
(*                                                                         *)
(* Any number of workers compete for the work.  A worker first takes a     *)
(* fenced claim (owner, generation, expiry) and later commits under it.    *)
(* Every action is one PostgreSQL transaction, except the commit of an     *)
(* instance result: its trigger locks the job row and decides from a       *)
(* READ COMMITTED snapshot whether the job is due, so it is split into     *)
(* write, refresh and commit.                                              *)
(*                                                                         *)
(* An owner takes a generation once, so a fence is the claim's name and    *)
(* generation.  Clocks are abstracted to one fact per claim: it is live    *)
(* until it expires.  workflow_runs.status, logical_workflow_runs.state    *)
(* and the root invocation's state only change together; run stands for    *)
(* all three.  The conclusion of an attempt is its effective one, after    *)
(* continue-on-error.                                                      *)
(***************************************************************************)
EXTENDS Integers, FiniteSets

CONSTANTS
    Workers,     \* workflow-service workers of every phase
    Jobs,        \* logical jobs, those of called workflows included
    Instances,   \* matrix instances
    Shapes,      \* the compiled plans a run may be admitted with
    Conclusions, \* the conclusions an attempt may reach
    MaxRounds,   \* bound: attempts of the run (MAX_WORKFLOW_RUN_ATTEMPTS)
    MaxFaults    \* bound: crashes, lost answers, renewals, late expiries, quarantines,
                 \* invalid jobs and reruns, together

ASSUME GraphAssumption ==
    /\ \A s \in Shapes :
          /\ s.root \subseteq Jobs  \* the jobs of the workflow itself
          /\ s.needs \in [Jobs -> SUBSET Jobs]  \* logical_workflow_dependencies
          /\ s.callees \in [Jobs -> SUBSET Jobs]  \* the planned jobs of each reusable call
          /\ DOMAIN s.jobOf \subseteq Instances  \* the job of each instance
          /\ \A i \in DOMAIN s.jobOf : s.jobOf[i] \in Jobs /\ s.callees[s.jobOf[i]] = {}
          \* a planned job belongs to one invocation, the workflow's own or that of one
          \* call, and the invocations have a depth
          /\ \A c \in Jobs : s.callees[c] \cap s.root = {}
          /\ \A c, d \in Jobs : s.callees[c] \cap s.callees[d] # {} => c = d
          \* a dependency row names one invocation for both its jobs
          /\ \A j \in Jobs : \A p \in s.needs[j] :
                /\ j \in s.root <=> p \in s.root
                /\ \A c \in Jobs : j \in s.callees[c] <=> p \in s.callees[c]
          /\ \E depth \in [Jobs -> 0 .. Cardinality(Jobs)] :
                \A c \in Jobs : \A j \in s.callees[c] : depth[j] > depth[c]
    /\ Conclusions \subseteq {"success", "failure", "cancelled"}
    /\ MaxRounds \in Nat \ {0} /\ MaxFaults \in Nat

Root == <<"rres", 0>>
Ids == ({"prep", "act", "jres"} \X Jobs) \cup ({"mat", "ires"} \X Instances) \cup {Root}
Free == <<"none", 0>>  \* nobody's work, and nobody's row lock

VARIABLES
    shape,       \* the admitted plan
    run,         \* active, finalized or preempted
    conclusion,  \* conclusion of the run result, or none
    job,         \* logical_workflow_jobs.state
    carried,     \* jobs with rerun_carried: their result was copied by a rerun
    publication, \* activation or call publication of a job: none, matched or unmatched
    result,      \* effective conclusion of the job's result, or none
    attempt,     \* the instance's only attempt: none, open, invalid or its conclusion
    concrete,    \* number of concrete jobs inserted for the instance
    claim,       \* the claim rows
    idue,        \* logical_workflow_instance_result_due
    jdue,        \* logical_workflow_job_result_due
    quarantined, \* the quarantine rows of all four tables
    hold,        \* what each worker has in hand
    locked,      \* who holds the row lock of a logical job between two steps
    round,       \* attempt number of the run
    faults

graph == <<run, conclusion, job, carried, publication, result>>
work == <<attempt, concrete>>
due == <<idue, jdue>>
lwVars == <<shape, graph, work, claim, due, quarantined, hold, locked, round, faults>>

Nothing == [id |-> Free, gen |-> 0, stage |-> "idle", due |-> FALSE]
Unclaimed == [state |-> "none", gen |-> 0, live |-> FALSE]

LWInit ==
    /\ shape \in Shapes
    /\ run = "active"
    /\ conclusion = "none"
    /\ job = [j \in Jobs |-> IF j \in shape.root THEN "pending" ELSE "absent"]
    /\ carried = {}
    /\ publication = [j \in Jobs |-> "none"]
    /\ result = [j \in Jobs |-> "none"]
    /\ attempt = [i \in Instances |-> "none"]
    /\ concrete = [i \in Instances |-> 0]
    /\ claim = [id \in Ids |-> Unclaimed]
    /\ idue = {}
    /\ jdue = {}
    /\ quarantined = {}
    /\ hold = [w \in Workers |-> Nothing]
    /\ locked = [j \in Jobs |-> Free]
    /\ round = 1
    /\ faults = 0

-----------------------------------------------------------------------------
(* The evidence of a graph                                                 *)

Cells == DOMAIN shape.jobOf
JobOf(i) == shape.jobOf[i]
Needs(j) == shape.needs[j]

\* Jobs of execution kind 'steps'; all others call a reusable workflow.
Steps(j) == shape.callees[j] = {}
CallsOf(j) == {c \in Jobs : j \in shape.callees[c]}

Done(id) == claim[id].state = "done"

Running == run = "active"

\* The invocation of a called workflow is active from the publication of the
\* call until its completion.
ChildActive(c) == ~Steps(c) /\ publication[c] = "matched" /\ ~Done(<<"jres", c>>)

\* lock_active_logical_graph: the run and the job's own invocation
Active(j) == Running /\ \A c \in CallsOf(j) : ChildActive(c)

\* The job a claim is about
JobAt(id) == IF id[1] \in {"mat", "ires"} THEN JobOf(id[2]) ELSE id[2]

\* The instances a publication inserted
Published(j) == IF publication[j] = "matched" THEN {i \in Cells : JobOf(i) = j} ELSE {}

\* Mutant: a published prerequisite counts as final.
EffectiveOncePublished(j) == publication[j] # "none" \/ j \in carried

\* logical_workflow_effective_job_results: own results and carried ones
Effective(j) == Done(<<"jres", j>>) \/ j \in carried

NeedsReady(j) == \A p \in Needs(j) : Effective(p)

\* automata_refresh_logical_workflow_job_result_due: whether the job is due
\* when the instances in final have results.  The prerequisites are looked up
\* among the run's own results, not among the effective ones.
JobReady(j, final) ==
    /\ Active(j) /\ Steps(j)
    /\ job[j] \in {"activated", "skipped"}
    /\ publication[j] # "none"
    /\ ~Done(<<"jres", j>>)
    /\ Published(j) \subseteq final
    /\ \A p \in Needs(j) : Done(<<"jres", p>>)

FinalInstances == {i \in Instances : Done(<<"ires", i>>)}

\* The due rows after job j has been refreshed
Refreshed(j, ready) == IF ready THEN jdue \cup {j} ELSE jdue \ {j}

\* automata_refresh_logical_workflow_instance_result_due.  An attempt that was
\* failed as invalid has no terminal row.
InstanceReady(i, conclusions) ==
    /\ Active(JobOf(i))
    /\ job[JobOf(i)] = "activated"
    /\ conclusions[i] \notin {"none", "open", "invalid"}
    /\ ~Done(<<"ires", i>>)

\* load_instances and load_prerequisites: the descriptor of a job result
DescriptorComplete(j) == Published(j) \subseteq FinalInstances /\ NeedsReady(j)

\* Mutant: one success is enough.
SeverityOptimistic == <<"success", "failure", "timed_out", "cancelled", "skipped">>

\* The order in which aggregate_conclusion looks for conclusions
Severity == <<"failure", "timed_out", "cancelled", "success", "skipped">>

\* aggregate_conclusion, of instances and of jobs: the first that occurs
Aggregate(conclusions) ==
    LET worst == CHOOSE k \in 1..5 :
                    /\ Severity[k] \in conclusions \/ k = 5
                    /\ \A m \in 1..(k - 1) : Severity[m] \notin conclusions
    IN  Severity[worst]

JobConclusion(j) == Aggregate({attempt[i] : i \in Published(j)})

\* terminal_job_state
TerminalJobState(c) == CASE c = "success" -> "completed"
                         [] c \in {"failure", "timed_out"} -> "failed"
                         [] OTHER -> c

-----------------------------------------------------------------------------
(* Claims: a worker owns the work of a claim row while its fence matches   *)

\* Mutant: a finalized claim still matches its last fence.
FenceIgnoringState(w) ==
    /\ claim[hold[w].id].gen = hold[w].gen
    /\ claim[hold[w].id].live

\* matches_fence and the comparison of the database clock with the expiry
Fence(w) ==
    /\ claim[hold[w].id].state = "held"
    /\ claim[hold[w].id].gen = hold[w].gen
    /\ claim[hold[w].id].live

\* Mutant: an expired claim is never taken over.
ClaimableOnce(id) == claim[id].state = "none"

\* resolve_durable_claim: a claim that does not exist yet or has expired
Claimable(id) == claim[id].state = "none" \/ (claim[id].state = "held" /\ ~claim[id].live)

\* Mutant: a takeover keeps the generation.
TakenUnfenced(id) == [state |-> "held", gen |-> 1, live |-> TRUE]

\* insert_initial_claim and the takeover in resolve_durable_claim
Taken(id) == [state |-> "held", gen |-> claim[id].gen + 1, live |-> TRUE]

Take(w, id) ==
    /\ hold[w].id = Free
    /\ Claimable(id)
    /\ claim' = [claim EXCEPT ![id] = Taken(id)]
    /\ hold' = [hold EXCEPT ![w] = [id |-> id, gen |-> Taken(id).gen, stage |-> "held",
                                    due |-> FALSE]]

Holds(w, id) == hold[w].id = id /\ hold[w].stage = "held"

Fault == faults < MaxFaults /\ faults' = faults + 1
Drop(w) == hold' = [hold EXCEPT ![w] = Nothing]

\* A commit under the fence.  When its answer is lost the worker keeps the
\* fence and commits again, which only finds the finalized claim.
Finish(w) ==
    /\ Fence(w)
    /\ claim' = [claim EXCEPT ![hold[w].id].state = "done"]
    /\ \/ Drop(w) /\ UNCHANGED faults
       \/ Fault /\ UNCHANGED hold

\* Preparation and activation of a job share one quarantine row.
QuarantineRow(id) == IF id[1] = "prep" THEN <<"act", id[2]>> ELSE id

Unlocked(j) == locked[j] = Free

-----------------------------------------------------------------------------
(* Selection, preparation and activation                                   *)

\* claim_next_logical_job_orchestration: the job is prepared first and, once
\* its preparation is bound, activated.
ClaimOrchestration(w, j) ==
    /\ Active(j) /\ Steps(j)
    /\ NeedsReady(j)
    /\ <<"act", j>> \notin quarantined
    /\ \/ /\ job[j] = "pending" /\ ~Done(<<"prep", j>>)
          /\ Take(w, <<"prep", j>>)
          /\ UNCHANGED job
       \/ /\ job[j] = "activating" \/ (job[j] = "pending" /\ Done(<<"prep", j>>))
          /\ Take(w, <<"act", j>>)
          /\ job' = [job EXCEPT ![j] = "activating"]
    /\ UNCHANGED <<shape, run, conclusion, carried, publication, result, work, due, quarantined,
                   locked, round, faults>>

\* bind_logical_activation_preparation
BindPreparation(w, j) ==
    /\ Holds(w, <<"prep", j>>)
    /\ Active(j)
    /\ <<"act", j>> \notin quarantined
    /\ Finish(w)
    /\ UNCHANGED <<shape, graph, work, due, quarantined, locked, round>>

\* publish_logical_job_activation, with the trigger that refreshes the due row
PublishActivation(w, j, matched) ==
    /\ Holds(w, <<"act", j>>)
    /\ Active(j)
    /\ <<"act", j>> \notin quarantined
    /\ Finish(w)
    /\ publication' = [publication EXCEPT ![j] = IF matched THEN "matched" ELSE "unmatched"]
    /\ job' = [job EXCEPT ![j] = IF matched THEN "activated" ELSE "skipped"]
    /\ UNCHANGED <<shape, run, conclusion, carried, result, work, idue, quarantined, locked, round>>
    /\ jdue' = Refreshed(j, JobReady(j, FinalInstances)')

-----------------------------------------------------------------------------
(* Materialization                                                         *)

\* Mutant: the state of the run is not looked at.
MaterializationAnytime(i) == TRUE

\* lock_run: only an active run is materialized
MaterializationOpen(i) == Active(JobOf(i))

\* claim_next_logical_instance_materialization
ClaimMaterialization(w, i) ==
    /\ MaterializationOpen(i)
    /\ job[JobOf(i)] = "activated"
    /\ i \in Published(JobOf(i))
    /\ <<"mat", i>> \notin quarantined
    /\ Take(w, <<"mat", i>>)
    /\ UNCHANGED <<shape, graph, work, due, quarantined, locked, round, faults>>

\* commit_logical_instance_materialization: insert_job, insert_initial_attempt
CommitMaterialization(w, i) ==
    /\ Holds(w, <<"mat", i>>)
    /\ MaterializationOpen(i)
    /\ <<"mat", i>> \notin quarantined
    /\ Finish(w)
    /\ concrete' = [concrete EXCEPT ![i] = @ + 1]
    /\ attempt' = [attempt EXCEPT ![i] = "open"]
    /\ UNCHANGED <<shape, graph, due, quarantined, locked, round>>

-----------------------------------------------------------------------------
(* Renewal, expiry and loss of a claim                                     *)

\* A renewal of a preparation, activation or materialization claim takes the
\* next generation.  Until the answer arrives, or when it is lost, the worker
\* only knows the old one.
Renew(w) ==
    /\ hold[w].id[1] \in {"prep", "act", "mat"} /\ hold[w].stage = "held"
    /\ Active(JobAt(hold[w].id))
    /\ QuarantineRow(hold[w].id) \notin quarantined
    /\ Fence(w)
    /\ Fault
    /\ claim' = [claim EXCEPT ![hold[w].id].gen = @ + 1]
    /\ hold' = [hold EXCEPT ![w].stage = "renewing"]
    /\ UNCHANGED <<shape, graph, work, due, quarantined, locked, round>>

\* The renewal receipt answers the same request again, whatever happened to
\* the claim since.
ReplayRenew(w) ==
    /\ hold[w].stage = "renewing"
    /\ hold' = [hold EXCEPT ![w].stage = "held", ![w].gen = @ + 1]
    /\ UNCHANGED <<shape, graph, work, claim, due, quarantined, locked, round, faults>>

\* The expiry passes.  A worker that holds the fence is expected to be done or
\* to have renewed by then; when it is not, that counts as a fault.
Expire(id) ==
    /\ claim[id].state = "held" /\ claim[id].live
    /\ claim' = [claim EXCEPT ![id].live = FALSE]
    /\ \/ /\ \A w \in Workers : hold[w].id # id
          /\ UNCHANGED faults
       \/ Fault
    /\ UNCHANGED <<shape, graph, work, due, quarantined, hold, locked, round>>

\* A worker gives up work it can no longer commit, or loses work it could
\* have committed: it crashes, and an open transaction is rolled back.
Forget(w) ==
    /\ hold[w].id # Free
    /\ IF (Fence(w) /\ Running) \/ hold[w].stage \in {"wrote", "refreshed", "renewing"}
       THEN Fault
       ELSE UNCHANGED faults
    /\ Drop(w)
    /\ locked' = [j \in Jobs |-> IF locked[j] = hold[w].id /\ hold[w].stage = "refreshed"
                                 THEN Free ELSE locked[j]]
    /\ UNCHANGED <<shape, graph, work, claim, due, quarantined, round>>

\* A worker that finds its work corrupt quarantines it under its fence.
Quarantine(w) ==
    /\ hold[w].id \notin {Free, Root} /\ hold[w].stage = "held"
    /\ Active(JobAt(hold[w].id))
    /\ Fence(w)
    /\ Fault
    /\ quarantined' = quarantined \cup {QuarantineRow(hold[w].id)}
    /\ Drop(w)
    /\ UNCHANGED <<shape, graph, work, claim, due, locked, round>>

-----------------------------------------------------------------------------
(* Attempts, and the projection of their terminal rows                     *)

\* The attempt ends with a terminal row, whose trigger refreshes the due row.
Conclude(i, c) ==
    /\ attempt[i] = "open"
    /\ attempt' = [attempt EXCEPT ![i] = c]
    /\ idue' = IF InstanceReady(i, attempt') THEN idue \cup {i} ELSE idue \ {i}
    /\ UNCHANGED <<shape, graph, concrete, claim, jdue, quarantined, hold, locked, round, faults>>

\* apply_lease_response, LeaseResponseAction::Fail: the attempt fails without
\* a terminal row.
FailInvalid(i) ==
    /\ attempt[i] = "open"
    /\ Fault
    /\ attempt' = [attempt EXCEPT ![i] = "invalid"]
    /\ idue' = idue \ {i}
    /\ UNCHANGED <<shape, graph, concrete, claim, jdue, quarantined, hold, locked, round>>

\* An open transaction keeps the due row of its instance locked.
Projecting(i) == \E w \in Workers : hold[w].id = <<"ires", i>>
                                    /\ hold[w].stage \in {"wrote", "refreshed"}

\* validate_target_state of an instance result
InstanceTargetOpen(i) == Active(JobOf(i)) /\ job[JobOf(i)] = "activated"

\* claim_next_logical_instance_result: the claim and its trigger, or a
\* quarantine when the due row has outlived its target
ClaimInstanceResult(w, i) ==
    /\ i \in idue
    /\ <<"ires", i>> \notin quarantined
    /\ ~Projecting(i)
    /\ Unlocked(JobOf(i))
    /\ hold[w].id = Free /\ Claimable(<<"ires", i>>)
    /\ IF InstanceTargetOpen(i)
       THEN /\ Take(w, <<"ires", i>>)
            /\ jdue' = Refreshed(JobOf(i), JobReady(JobOf(i), FinalInstances))
            /\ UNCHANGED quarantined
       ELSE /\ quarantined' = quarantined \cup {<<"ires", i>>}
            /\ UNCHANGED <<claim, hold, jdue>>
    /\ UNCHANGED <<shape, graph, work, idue, locked, round, faults>>

\* commit_logical_instance_result up to the claim's update: the fence and the
\* target are checked, but no logical row is locked yet.
WriteInstanceResult(w, i) ==
    /\ Holds(w, <<"ires", i>>)
    /\ Fence(w)
    /\ InstanceTargetOpen(i)
    /\ ~Projecting(i)
    /\ hold' = [hold EXCEPT ![w].stage = "wrote"]
    /\ UNCHANGED <<shape, graph, work, claim, due, quarantined, locked, round, faults>>

\* Mutant: the trigger does not lock the job row.
RefreshUnlocked(w, i) ==
    /\ hold[w].id = <<"ires", i>> /\ hold[w].stage = "wrote"
    /\ hold' = [hold EXCEPT ![w].stage = "refreshed",
                            ![w].due = JobReady(JobOf(i), FinalInstances \cup {i})]
    /\ UNCHANGED <<shape, graph, work, claim, due, quarantined, locked, round, faults>>

\* automata_refresh_logical_workflow_instance_claim_due_trigger: the job row is
\* locked before the committed results, and the one just written, are counted.
RefreshAfterWrite(w, i) ==
    /\ hold[w].id = <<"ires", i>> /\ hold[w].stage = "wrote"
    /\ Unlocked(JobOf(i))
    /\ locked' = [locked EXCEPT ![JobOf(i)] = hold[w].id]
    /\ hold' = [hold EXCEPT ![w].stage = "refreshed",
                            ![w].due = JobReady(JobOf(i), FinalInstances \cup {i})]
    /\ UNCHANGED <<shape, graph, work, claim, due, quarantined, round, faults>>

\* The transaction commits: the result, both due rows, and the lock.
CommitInstanceResult(w, i) ==
    /\ hold[w].id = <<"ires", i>> /\ hold[w].stage = "refreshed"
    /\ claim' = [claim EXCEPT ![hold[w].id].state = "done"]
    /\ idue' = idue \ {i}
    /\ jdue' = Refreshed(JobOf(i), hold[w].due)
    /\ locked' = [locked EXCEPT ![JobOf(i)] = Free]
    /\ Drop(w)
    /\ UNCHANGED <<shape, graph, work, quarantined, round, faults>>

-----------------------------------------------------------------------------
(* Job results and run finalization                                        *)

\* lock_target, load_descriptor and validate_target_state of a job result
JobTargetOpen(j) ==
    /\ Active(j) /\ Steps(j)
    /\ job[j] \in {"activated", "skipped"}
    /\ publication[j] # "none"
    /\ DescriptorComplete(j)

\* claim_next_logical_job_result
ClaimJobResult(w, j) ==
    /\ j \in jdue
    /\ <<"jres", j>> \notin quarantined
    /\ Unlocked(j)
    /\ hold[w].id = Free /\ Claimable(<<"jres", j>>)
    /\ IF JobTargetOpen(j)
       THEN /\ Take(w, <<"jres", j>>)
            /\ jdue' = Refreshed(j, JobReady(j, FinalInstances))
            /\ UNCHANGED quarantined
       ELSE /\ quarantined' = quarantined \cup {<<"jres", j>>}
            /\ UNCHANGED <<claim, hold, jdue>>
    /\ UNCHANGED <<shape, graph, work, idue, locked, round, faults>>

\* commit_logical_job_result, with the triggers that refresh the job's own due
\* row and those of the jobs that need it
CommitJobResult(w, j) ==
    LET stale == {j} \cup {d \in Jobs : j \in Needs(d)}
    IN  /\ Holds(w, <<"jres", j>>)
        /\ \A d \in stale : Unlocked(d)
        /\ JobTargetOpen(j)
        /\ Finish(w)
        /\ result' = [result EXCEPT ![j] = JobConclusion(j)]
        /\ job' = [job EXCEPT ![j] = TerminalJobState(JobConclusion(j))]
        /\ UNCHANGED <<shape, run, conclusion, carried, publication, work, idue, quarantined, locked,
                       round>>
        /\ jdue' = (jdue \ stale) \cup {d \in stale : JobReady(d, FinalInstances)'}

\* LOCK_READY_CANDIDATE_QUERY
FinalizationReady ==
    /\ Running
    /\ \A j \in shape.root : Effective(j) /\ job[j] = TerminalJobState(result[j])

\* claim_next_logical_run_finalization
ClaimRunFinalization(w) ==
    /\ FinalizationReady
    /\ Take(w, Root)
    /\ UNCHANGED <<shape, graph, work, due, quarantined, locked, round, faults>>

\* commit_logical_run_finalization
CommitRunFinalization(w) ==
    /\ Holds(w, Root)
    /\ FinalizationReady
    /\ Finish(w)
    /\ run' = "finalized"
    /\ conclusion' = Aggregate({result[j] : j \in shape.root})
    /\ UNCHANGED <<shape, job, carried, publication, result, work, due, quarantined, locked, round>>

-----------------------------------------------------------------------------
(* Calls of reusable workflows                                             *)

\* Mutant: the results of the called jobs are not waited for.
CallReadyAtOnce(c) == publication[c] # "none"

\* NEXT_REUSABLE_COMPLETION_SQL and load_child_results
CallReady(c) ==
    /\ publication[c] # "none"
    /\ publication[c] = "matched" => \A j \in shape.callees[c] : Done(<<"jres", j>>)

\* publish_reusable_workflow_call.  Nobody claims a call: the transaction checks
\* under its locks that the call is still pending and finds what another worker
\* published.  The called jobs appear, in an invocation of their own.
PublishCall(c, matched) ==
    /\ ~Steps(c)
    /\ Active(c)
    /\ job[c] = "pending"
    /\ \A p \in Needs(c) : Done(<<"jres", p>>)
    /\ claim[Root].state = "none"
    /\ publication' = [publication EXCEPT ![c] = IF matched THEN "matched" ELSE "unmatched"]
    /\ job' = [j \in Jobs |-> IF j = c THEN IF matched THEN "activated" ELSE "skipped"
                             ELSE IF matched /\ j \in shape.callees[c] THEN "pending"
                             ELSE job[j]]
    /\ UNCHANGED <<shape, run, conclusion, carried, result, work, claim, due, quarantined, hold,
                   locked, round, faults>>

\* complete_reusable_workflow_call: the invocation ends, the aggregate of the
\* called jobs becomes the result of the call, and the jobs that need the call
\* are refreshed.
CompleteCall(c) ==
    LET verdict == IF publication[c] = "matched"
                   THEN Aggregate({result[j] : j \in shape.callees[c]})
                   ELSE "skipped"
        needing == {d \in Jobs : c \in Needs(d)}
    IN  /\ ~Steps(c)
        /\ Running
        /\ ~Done(<<"jres", c>>)
        /\ job[c] \in {"activated", "skipped"}
        /\ CallReady(c)
        /\ claim[Root].state = "none"
        /\ \A d \in needing : Unlocked(d)
        /\ claim' = [claim EXCEPT ![<<"jres", c>>] = [state |-> "done", gen |-> 1, live |-> TRUE]]
        /\ result' = [result EXCEPT ![c] = verdict]
        /\ job' = [job EXCEPT ![c] = TerminalJobState(verdict)]
        /\ UNCHANGED <<shape, run, conclusion, carried, publication, work, idue, quarantined, hold,
                       locked, round, faults>>
        /\ jdue' = (jdue \ needing) \cup {d \in needing : JobReady(d, FinalInstances)'}

-----------------------------------------------------------------------------
(* Preemption and rerun                                                    *)

\* finalize_logical_concurrency_cancellation
PreemptedJobs ==
    {j \in Jobs \ carried : job[j] \in {"pending", "activating", "activated", "skipped"}}

\* cancel_run, called when a newer run of the concurrency group preempts this
\* one: first the attempts that are still queued are cancelled with a terminal
\* row, whose trigger still sees the job activated, then the jobs and the run.
\* The preemption is refused as corrupt while a called workflow is active.
Preempt(queued) ==
    /\ Running
    /\ \A c \in Jobs : ~ChildActive(c)
    /\ \A j \in Jobs : Unlocked(j)
    /\ \A i \in queued : attempt[i] = "open"
    /\ attempt' = [i \in Instances |-> IF i \in queued THEN "cancelled" ELSE attempt[i]]
    /\ idue' = idue \cup {i \in queued : InstanceReady(i, attempt')}
    /\ jdue' = jdue \ PreemptedJobs
    /\ job' = [j \in Jobs |-> IF j \in PreemptedJobs THEN "cancelled" ELSE job[j]]
    /\ run' = "preempted"
    /\ UNCHANGED <<shape, conclusion, carried, publication, result, concrete, claim, quarantined,
                   hold, locked, round, faults>>

\* select_jobs: the seeds and, transitively, every job that needs one
Selected(seeds) ==
    LET Closed == {s \in SUBSET Jobs : seeds \subseteq s
                                       /\ \A j \in Jobs : Needs(j) \cap s # {} => j \in s}
    IN  {j \in Jobs : \A s \in Closed : j \in s}

\* EntireWorkflow, FailedJobsAndDependents and JobAndDependents.  A partial
\* selection is refused when some job has several instances, and any rerun of a
\* workflow with a call.
Selections ==
    {shape.root} \cup {Selected(seeds) :
        seeds \in {s \in {{j \in Jobs : result[j] \in {"failure", "timed_out"}}}
                         \cup {{j} : j \in shape.root} :
                      s # {} /\ \A j \in Jobs : Cardinality(Published(j)) <= 1}}

\* admit_workflow_rerun: the graph of the next attempt of a finalized run.
\* Unselected jobs keep state and result as carried; everything else is new.
Rerun(selected) ==
    /\ run = "finalized"
    /\ \A j \in shape.root : Steps(j)
    /\ round < MaxRounds
    /\ Fault
    /\ round' = round + 1
    /\ run' = "active"
    /\ conclusion' = "none"
    /\ carried' = shape.root \ selected
    /\ job' = [j \in Jobs |-> IF j \in selected THEN "pending" ELSE job[j]]
    /\ result' = [j \in Jobs |-> IF j \in selected THEN "none" ELSE result[j]]
    /\ publication' = [j \in Jobs |-> "none"]
    /\ attempt' = [i \in Instances |-> "none"]
    /\ concrete' = [i \in Instances |-> 0]
    /\ claim' = [id \in Ids |-> Unclaimed]
    /\ hold' = [w \in Workers |-> Nothing]
    /\ idue' = {}
    /\ jdue' = {}
    /\ quarantined' = {}
    /\ UNCHANGED <<shape, locked>>

-----------------------------------------------------------------------------
\* What a worker does when nothing goes wrong
WorkerStep(w) ==
    \/ \E j \in Jobs :
          \/ ClaimOrchestration(w, j) \/ BindPreparation(w, j)
          \/ \E matched \in BOOLEAN : PublishActivation(w, j, matched)
          \/ ClaimJobResult(w, j) \/ CommitJobResult(w, j)
    \/ \E i \in Cells :
          \/ ClaimMaterialization(w, i) \/ CommitMaterialization(w, i)
          \/ ClaimInstanceResult(w, i) \/ WriteInstanceResult(w, i)
          \/ RefreshAfterWrite(w, i) \/ CommitInstanceResult(w, i)
    \/ ClaimRunFinalization(w) \/ CommitRunFinalization(w)
    \/ ReplayRenew(w)
    \/ Forget(w)

\* What the service for calls does
CallStep == \E c \in Jobs : (\E matched \in BOOLEAN : PublishCall(c, matched)) \/ CompleteCall(c)

LWNext ==
    \/ \E w \in Workers : WorkerStep(w) \/ Renew(w) \/ Quarantine(w)
    \/ \E id \in Ids : Expire(id)
    \/ \E i \in Cells : (\E c \in Conclusions : Conclude(i, c)) \/ FailInvalid(i)
    \/ CallStep
    \/ \E queued \in SUBSET Cells : Preempt(queued)
    \/ \E selected \in Selections : Rerun(selected)

\* While a worker or the service for calls can take a step, a claim can expire
\* or an attempt can end, one of these happens.  Nothing forces a preemption or
\* a rerun.
LWFairness ==
    WF_lwVars(\/ \E w \in Workers : WorkerStep(w)
              \/ CallStep
              \/ \E id \in Ids : Expire(id)
              \/ \E i \in Cells, c \in Conclusions : Conclude(i, c))

LWSpec == LWInit /\ [][LWNext]_lwVars /\ LWFairness

-----------------------------------------------------------------------------
(* Properties                                                              *)

JobStates == {"absent", "pending", "activating", "activated", "completed", "skipped", "cancelled", "failed"}
Final == {Severity[k] : k \in 1..5}

LWTypeOK ==
    /\ shape \in Shapes
    /\ run \in {"active", "finalized", "preempted"}
    /\ conclusion \in Final \cup {"none"}
    /\ job \in [Jobs -> JobStates]
    /\ carried \subseteq shape.root
    /\ publication \in [Jobs -> {"none", "matched", "unmatched"}]
    /\ result \in [Jobs -> Final \cup {"none"}]
    /\ attempt \in [Instances -> Final \cup {"none", "open", "invalid"}]
    /\ concrete \in [Instances -> Nat]
    /\ claim \in [Ids -> [state : {"none", "held", "done"}, gen : Nat, live : BOOLEAN]]
    /\ idue \subseteq Instances /\ jdue \subseteq Jobs
    /\ quarantined \subseteq Ids
    /\ hold \in [Workers -> [id : Ids \cup {Free}, gen : Nat, due : BOOLEAN,
                             stage : {"idle", "held", "renewing", "wrote", "refreshed"}]]
    /\ locked \in [Jobs -> Ids \cup {Free}]
    /\ round \in 1..MaxRounds /\ faults \in 0..MaxFaults

\* However claims expire, are taken over and renewed with lost answers, no two
\* workers can commit under the same claim.
ExclusiveCustody ==
    \A v, w \in Workers :
        v # w /\ hold[v].id = hold[w].id /\ hold[v].id # Free => ~(Fence(v) /\ Fence(w))

\* An instance is materialized into at most one concrete job, although workers
\* take over from each other and repeat commits whose answer was lost; and every
\* row holds a value that its column allows (LWTypeOK).
OneConcreteJob ==
    /\ LWTypeOK
    /\ \A i \in Instances : concrete[i] <= 1 /\ (attempt[i] # "none" => concrete[i] = 1)

\* No work of a job starts before every job it needs, or that the call it
\* belongs to needs, has a final result, its own or a carried one.
ActivatedAfterNeeds ==
    \A j \in Jobs \ carried :
        claim[<<"prep", j>>].state # "none" =>
            \A p \in UNION {Needs(c) : c \in {j} \cup CallsOf(j)} : result[p] # "none" /\ (p \in carried \/ job[p] \in
                                 {"completed", "skipped", "cancelled", "failed"})

\* A success is never reported over a failure: a job succeeds only when each
\* published instance ended and none failed, and the run only when every job
\* ended and none failed.
ResultsComplete ==
    /\ \A j \in Jobs \ carried : result[j] = "success" =>
          \A i \in Published(j) : attempt[i] \in {"success", "skipped"} /\ Done(<<"ires", i>>)
    /\ conclusion = "success" => \A j \in shape.root : result[j] \in {"success", "skipped"}
    /\ run = "finalized" => \A j \in shape.root : result[j] # "none"

\* A call is never over before the workflow it called: once it has a result no
\* called job is open, no worker can commit anything of it, and a failure of a
\* called job shows in the result of the run.
CallsCoverCallees ==
    \A c \in Jobs : ~Steps(c) /\ result[c] # "none" =>
        \A j \in shape.callees[c] :
            /\ job[j] \in {"absent", "completed", "skipped", "cancelled", "failed"}
            /\ \A w \in Workers : hold[w].id # Free /\ hold[w].id # Root
                                   /\ JobAt(hold[w].id) = j => ~Fence(w)
            /\ result[j] = "failure" => conclusion # "success"

\* After preemption no worker, whatever it had in hand, creates a concrete job,
\* activates a job or records a job or run result.
PreemptedStays ==
    [][run = "preempted" => run' = "preempted" /\ UNCHANGED <<job, result, concrete, conclusion>>]_lwVars

\* The due rows are exact.  One exists as soon as the evidence for a job result
\* is complete, although its last two instances may commit at the same time:
\* otherwise no worker would ever look at the job.  And while the run is active
\* none leads a worker to incomplete evidence, for which it would quarantine
\* the work for good.
DueExact ==
    /\ \A j \in Jobs : JobTargetOpen(j) /\ ~Done(<<"jres", j>>) /\ Needs(j) \cap carried = {} => j \in jdue
    /\ Running => /\ \A j \in jdue : JobTargetOpen(j)
                  /\ \A i \in idue : InstanceTargetOpen(i)

\* What docs/workflow-reruns.md says of reruns: readiness is decided over the
\* effective results, carried ones included.
EffectiveEvidenceDue == \A j \in Jobs : JobTargetOpen(j) /\ ~Done(<<"jres", j>>) => j \in jdue

\* An active run ends unless it is blocked by quarantined work, by an attempt
\* that failed without a terminal row, or by a job that needs a carried one.
RunConcludes ==
    Running ~> \/ ~Running
              \/ quarantined # {}
              \/ \E i \in Instances : attempt[i] = "invalid"
              \/ \E j \in Jobs \ carried : Needs(j) \cap carried # {}
=============================================================================
