------------------------- MODULE ResultPublication -------------------------
(***************************************************************************)
(* The outbox of desired results and its publication as GitHub Check Runs. *)
(*                                                                         *)
(* A result worker claims a desired result, performs ONE request against   *)
(* GitHub and settles the claim: published, to be retried from a           *)
(* continuation, or failed (ProviderResultWorker, GithubResultAdapter).    *)
(* A newer desired result supersedes the row at any time, whatever its     *)
(* claim is doing; requests whose answer was lost still reach GitHub, or   *)
(* do not.  Annotations are left out: a run's projection has none.         *)
(***************************************************************************)
EXTENDS ProviderDelivery, Sequences

CONSTANTS
    MaxPublications,    \* MAX_PROVIDER_RESULT_PUBLICATION_ATTEMPTS
    MaxChecks           \* bound on the Check Runs of one subject

Nobody == "nobody"

ASSUME PublicationAssumption ==
    /\ IsFiniteSet(Publishers) /\ Nobody \notin Publishers
    /\ MaxPublications \in Nat \ {0}
    /\ MaxChecks \in Nat \ {0}

VARIABLES
    outbox,     \* provider_result_outbox, but for the desired result (saved)
    publisher,  \* the claim in the hands of each result worker
    flying,     \* per worker, an abandoned request that may still take effect
    checks,     \* GitHub: the states of a subject's Check Runs
    spare,      \* history: the times a create became possible once more, although
                \* an earlier one may have taken or may still take effect
    late        \* history: a lost claim's request changed the Check Run after
                \* the current claim had last looked at it

publicationVars == <<outbox, publisher, flying, checks, spare, late>>
resultVars == <<deliveryVars, publicationVars>>

\* GithubResultState, and the absence of a continuation.  run is the bound
\* Check Run.
At(state, run) == [state |-> state, run |-> run]
NoCont == At("none", 0)
EnsureSuite == At("suite", 0)
SuiteBound == At("create", 0)
ReconcileRun == At("reconcile", 0)
RunBound(run) == At("read", run)
StartRun(run) == At("start", run)
CompleteRun(run) == At("complete", run)

Published(run) == [kind |-> "published", cont |-> RunBound(run), failure |-> "none"]
Retry(cont) == [kind |-> "retry", cont |-> cont, failure |-> "none"]
Failed(failure) == [kind |-> "failed", cont |-> NoCont, failure |-> failure]

Row(state) == [state |-> state, attempts |-> 0, owner |-> Nobody, live |-> FALSE,
               cont |-> NoCont, binding |-> 0, failure |-> "none"]
Unclaimed == [stage |-> "idle", workflow |-> 0, phase |-> "queued", state |-> NoCont,
              binding |-> 0, outcome |-> Retry(NoCont)]
NoRequest == [workflow |-> 0, op |-> "none", run |-> 0]

ResultInit ==
    /\ DeliveryInit
    /\ outbox = [w \in Workflows |-> Row(IF saved[w].version = 0 THEN "absent" ELSE "pending")]
    /\ publisher = [p \in Publishers |-> Unclaimed]
    /\ flying = [p \in Publishers |-> NoRequest]
    /\ checks = [w \in Workflows |-> <<>>]
    /\ spare = [w \in Workflows |-> 0]
    /\ late = [w \in Workflows |-> FALSE]

-----------------------------------------------------------------------------
(* The outbox                                                              *)

\* insert_outbox and update_outbox: the row starts over, whoever has claimed
\* it; only the binding to a Check Run is kept.
Renewed(row) == [Row("pending") EXCEPT !.binding = row.binding]

\* A step that stores a desired result, with the row it resets
SaveDesired ==
    /\ Saving
    /\ outbox' = [w \in Workflows |-> IF saved'[w] = saved[w] THEN outbox[w] ELSE Renewed(outbox[w])]
    /\ spare' = [w \in Workflows |->
                    IF saved'[w] # saved[w] /\ outbox[w].state # "absent" /\ outbox[w].binding = 0
                    THEN spare[w] + 1 ELSE spare[w]]
    /\ UNCHANGED <<publisher, flying, checks, late>>

Working(p) == publisher[p].stage # "idle"

\* Mutant: the settlement names the row and not the claim.
HoldsRow(p) == Working(p) /\ outbox[publisher[p].workflow].state = "claimed"

\* The worker, generation and fence of a claim.  A worker has one claim at a
\* time and a superseded row has none: the owner identifies them.
Holds(p) == Working(p) /\ outbox[publisher[p].workflow].owner = p

\* Every request on a claim is also made before its expiry.
Valid(p) == Holds(p) /\ outbox[publisher[p].workflow].live

FailedRow(row, failure) ==
    [Row("failed") EXCEPT !.attempts = row.attempts, !.binding = row.binding, !.failure = failure]

Expired(row) == row.state = "claimed" /\ ~row.live

Claimable(row) == row.attempts < MaxPublications /\ (row.state = "pending" \/ Expired(row))

\* recover_state
RecoverState(row) ==
    IF row.cont # NoCont THEN row.cont
    ELSE IF row.binding # 0 THEN RunBound(row.binding) ELSE EnsureSuite

\* claim_result_inner.  Expired claims at the limit fail first.
ClaimResult(p) ==
    LET swept == [w \in Workflows |->
                    IF Expired(outbox[w]) /\ outbox[w].attempts = MaxPublications
                    THEN FailedRow(outbox[w], "attempt-limit") ELSE outbox[w]]
    IN  /\ ~Working(p)
        /\ \/ \E w \in Event :
                /\ Claimable(swept[w])
                /\ outbox' = [swept EXCEPT ![w].state = "claimed", ![w].attempts = @ + 1,
                                           ![w].owner = p, ![w].live = TRUE]
                /\ publisher' = [publisher EXCEPT ![p] =
                        [stage |-> "claimed", workflow |-> w, phase |-> saved[w].phase,
                         state |-> RecoverState(outbox[w]), binding |-> outbox[w].binding,
                         outcome |-> Retry(NoCont)]]
                /\ spare' = IF Expired(outbox[w]) /\ outbox[w].binding = 0
                            THEN [spare EXCEPT ![w] = @ + 1] ELSE spare
           \/ /\ ~\E w \in Event : Claimable(swept[w])
              /\ swept # outbox
              /\ outbox' = swept
              /\ UNCHANGED <<publisher, spare>>
        /\ UNCHANGED <<deliveryVars, flying, checks, late>>

\* A claim runs out: its worker is gone or (a fault) has stalled.
ExpireResult(w) ==
    /\ outbox[w].state = "claimed" /\ outbox[w].live
    /\ outbox' = [outbox EXCEPT ![w].live = FALSE]
    /\ IF \E p \in Publishers : Holds(p) /\ publisher[p].workflow = w THEN Fault ELSE UNCHANGED faults
    /\ UNCHANGED <<setup, delivery, deliverer, version, phase, tied, saved, projector>>
    /\ UNCHANGED <<publisher, flying, checks, spare, late>>

\* apply_disposition with complete_result_inner, retry_result_inner and
\* fail_result_inner: a claim that is not exact any more is forgotten.
Settle(p) ==
    LET me  == publisher[p]
        row == outbox[me.workflow]
        out == me.outcome
        settled ==
            CASE out.kind = "published" ->
                    [Row("completed") EXCEPT !.attempts = row.attempts, !.binding = out.cont.run]
              [] out.kind = "retry" /\ row.attempts < MaxPublications ->
                    [row EXCEPT !.state = "pending", !.owner = Nobody, !.live = FALSE, !.cont = out.cont]
              [] out.kind = "retry" /\ row.attempts >= MaxPublications -> FailedRow(row, "attempt-limit")
              [] out.kind = "failed" -> FailedRow(row, out.failure)
    IN  /\ me.stage = "done"
        /\ outbox' = IF Valid(p) THEN [outbox EXCEPT ![me.workflow] = settled] ELSE outbox
        /\ publisher' = [publisher EXCEPT ![p] = Unclaimed]
        /\ UNCHANGED <<deliveryVars, flying, checks, spare, late>>

-----------------------------------------------------------------------------
(* GitHub                                                                  *)

\* What a request does to the Check Runs of a subject
Applied(runs, op, run) ==
    CASE op = "create" -> Append(runs, "queued")
      [] op = "start" -> [runs EXCEPT ![run] = "running"]
      [] op = "complete" -> [runs EXCEPT ![run] = "completed"]
      [] OTHER -> runs

Mutations == {"create", "start", "complete"}
Admissible(w, op) == op = "create" => Len(checks[w]) < MaxChecks

\* The request of a claim that the outbox does not know any more changes a run.
Overtakes(w, op, run) == op \in {"start", "complete"} /\ Applied(checks[w], op, run) # checks[w]

-----------------------------------------------------------------------------
(* GithubResultAdapter: one request per claim                              *)

\* read_run
ReadOutcome(desired, current, run) ==
    CASE desired = current -> Published(run)
      [] desired = "running" /\ current = "queued" -> Retry(StartRun(run))
      [] desired = "completed" /\ current \in {"queued", "running"} -> Retry(CompleteRun(run))
      [] OTHER -> Failed("conflict")

\* reconcile_check_run_creation: the runs with the subject's external id
Reconciled(runs) ==
    CASE Len(runs) = 0 -> Retry(SuiteBound)
      [] Len(runs) = 1 -> Retry(RunBound(1))
      [] Len(runs) > 1 -> Failed("conflict")

\* The answer of perform when GitHub answers; runs are the Check Runs after
\* the request.
Answer(me, runs) ==
    CASE me.state.state = "suite" -> Retry(SuiteBound)
      [] me.state.state = "create" -> Retry(RunBound(Len(runs)))
      [] me.state.state = "reconcile" -> Reconciled(runs)
      [] me.state.state = "read" -> ReadOutcome(me.phase, runs[me.state.run], me.state.run)
      [] me.state.state \in {"start", "complete"} -> Published(me.state.run)

\* Mutant: a create without an answer is sent again.
UnansweredBlind(state) ==
    CASE state.state = "create" -> Retry(SuiteBound)
      [] state.state \in {"start", "complete"} -> Retry(RunBound(state.run))
      [] OTHER -> Retry(state)

\* The answer of perform when GitHub's is lost (http_error, Indeterminate)
Unanswered(state) ==
    CASE state.state = "create" -> Retry(ReconcileRun)
      [] state.state \in {"start", "complete"} -> Retry(RunBound(state.run))
      [] OTHER -> Retry(state)

\* recover_state and published refuse a Check Run other than the bound one.
Mismatched(me) == me.binding # 0 /\ me.state.run # me.binding

Done(p, outcome) ==
    publisher' = [publisher EXCEPT ![p] = [Unclaimed EXCEPT
                        !.stage = "done", !.workflow = publisher[p].workflow,
                        !.outcome = IF Mismatched(publisher[p]) THEN Failed("conflict") ELSE outcome]]

Claimed(p) == publisher[p].stage = "claimed"

\* The claim was made before not_before_millis, a time that is counted from the
\* claim of the create whose answer was lost.  Clocks and the time it takes to
\* acquire a credential decide which claims that are, not the create's fate.
Postpone(p) ==
    /\ Claimed(p)
    /\ publisher[p].state.state = "reconcile"
    /\ Done(p, Retry(publisher[p].state))
    /\ UNCHANGED <<deliveryVars, outbox, flying, checks, spare, late>>

\* An abandoned create of the subject may still take effect.
InFlight(w) == \E p \in Publishers : flying[p].op = "create" /\ flying[p].workflow = w

\* The request is performed and answered.
Perform(p) ==
    LET me   == publisher[p]
        w    == me.workflow
        op   == me.state.state
        runs == Applied(checks[w], op, me.state.run)
    IN  /\ Claimed(p)
        /\ Admissible(w, op)
        /\ checks' = [checks EXCEPT ![w] = IF Mismatched(me) THEN @ ELSE runs]
        /\ Done(p, Answer(me, runs))
        /\ late' = [late EXCEPT ![w] = IF Holds(p) THEN @ /\ op \notin {"read", "start", "complete"}
                                       ELSE @ \/ Overtakes(w, op, me.state.run)]
        /\ spare' = IF Holds(p) /\ op = "reconcile" /\ runs = <<>> /\ InFlight(w)
                    THEN [spare EXCEPT ![w] = @ + 1] ELSE spare
        /\ UNCHANGED <<deliveryVars, outbox, flying>>

\* The request that p leaves behind, if it has been sent at all
Abandoned(p) ==
    LET me == publisher[p]
    IN  \/ UNCHANGED flying
        \/ /\ me.state.state \in Mutations
           /\ flying[p] = NoRequest
           /\ flying' = [flying EXCEPT ![p] =
                    [workflow |-> me.workflow, op |-> me.state.state, run |-> me.state.run]]

\* The answer does not arrive in time.
TimeOut(p) ==
    /\ Claimed(p)
    /\ Fault
    /\ Abandoned(p)
    /\ Done(p, Unanswered(publisher[p].state))
    /\ UNCHANGED <<setup, delivery, deliverer, version, phase, tied, saved, projector>>
    /\ UNCHANGED <<outbox, checks, spare, late>>

\* No context or credential, a rate limit: nothing was done.  Or GitHub refuses.
Refuse(p) ==
    /\ Claimed(p)
    /\ Fault
    /\ \E outcome \in {Retry(publisher[p].state), Failed("rejected")} : Done(p, outcome)
    /\ UNCHANGED <<setup, delivery, deliverer, version, phase, tied, saved, projector>>
    /\ UNCHANGED <<outbox, flying, checks, spare, late>>

\* The worker's heartbeat finds its claim gone and drops the request; or (a
\* fault) its server stops.
Abandon(p) ==
    /\ Claimed(p) \/ (Working(p) /\ Valid(p))
    /\ IF Valid(p) THEN Fault ELSE UNCHANGED faults
    /\ IF Claimed(p) THEN Abandoned(p) ELSE UNCHANGED flying
    /\ publisher' = [publisher EXCEPT ![p] = Unclaimed]
    /\ UNCHANGED <<setup, delivery, deliverer, version, phase, tied, saved, projector>>
    /\ UNCHANGED <<outbox, checks, spare, late>>

\* An abandoned request takes effect.
Land(p) ==
    LET r == flying[p]
    IN  /\ r # NoRequest
        /\ Admissible(r.workflow, r.op)
        /\ checks' = [checks EXCEPT ![r.workflow] = Applied(@, r.op, r.run)]
        /\ late' = [late EXCEPT ![r.workflow] = @ \/ Overtakes(r.workflow, r.op, r.run)]
        /\ flying' = [flying EXCEPT ![p] = NoRequest]
        /\ UNCHANGED <<deliveryVars, outbox, publisher, spare>>

Lose(p) ==
    /\ flying[p] # NoRequest
    /\ flying' = [flying EXCEPT ![p] = NoRequest]
    /\ UNCHANGED <<deliveryVars, outbox, publisher, checks, spare, late>>

Publish ==
    \/ \E p \in setup.publishers :
            ClaimResult(p) \/ Postpone(p) \/ Perform(p) \/ TimeOut(p) \/ Refuse(p)
                \/ Abandon(p) \/ Settle(p) \/ Land(p) \/ Lose(p)
    \/ \E w \in Event : ExpireResult(w)

ResultNext ==
    \/ Silent /\ UNCHANGED publicationVars
    \/ SaveDesired
    \/ Publish

\* The workers and projection services keep running, claims run out and
\* abandoned requests end, one way or the other; faults, and changes of a
\* run, may cease.
Progress ==
    \/ \E p \in setup.projectors : Observe(p) /\ UNCHANGED publicationVars
    \/ SaveDesired
    \/ Publish /\ UNCHANGED faults

ResultFairness == WF_resultVars(Progress)

ResultSpec == ResultInit /\ [][ResultNext]_resultVars /\ ResultFairness

-----------------------------------------------------------------------------
(* Properties                                                              *)

ResultTypeOK ==
    LET Runs  == 0..MaxChecks
        Conts == [state : {"none", "suite", "create", "reconcile", "read", "start", "complete"},
                  run : Runs]
        Failures == {"none", "attempt-limit", "conflict", "rejected"}
    IN  /\ DeliveryTypeOK
        /\ outbox \in [Workflows -> [state : {"absent", "pending", "claimed", "completed", "failed"},
                                     attempts : 0..MaxPublications, owner : Publishers \cup {Nobody},
                                     live : BOOLEAN, cont : Conts, binding : Runs, failure : Failures]]
        /\ publisher \in [Publishers ->
                [stage : {"idle", "claimed", "done"}, workflow : Workflows \cup {0}, phase : Phases,
                 state : Conts, binding : Runs,
                 outcome : [kind : {"published", "retry", "failed"}, cont : Conts, failure : Failures]]]
        /\ flying \in [Publishers -> [workflow : Workflows \cup {0}, op : Mutations \cup {"none"}, run : Runs]]
        /\ \A w \in Workflows : checks[w] \in Seq(Phases) /\ Len(checks[w]) <= MaxChecks

\* A desired result that the outbox calls completed is what its Check Run
\* shows, unless a request of a lost claim reached GitHub afterwards
\* (complete_result_inner, after read_run, start_check_run or
\* complete_check_run under a claim that may be superseded at any time).
ShownUnlessOvertaken ==
    \A w \in Workflows :
        outbox[w].state = "completed" =>
            /\ outbox[w].binding # 0
            /\ late[w] \/ checks[w][outbox[w].binding] = saved[w].phase

\* A subject has one Check Run, and one more at most for each time that its
\* publication could create again without knowing what became of an earlier
\* create: superseded or taken over from an expired claim before a Check Run was
\* bound, or reconciled while the create was still on its way.  Nothing else
\* adds one, however often requests time out and are retried
\* (create_check_run, reconcile_check_run_creation).  Publication fails over a
\* conflict only when a subject has several Check Runs; out of order requests
\* and superseded phases do not cause one (read_run, recover_state, published).
\* Every counter stays within the limit the code gives it (claim_processing,
\* claim_result_inner; ResultTypeOK).
ChecksAccounted ==
    /\ ResultTypeOK
    /\ \A w \in Workflows :
         /\ Len(checks[w]) <= 1 + spare[w]
         /\ outbox[w].failure = "conflict" => Len(checks[w]) > 1

\* When a run changes no more, its last change becomes the desired result and
\* the outbox publishes it or gives it up: no order of projections,
\* supersessions, lost claims and lost answers leaves it behind.  The exception
\* is a change that did not move updated_at, which nobody looks for
\* (reconcile_next, ProviderResultWorker::run).
ResultSettles ==
    <>[](\A w \in Event : saved[w].version # 0 =>
            /\ saved[w].version >= version[w]
            /\ tied[w] \/ saved[w].phase = phase[w]
            /\ setup.publishers # {} => outbox[w].state \in {"completed", "failed"})

\* "concurrent observations converge through monotonic, idempotent
\* desired-result reconciliation" (provider_result_projection.rs:46): when a run
\* changes no more, its status becomes the desired result.
ObservationsConverge ==
    <>[](\A w \in Event : saved[w].version # 0 => saved[w].phase = phase[w])
=============================================================================
