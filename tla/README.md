# Verification of the Automata control plane

TLA+ models of the durable core of Automata: how a queued job attempt becomes a
lease held by one runner, how that lease is renewed, given back, concluded,
cancelled, preempted and reaped; how lease requests and commands travel between
the control plane and a runner; how runs and concurrency groups follow; how the
graph of a workflow's logical jobs is activated, materialized, projected, rerun
and preempted; how a runner carries an accepted job from its sandbox to the
delivery of its log and result, through crashes; and how a webhook becomes
workflow runs whose state ends up as a Check Run at GitHub. The models are
translated from the stores, services, workers and the runner's runtime and
journal, and checked with TLC. The safety properties of all of them, and the
refinement of an abstract lease protocol and of an abstract durable log, are
proved with TLAPS.

## The system

The control plane (`automata`) keeps all of its state in PostgreSQL. Runners
(`automata-runner`) connect over mTLS, ask for work, and report back. Every
operation is one transaction that locks the rows it decides on with
`FOR UPDATE`, so the interesting interleavings are those *between*
transactions: a runner's message was sent under a state that other
transactions have changed since.

| Component | State | Operations | Hard because |
| --- | --- | --- | --- |
| Job lifecycle (`automata-ci-core/.../lifecycle.rs`) | the lifecycle of an attempt | `validate_transition` | writers that do not ask it |
| Runner sessions (`g1.rs`) | `runners.session_epoch`, `status`, `desired_state`, `runner_sessions` | open, close, heartbeat, resume | a superseded session still has messages in flight |
| Attempt leases (`g1.rs`, `lib.rs`) | lease, token, assignment, lifecycle, `lease_failures`, `changed_at_ms` of `job_attempts` | claim, publish offer, respond, heartbeat (two transactions), terminal result | stale credentials, renewals out of order, lease expiry racing everything |
| Cancellation (`g1.rs`, `admission.rs`) | `attempt_cancellation_intents`, the command outbox, `attempt_terminal_results` | request, acknowledge, close by result, preempt | the caller's clock becomes row time; late runner messages |
| Maintenance (`maintenance.rs`) | none of its own | reap expired attempts, close stale sessions, skip blocked attempts | candidates are read before rows are locked; the only way out for orphaned leases |
| Admission, runs, concurrency (`admission.rs`) | `workflow_runs`, `concurrency_groups`, `concurrency_group_pending_runs` | admit, assign slot, cancel displaced runs, reconcile, promote | a promotion forgotten by one of many transactions stalls a group for good |
| Logical workflows (`logical_*.rs`) | logical jobs, instances, results | activate, materialize, project results | several claim/commit pairs with their own fences; readiness decided by triggers from a snapshot |
| Lease requests and commands (`runner_control/handler.rs`, `lease/service.rs`, `g1.rs`) | request heads, claim and response receipts, offer publications, the command outbox and its cursor | begin, look up, claim, inspect, publish, complete, acknowledge | one request is up to eight transactions; its retries run beside it |
| Runner journal, supervisor, spool (`runner-*`) | slots, leases, poll checkpoints, the command cursor, log cursors and spool objects on the runner's disk | poll, record, acknowledge; create and destroy the sandbox; emit, deliver and acknowledge log segments; record and deliver the result; recover, abandon, release | crash between any two of journal, spool, provider and message; blocking tasks that outlive their caller |
| Reruns, reusable workflows (`workflow_rerun.rs`, `reusable_workflow_runtime.rs`) | carried results, child invocations | rerun, publish a call, complete it | old results and new work in one graph |
| Provider delivery (`provider-postgres/delivery.rs`, `provider_trigger.rs`) | `provider_processing_invocations` | claim, renew, admit each workflow, project, conclude | a processing that is repeated half way |
| Result publication (`provider-postgres/result.rs`, `result_worker.rs`, `result_adapter.rs`) | result subjects, `provider_result_outbox`; Check Runs at GitHub | save desired, claim, one request, settle | supersession under a claim; lost answers; requests that land late |
| Schedules | schedule claims | evaluate, claim | external calls between two transactions |
| Frontend, execution of steps, sandbox engines, auth, blobs, web | | | pure text processing, or I/O against external engines |

Components interact through rows only: `runner_control` calls the store, the
store's attempt transactions end with the reconciliation of the attempt's run
(`reconcile_attempt_run`), and that releases the slot of a concurrency group.
`PROJECT.json` lists every component with its status, and under `hazards` the
places where this code can go wrong in a way a test hardly reaches.

## Modules

* `AttemptLease` - sessions, leases, cancellation, preemption and reaping. One
  action per transaction; a transaction that fails rolls back and is no step; a
  replay answered from a receipt is a stuttering step.
* `ExclusiveWork` - what the lease protocol promises, without leases, sessions,
  tokens or clocks: work is assigned to one place at a time, only that place
  executes it, and work that may have started is never assigned again.
  `AttemptLease` implements it under the mapping of its last definitions:
  `phase` from the lifecycle, `place` from the lease's runner and slot,
  `executing` from the runners' unexpired beliefs.
* `ControlPlane` - extends `AttemptLease`: each attempt transaction conjoined
  with its run-level guard (`Runnable`, `Blocked`) and with `Reconcile`, plus
  admission and one concurrency group. Which runs are in the group, the jobs of
  each and their dependencies are chosen at the start from `Plans`.
* `AttemptLeaseProofs`, `ExclusiveWorkProofs`, `ControlPlaneProofs`,
  `LogicalWorkflowProofs`, `LeasePollProofs`, `ResultPublicationProofs`,
  `RunnerSlotProofs`, `DurableLogProofs` - the TLAPS proofs;
  `ResultPublicationProofs` is about `ProviderDelivery` too, and `DurableLogProofs`
  about how `RunnerSlot` implements `DurableLog`.
* `LeasePoll` - how a slot asks for work and how commands reach it: the handler
  of a lease request with each of its store transactions as an action, the
  command outbox of the session, and the runner's slot loops and journal, with
  retries, lost answers and restarts.
* `LogicalWorkflow` - the graph of one run: workers that claim, prepare,
  activate, materialize and project under fenced claims, the due rows that lead
  them to work, calls of reusable workflows, preemption, reruns.
* `ProviderDelivery` - the invocation of a delivery, its processing workers, the
  workflow runs it admits and the services that project their changes.
* `ResultPublication` - extends `ProviderDelivery` with the outbox of results, the
  result workers with the GitHub adapter, and GitHub itself.
* `RunnerSlot` - one accepted slot on the runner, from its execution to its
  release: journal record, spool, sandbox, executor, log emission and delivery,
  terminal result, crashes, and recovery under the authority that a closed
  session gives; with the control plane's transactions for log batches and
  results.
* `DurableLog` - what runner and control plane promise of an attempt's log, without
  journal, spool, segments, receipts or crashes: it grows at its end, arrives in
  order and once, an emission is reported durable only when its record is in it, and
  the attempt is concluded when all of it has arrived; only giving the attempt up
  forgets records, and only those that have not arrived. `RunnerSlot` implements it:
  the log is what the control plane stored followed by the frames of the journal's
  segments beyond that, and an attempt is given up when its slot is released as
  an orphan.
* `MCAttemptLease`, `MCControlPlane`, `MCLeasePoll`, `MCLogicalWorkflow`,
  `MCResultPublication`, `MCRunnerSlot` - instances for TLC.

`AttemptLease` and `LeasePoll` are two views of the same rows. The first takes a
claim, an offer and a command as single steps and is about who holds a lease
over time; the second is about the steps between a lease request and its answer,
and reduces a lease to whether it is recorded and whether its first expiry has
passed.

The handler of a lease request is a sequence of transactions; `calls[i].stage`
names the next one:

    begin -> prePoll -> poll -> claim -> inspect -> publish -> postPoll -> validate -> complete -> resolve -> reply

`begin` goes straight to `resolve` when the request has a receipt, a command found
at `prePoll` or `postPoll` is resolved once more (`preCheck`, `postCheck`) and
takes the place of the offer, and every stage may end in `unavailable` or
`corrupt` (a 5xx, which the runner retries) or `conflict` (a 409, which it does
not). A command acknowledgement is `ack -> sync`, any other message
`preSync -> sync`; both answer with the oldest pending command if there is one.

A claim of `LogicalWorkflow` is named by a pair: `prep` and `act` for the
preparation and activation of a job, `mat` and `ires` for the materialization of an
instance and the projection of its result, `jres` for a job's result, `rres` for
the run's. All six follow one scheme: take the row when it is unclaimed or its
claim has expired, adding one to its generation; work outside any transaction;
commit if the generation is still one's own, the claim is live and the graph is
active. The commit of an instance result is three steps, because a trigger
locks the job row and then decides from what it can see whether the job is due.

A result worker performs one request per claim; `cont.state` names the next one:

    suite -> create -> read -> (start | complete) -> published
                 \-> reconcile -> read or create      (answer lost)

The slot loop of `RunnerSlot` goes through the stages of `proc.stage`:

    hello -> run -> commit -> recording -> backlog -> close -> drain -> cleanup -> deliver -> idle
         \-> orphan -> hello                          (any of these) -> contained -> hello

`run` is the executor (`exec` says how far it is, `signal` why it is to stop);
`commit` and `recording` persist and record the result; `backlog`, `close` and `drain`
deliver the log before and after its end is emitted; `cleanup` destroys the sandbox;
`deliver` posts the result and releases the slot. A slot whose lease has run out by the
runner's clock is `contained`: its heartbeat is stopped, nothing more is sent for it, and
`contain_expired_slot` waits to be cancelled. Only another slot that finds the session closed
(`SiblingEndsSession`) or a restart of the process ends that; a runner with one slot
stays contained until it is restarted. `hello` is also the process after a crash or an error that the supervisor returns,
which a service manager starts again. Three more activities run beside the loop. An
emission (`emit.at`) is `loading -> loaded -> persisted -> adopted`, or `full` when the
open segment is to be sealed first, or `waiting` at the backlog limit. A delivery
(`flush.at`) is `sent -> acking -> removing`, or ends `refused` or `stale`. And when the
future that drives a delivery is dropped, the blocking task it has started goes on
(`late`), possibly under the next activity of the slot; a second one dropped while it waits
acknowledges the same head, so one task stands for both. The execution of a log batch at the server is
`called -> fresh -> admitted`: the look for a receipt, the admission and the commit
are transactions of their own.

### State and its rows

| Variable | Row or column |
| --- | --- |
| `epoch`, `online`, `desired` | `runners.session_epoch`, `.status`, `.desired_state` |
| `live`, `heartbeat` | `runner_sessions` without `disconnected_at_ms`; `heartbeat_at_ms` |
| `lifecycle`, `token`, `lease`, `failures`, `changedAt` | columns of `job_attempts` |
| `intent`, `cancels` | `attempt_cancellation_intents`; the `CancelJob` commands of the outbox |
| `terminal` | `terminal_authority` of `attempt_terminal_results` |
| `claims`, `offers` | lease-request claims not yet published; `runner_lease_offer_publications` |
| `renewals` | what `authorize_lease_renewal` returned to a handler that has not called `commit_lease_heartbeat` yet |
| `status`, `updatedAt`, `running` | `workflow_runs.status`, `.updated_at_ms`; `concurrency_groups.running_run_id` |
| `pending` | `queue_sequence` of the run's row in `concurrency_group_pending_runs`, 0 without one |
| `head`, `claim`, `receipt` (`LeasePoll`) | `runner_lease_request_heads`; `runner_operation_receipts` and `runner_rpc_receipts` of the head's operation |
| `outbox`, `acked` | `runner_command_outbox` with `runner_lease_offer_publications`; `runner_sessions.acknowledged_command_sequence` |
| `leases`, `live`, `overdue`, `concluded` | the request each lease was granted to; leases on an active attempt; past their first expiry; with a runner's result |
| `jop`, `jcursor`, `jslot`, `ignored` | the runner's journal: poll checkpoints, command cursor, slot records, commands with the disposition `Ignored(SlotUnavailable)` |
| `phase`, `reply`, `sent`, `flusher` | the slot loops, the answer in hand, `command_ack_receipt` and who holds its lock |
| `calls` | the handler executions, those the runner has given up included (`heard`) |
| `plan` (`ControlPlane`) | membership of the group, `job_attempts.run_id`, `job_dependencies` |
| `job`, `carried`, `publication`, `result`, `run`, `conclusion` (`LogicalWorkflow`) | `logical_workflow_jobs`, `..._publications`, `..._job_results` with the effective view; run, marker and root invocation; `..._run_results` |
| `attempt`, `concrete`, `claim`, `idue`, `jdue`, `quarantined` | the instance's attempt and concrete job; the claim tables; the due tables; the quarantine tables |
| `hold`, `locked` | what a worker has in hand; the row lock a commit holds between its steps |
| `delivery`, `deliverer` (`ProviderDelivery`) | `provider_processing_invocations`; the processing a worker has in hand |
| `version`, `phase`, `saved`, `projector` | `workflow_runs.updated_at_ms`, `.status`; the result subject and desired result; the observation a projection service has in hand |
| `outbox`, `publisher`, `flying`, `checks` (`ResultPublication`) | the rest of `provider_result_outbox`; the claim a result worker has in hand; abandoned requests; the Check Runs of a subject |
| `slot` (`RunnerSlot`) | the slot's record in the journal: lifecycle, provider operation, sandbox handle, cancellation, log cursor with its segments, result, orphan authority and abandoned deliveries |
| `spool`, `engine` | the objects of the spool; whether the sandbox exists at the provider |
| `proc`, `emit`, `flush`, `late` | the runner process: slot loop and executor; the emission and the delivery under way; a blocking task without its caller |
| `server`, `calls` | segments and receipts of the attempt's log, its terminal result, lease and session; executions of log batches |
| `tally` | bounds, and as a ghost the records that the executor was told are durable |
| `tied` (`ProviderDelivery`) | ghost: the run's last change of status left `updated_at_ms` as it was |
| `spare`, `late` (`ResultPublication`) | ghosts: how often a publication could create again without knowing the fate of an earlier create; a lost claim's request after the current claim's last look |
| `held` | ghost: until when a runner may act on a lease, from the offers and renewals answered to it |

### Abstractions

* A lease id is as fresh as a fencing token, so the pair is the token. A session
  is its runner and epoch; the runner generation is constant.
* Labels, groups, capabilities, tenants and the JobIR version are abstracted:
  any runner may claim any attempt, which includes whatever the real matching
  picks. Receipts, payloads, encryption and digests are left out.
* The clock is a counter. `clock_timestamp()` is `now`; a time supplied by a
  caller is any reading within `MaxSkew`. Where the code rebases the caller's
  time on the database's (claims, renewals, results, reaps) the model uses `now`;
  where it stores the caller's time (cancellation, preemption, blocked
  attempts, admission) the model does too.
* The runtime authority of a job may cap a renewal below the configured
  duration; the cap is a nondeterministic shorter duration.
* `Tick` forgets beliefs that have run out and heartbeats whose own expiry has
  passed, which `commit_database_issued_lease_renewal` refuses in any case.
* In `AttemptLease` alone any queued attempt may be skipped and any set of
  attempts may be displaced by an admission; `ControlPlane` restricts both to what
  the run, its dependencies and its group allow. What is proved of the former
  therefore does not depend on the latter.
* `LeasePoll` has one session that stays current. Operation ids are numbers: the
  n-th request of a slot acknowledges the one before it. Payloads are the
  command's sequence number; an acknowledged command's payload is erased, which
  `Resolution` derives from `acked`. Digests, encryption and authority
  contributions are left out, so a reused operation id with another payload does
  not occur. A heartbeat stands for every message of a running slot, whose
  handlers share `handle_sync_inner`.
* Only the latest attempt of a job exists. `LogicalWorkflow` replaces the graph's
  work at a rerun and keeps the carried results.
* In `LogicalWorkflow` the attempt of an instance is reduced to its conclusion
  after continue-on-error: how it gets there is the other modules' subject.
  Digests, outputs, conditions and matrices are data: whether a publication
  matches anything is a choice. An attempt that a runner called invalid has no
  terminal row, so its instance is never projected (`attempt = "invalid"`).
* A version is a reading of `updated_at`. A change of status writes a later one or the
  same one: `cancel_run` takes the later of the caller's time and the run's, and
  `reconcile_run_in_transaction` accepts an equal time. All workflows of an event are selected
  and accepted; the others get a completed result at once and take no further
  part. A run that is admitted before its first projection may already have moved
  on, hence `version` 1 or 2 at admission.
* A subject's claim is identified by its owner: a result worker has one claim at
  a time and supersession leaves none. A request that nobody waits for takes
  effect (that is, becomes visible to a look for it) at any later time or never, at
  most one per worker at a time. A PATCH assigns the state it names, whatever the
  state of the Check Run. `not_before` of a reconciliation is counted from the time of
  the claim that created, and a credential is acquired in between, so it says
  nothing certain of the create: whether a claim is too early (`Postpone`) is a choice,
  and the look may come before the create takes effect.
* In `RunnerSlot` a log record is the number of its emission and a spool object the
  sequence of its records, so equal content is equal records, which is what a content
  address says. Sizes are frame counts: a segment takes `SegmentCap` frames, and the
  backlog limit in bytes is abstracted to a choice to wait. The executor is reduced
  to creating or recovering its sandbox, reporting that the job runs, emitting
  records at any time and ending at any time. `lease` is `live`, `due` (over by the
  runner's clock, which counts less than the lease) or `expired` (by the server's).
  An expired authority of the job stops the executor as a cancellation does.

### Bounds

In `AttemptLease`, `MaxTime`, `MaxToken`, `MaxEpoch`, `MaxRenewals` and `MaxSkew` are the
only bounds; each is a named constant in a guard. A lease of two ticks
within four lets a claim be renewed, expire, be reaped and be claimed again;
two tokens are the least that tell a stale credential from a current one; two
epochs the least for a superseded session; two renewals in flight the least
that can commit out of order. No instance small enough to finish has all of these with
two attempts and every transaction, so two runs divide them. `exclusive` has two attempts,
two runners and two tokens, starts where both runners have connected (`ReadyInit`) and takes
the transactions that lead to a second lease of an attempt (`LeaseNext`), with two renewals
in flight or one beside a replaced session (`LeaseBound`); `recovery` has one attempt, two tokens, clock
skew and every transaction. The proofs hold for every value of all of them.
In `LeasePoll`, `MaxOp`, `MaxLease`, `MaxCalls`, `MaxTimeouts`, `MaxDrops`,
`MaxRestarts` and `MaxExpired` bound requests per slot, leases, executions of a
slot at one time, and faults of each kind. Two requests and two leases let an
offer of the first meet the second; two executions are the least that race; one
fault of a kind suffices for each of the violations below, and the passing runs
combine several. In `LogicalWorkflow`, `MaxRounds` bounds the attempts of a run and
`MaxFaults` all faults, renewals and reruns together; the plans are a job with two
instances and a dependent, and a dependent of a reusable call: the least with two
commits that complete a job together, and with an invocation inside another. In
`ResultPublication` a behaviour starts from one of `Setups`: an event with two
workflows and two processing workers (the least in which a replay meets work half
done), a run with two projection services, and a run with two result workers.
`MaxVersion` 3 lets a result be superseded twice, `MaxPublications` 5 covers the
longest path to a publication with a lost answer in it, `MaxProcessings` 3,
`MaxFaults` 1, and `MaxChecks` is above what the others allow. In `RunnerSlot`, two
records and the end of the stream with two frames to a segment and two segments let
a tail be extended, sealed, delivered and overtaken, and let the emitter wait; two
executions of a batch are the least that race; `MaxFaults` 1 is a crash, timeout,
refused cancellation or heartbeat, or provider failure at any one step; lease
expiry, the end of the session and a cancellation come on top. The safety properties
were also checked with two faults and with three records. Because time and tokens are bounded the runs end in states without a successor,
so they do not check deadlock; that nothing waits for ever is what the liveness
properties check.

## Runs

| Run | Instance | Shows |
| --- | --- | --- |
| `exclusive` | 2 attempts, 2 runners with a slot each, 2 tokens, a replaced session or 2 renewals in flight | `ExclusiveExecution` and its inductive form `FencingInv`: an attempt that was reaped and leased again, to the other runner or under a new session, is not executed twice at a time, and no slot executes two |
| `recovery` | 1 attempt, 1 runner, 2 epochs, skew 1, every report | `RowsWellFormed` (with `TypeOK`), `SessionCurrency`, `CancellationSticks`, `TerminalEvidence`, `NeverRestarted`, `OrphanFrozen`; refinement: `ImplementsExclusiveWork`; liveness: `OrphanReclaimed` |
| `runs` | 3 runs of one job in one group under every policy, or 1 run of 3 jobs the third of which needs both others | `GroupExclusive`, `SlotAccounting`, `RunAccounting`, `DependenciesFirst`, `FairQueue`; liveness: `BlockedConcludes` |
| `requests` | 1 slot, 2 requests, 2 executions at once, a timeout, a dropped execution, a restart, an expiry | `OneLeasePerRequest`, `AnswersAgree`, `RefusedAfterExpiry`, `JournalAgrees` |
| `answered` | 2 slots, a dropped execution | liveness: `PollAnswered`, also when commands travel on the other slot's exchanges |
| `workflow` | 2 workers, a matrix with a dependent or a call with a dependent, 2 rounds, 2 faults | `ExclusiveCustody`, `OneConcreteJob`, `ActivatedAfterNeeds`, `ResultsComplete`, `CallsCoverCallees`, `PreemptedStays`, `DueExact`; liveness: `RunConcludes` |
| `results` | the three setups above, 1 fault | `ConclusionsEarned`, `ShownUnlessOvertaken`, `ChecksAccounted`; liveness: `ResultSettles` |
| `slot` | 1 slot, 2 records, 2 executions of a batch, 1 fault | `SlotRecoverable`, `LogIntact`, `ResultLast`, `ReleasedClean`, `RefusalsExplained`; refinement: `ImplementsDurableLog`; liveness: `SlotSettles` |
| `command_gap` | 1 slot | a violation, below |
| `carried_prerequisite` | a chain of two jobs, 1 worker | a violation, below |
| `replayed_delivery` | 2 workflows, 2 processing workers, no fault | a violation, below |
| `equal_times` | 1 run, 2 projection services, no fault | a violation, below |

`Symmetry` permutes attempts and runners, `SlotSymmetry` slots, which no
definition distinguishes; they are used only in runs without liveness properties.

### What the code does differently from what it declares

`command_gap`: the replay of commands leaves out offers that ran out before they
were delivered, and `handler.rs` says that a retry will "exclude the marker and
continue". The runner records commands only in an unbroken sequence. Once such
an offer has been left out, every later command of the session waits in
`await_command_turn` for ever, or until the session is replaced.

`carried_prerequisite`: a rerun copies the dependencies of its jobs, those on
carried jobs included, and gives carried jobs no row in
`logical_workflow_job_results`. Selection and preparation of a job use the effective
view, as `docs/workflow-reruns.md` says all readiness does;
`automata_refresh_logical_workflow_job_result_due` joins the table itself, so the
result of a job that needs a carried one never becomes due, and the run waits. The
`claim_next` query of the projector reads the due table only. `DueExact` and
`RunConcludes` state what holds for all other jobs.

`replayed_delivery`: `renew_processing` extends a claim and leaves `attempts` alone;
the table's trigger takes every claimed-to-claimed update for a new claim and
refuses it, so a processing still running after a third of its lease is
dropped and begins again when the claim has run out. The second processing
replays its admissions, then projects a subject whose digest contains the
attempt number; `save_desired` answers a conflict and the invocation fails for
good. Workflows after the first are not admitted, although `apply` "Selects every
configured workflow and admits each accepted plan." `ConclusionsEarned` states what
remains: it never completes with a workflow left out, and fails only for this
reason.

`equal_times`: a run is cancelled, by an admission that preempts it, at the later of the
caller's time and the run's `updated_at`. When the caller's clock is not past that,
`updated_at_ms` stays as it was. `next_workflow_result` selects subjects whose
run has a later one, and `save_desired` refuses an equal one with another status; so a
cancellation after a projection of the change before it is never projected. The
comment of `reconcile_next` has observations "converge through monotonic, idempotent
desired-result reconciliation". `ResultSettles` states what holds of every other
change.

Model checking showed more that is not the subject of a run. Commands belong to the session and polls to a
slot, so the oldest command may be an offer for another slot than the one whose poll
finds it. `docs/runtime-authority-delivery.md:98` and `LeasePollResponse::validate_for` allow
it; `complete_lease_request` compares the offer's request with its own and refuses
it as corrupt data. The poll is retried until the offer's own slot has acknowledged
it or the lease has run out, so safety is kept and the poll is answered (`answered`).

A subject may get a second Check Run. In the state `SuiteBound` the adapter creates
without looking; the state is what the row holds until the claim is settled, so when a
worker stops or loses its claim around the create, its successor creates again.
A supersession before the Check Run is bound does the same by starting over, and so
does a reconciliation that looks before the create has taken effect.
`docs/maintainers/roadmaps/provider-platform-and-forgejo.md:355` asks of every adapter that
a retry "first lists or reads provider state". `ChecksAccounted` states what remains: no more Check
Runs than one and these occasions, so a timeout that the claim itself has seen,
however often it is retried, adds none by itself.

When two executions of one
lease request hold the claim and the lease runs out, one of them looks the claim up
again and records a rejection, and the other, which the runner is waiting for, is
refused with a conflict at its inspection; the runner does not retry a 409, and its
session ends with an error. While the lease of a request is good no retry of it is
ever refused (`RefusedAfterExpiry`). A claim compares its operation with the head of the slot
and not with the receipt, so an execution that the runner timed out, of a request that was
meanwhile answered with a cancellation, may still be granted a lease. Its offer may
find the slot not released yet after the end of its job, or arrive on another slot's
exchange; the journal records it as ignored and the attempt waits for the lease to run
out. The proof of `JournalAgrees` found this: a delivered offer is in its slot *or was
ignored*, and the lease it names is never live beside another one in that slot.
In the same way a log batch that is sent again
while its first execution is still under way may be answered 409 although it is
stored, because the replay check compares the time of storage; the refusal ends the
runner process, which finds the receipt after its restart (`RefusalsExplained`,
`LogIntact`). A runner that stops between the provider's create and its journal
record, and is cancelled before it resumes the job, has a create that nobody can
resolve: `require_create_cleanup_custody` then ends the process at every start, so
the sandbox is never forgotten and the slot never released (`LostCustody` in
`SlotSettles`). A slot whose lease ran out waits for a cancellation that only another slot
or the end of the process brings, so a runner with one slot takes no further work until
it is restarted (`contained` in `SlotSettles`). A cancellation that arrives between `Finalizing` and the recorded
result is refused by the journal and ends the process too. A PATCH of a superseded claim may
take a Check Run back after its successor was recorded as published
(`ShownUnlessOvertaken`). The refusal of a Check Run other than the bound one, in
`recover_state` and `published`, is never met: a claim's state always names the Check Run
its row is bound to (`RowInv` and `ClaimInv` of the proofs). Of two projection services that save in the other order
the later one ends with an inconsistency and with it its server; another must
be left, or the server restarted, for results to converge (`ResultSettles`). An
invocation at its sixteenth claim is neither claimed again nor concluded. A
preemption of a run with a published reusable call is refused as corrupt data,
because two invocation rows are updated where one is expected. And
`transition_cancelled_attempt` writes `cancelling` over `finalizing`, an edge that the
state machine of `lifecycle.rs` does not have; the next heartbeat moves the
attempt forward again and no property here depends on it.

It also showed that a runner may report `cancelling` on its own and be
cancelled afterwards by a caller whose clock is ahead: its result then
leaves the intent unacknowledged, since `close_cancellation_from_result`
compares the request time with the decision time. `TerminalEvidence` states
exactly what remains true.

## Fairness

`Fairness` is weak fairness of the clock and of the reaper for each attempt:
`maintain_control_plane` runs periodically for as long as the server does and
works through every expired attempt. `CPFairness` adds the pass that skips
blocked attempts (`propagate_blocked_attempts`), which the same loop runs. No
runner, operator or caller is assumed to do anything there.

`PollSpec` is weak fairness of each handler execution (an async task that the
server polls until it ends), of the delivery of answers that are waited for, and
of the runner's slot loops: sending polls and acknowledgements, retrying
(`exchange_exact` loops without a limit) and applying what arrived. Timeouts,
dropped executions, restarts, expiry, the end of a job and cancellations are
never required.

`CPFairness`, `LWFairness` and `ResultFairness` are single `WF` formulas over the union
of the steps the servers' loops keep taking (`run` of each worker polls until
shutdown): reaping and skipping; every worker step that is not a fault, the
steps of calls, the expiry of claims nobody works on and the end of attempts;
projection, publication, the expiry of lost claims and the end of abandoned
requests. Faults, cancellations, preemptions, reruns, changes of a run and the
processing of deliveries are never required. Each of those loops can take only finitely many
steps without new input (generations and attempts are bounded), so the union is
not weaker here than fairness of each step.

`RunnerSlot` has weak fairness of each of its tasks: the slot loop, the executor
(which ends), the emitter and the deliverer, the blocking task without a caller, the
server's executions, and the heartbeat, where one runs, that finds a closed session; a
contained slot has none and nothing is assumed to end its wait. The process is
started again after it ended. Strong fairness is assumed of `NoticeExpiry` alone: the
watchdog compares the clock at every start of a maintained stage, so a process that
is restarted again and again cannot keep missing an expiry. Crashes, timeouts,
provider failures, refused heartbeats and cancellations, the end of the lease and of
the session are never required, and `SlotSettles` does not need them: without them
the slot is released after its result was acknowledged.

## Proofs

`AttemptLeaseProofs` proves, from `LeaseAssumption` alone and for every value of
the constants:

| Theorem | States |
| --- | --- |
| `TypeCorrect` | `Spec => []TypeOK` |
| `Fencing` | `Spec => [](TypeOK /\ FencingInv)` |
| `Exclusive` | `Spec => []ExclusiveExecution` |
| `WellFormed` | `Spec => []RowsWellFormed` |
| `OneSession` | `Spec => []SessionCurrency` |
| `Cancellation` | `Spec => []CancellationSticks` |
| `NoRestart` | `Spec => NeverRestarted` |
| `OrphansRunOut` | `Spec => OrphanFrozen` |
| `Evidence` | `Spec => []TerminalEvidence` |

`ExclusiveExecution` is not inductive: it says nothing of the row behind a belief,
so a claim of an attempt that somebody still believes in would not contradict
it. `FencingInv` adds what the code maintains instead. Leased rows are exactly the
rows with a lease, no two of them share a slot of a runner, and every
unexpired belief is backed by the row of its attempt: same token, runner and
slot, and an expiry not before the one the runner was told. Then a claim finds a
row without a lease, hence without believers; a reap finds an expiry that has
passed, hence no unexpired belief; and a heartbeat commit may only move the
expiry forward, which is the guard `RefreshesCeiling` and its companion keep.
`TypeOK` needs `LeasedRows` (a cancellation addresses the runner of the lease), so
the two are proved together. `TerminalEvidence` needs `Deliveries`: a command is
stored once per attempt and only with its intent. `LeaseSteps` and
`LifecycleSteps` list, once, the transactions that may touch a lease and the
ways a lifecycle may move, for the theorems that need no more.

`ExclusiveWorkProofs` proves the refinement:

| Theorem | States |
| --- | --- |
| `Refinement` | `Spec => ImplementsExclusiveWork` |

Every step of `AttemptLease` is a step of `ExclusiveWork` or a stutter under the mapping. It
rests on `TypeOK`, `FencingInv` and `BeliefsCurrent` (no step leaves a belief that has run
out): a claim, whose abstract counterpart needs that nobody executes the work, finds
no believer by `FencingInv`; a transaction that ends or moves a lease removes the
belief in the same step or after its time.

`ControlPlaneProofs`, from `LeaseAssumption` and `RunAssumption`:

| Theorem | States |
| --- | --- |
| `LeasesKept` | `CPSpec => Init /\ [][Next]_vars`: what is proved of the leases holds in the composition |
| `GroupsExclusive`, `SlotsAccounted` | `[]GroupExclusive`, `[]SlotAccounting` |
| `RunsAccounted`, `DependenciesKept` | `[]RunAccounting`, `[]DependenciesFirst` |
| `QueueFair` | `FairQueue` |

`CPInv` is `LeaseInv`, `RunInv` and `GroupInv`. `LeasesKept` needs that `updated_at` never
exceeds the clock by more than the skew (`RunTimes`): a displacement cancels attempts at
the later of the caller's time and `updated_at`, which must be a time the lease
protocol accepts. A transaction touches one attempt, or the
attempts of one run; all others keep their contribution to the status of their runs
(`Moves`, `Unnoticed`). The vacant slot is the heart of `SlotAccounting`: each
transaction that can close the running run ends with the promotion of the least
queue sequence, which exists by `LeastNatural`.

`LogicalWorkflowProofs`, from `GraphAssumption`:

| Theorem | States |
| --- | --- |
| `CustodyExclusive`, `ConcreteJobsUnique` | `[]ExclusiveCustody`, `[]OneConcreteJob` |
| `NeedsBeforeWork`, `ResultsHonest`, `CallsCovered` | `[]ActivatedAfterNeeds`, `[]ResultsComplete`, `[]CallsCoverCallees` |
| `DueRowsExact` | `[]DueExact` |
| `PreemptionFinal` | `PreemptedStays` |

`LWInv` is `LWTypeOK`, `Custody` and `Evidence`. `Custody` compares what a worker knows of
a claim's generation with the row: nobody knows a later one, and two workers never
know the same. That alone gives `ExclusiveCustody`, also with renewals whose answer was
lost. `Evidence` is about the graph: a job that does not exist yet has no
rows (`Reach`), carried jobs keep their results, work is in the order preparation,
activation, materialization, results (`Ordered`), a result is recorded only over
final instances or callees (`Recorded`), and a concluded run over all results.
`CallsCovered` needs the outermost call with a result above a job without one, which the depth of
invocations provides. `DueExact` is proved in the form `Due`: while the run is active the due
rows are exactly the jobs whose evidence is complete. A commit of an instance result
counts while it holds the lock of the job row (`Locks`), so its count stays right
until it ends (`Counts`), and the one that commits last sees every other commit.

`LeasePollProofs`, from `PollAssumption`:

| Theorem | States |
| --- | --- |
| `OneLease`, `AnswersAlike` | `[]OneLeasePerRequest`, `[]AnswersAgree` |
| `RefusalsExpired` | `[]RefusedAfterExpiry` |
| `JournalKept` | `[]JournalAgrees` |

`PollInv` says what each stage of an execution may have in hand. `Exchanges`: at most one
exchange of a slot is waited for, and it is of the journal's operation. `Grants`: a lease is
of a request at most as new as the head, the claim of a head is the only lease of
its request, and leases of one slot are never live together. `Outcomes`: what an execution carries is the claim or the
receipt of its request, or its request is no longer the head, or the lease is no
longer current. Each of the handler's transactions is
one of eleven kinds of move (`Edge`), and the invariant is proved once per kind
and conjunct. The bound on the outbox, which `JournalAgrees` states, follows by counting: an
offer per lease and a cancellation per lease.

`ResultPublicationProofs`, from `DeliveryAssumption` and `PublicationAssumption`:

| Theorem | States |
| --- | --- |
| `Earned` | `ResultSpec => []ConclusionsEarned` |
| `ResultsShown` | `[]ShownUnlessOvertaken` |
| `ChecksBounded` | `[]ChecksAccounted` |

`DeliveryInv` says that an attempt belongs to one worker, that a subject keeps the attempt that
created it, and that a claim once lost is never current again; so a conflict can only
come from a subject of an earlier attempt. `PublicationInv` adds the outbox. Three arguments carry
it. Phases only advance, in the run, in what services have observed, in what is
saved and in every request (`PhasesInOrder`, `Reached`), so no Check Run is ahead of the
desired result (`ChecksBehind`) and the holder's last look decides what is shown.
What a worker has in hand concerns the row only while the claim is its own
(`Holds`), and what it then has agrees with the row (`ClaimInv`, `OutcomeInv`). And creates are
counted before they happen: those performed, those in the air, those in the hands of
workers that lost their claim, and the one the row may still lead to are at
most one and the occasions of `spare` (`CreatesBounded`); `ChecksAccounted` is the first
term. A reconciliation may still lead to a create only if no Check Run exists and none
is in the air (`MayCreate`): then it starts where the lost create had been counted. One that looks
while a create is in the air adds to `spare` what it adds to the count (`HastyCreates`).

`RunnerSlotProofs`, from `RunnerSlotAssumption`:

| Theorem | States |
| --- | --- |
| `SlotsRecoverable` | `Spec => []SlotRecoverable` |
| `ReleasesClean` | `[]ReleasedClean` |
| `LogsIntact` | `[]LogIntact` |
| `ResultsLast` | `[]ResultLast` |
| `RefusalsAreExplained` | `[]RefusalsExplained` |

None of the five is inductive. `SlotInvariant` relates the journal's record to what each
task has in hand, in layers that are proved one on top of the other:

* `Rows`, `Custody`, `Progress` and `Tasks` (together `Conduct`): while the sandbox exists the
  journal has its handle or a pending create; a stage of the slot loop tells the
  lifecycle, and an emission or a delivery tells the stage. `ReleasedClean` follows.
* `Gate`, `Content`, `Emission`, `SegmentRows`: an emission between its persist and its adoption,
  a removal and the recording of the result exclude each other, because they hold the
  content gate; so no removal takes an object that is about to be adopted, and a
  candidate still extends the tail it has loaded. `SlotRecoverable` follows.
* `Stored`: the control plane has exactly what the journal saw acknowledged, or that and
  the head segment, which is then sealed and has a receipt. `LogRows` says that `Log`, which is
  what is stored with the frames of the segments not stored, is in the order of
  emission, has what was reported durable, and is closed when the journal says so.
* `Deliveries`: a batch that the runner sends, or that any execution still has in hand,
  is the head or was acknowledged and has a receipt. That is why an execution that
  comes late, from before a crash or beside its retry, stores nothing twice, and why the
  refusal of a batch that is not a replay means that the attempt has ended.
* `Concluded`: once the result is posted, backlog and sandbox are gone for good.

The last two are not about one task: a step of one execution must keep `Batch` of every other one.
`BacklogChange` lists the five things a step can do to the backlog (nothing, seal, adopt, drop the
head, let go) and `Delivers` the four it can do to a delivery, so each conjunct is
proved per kind of change and not per action. The frames of a sequence of segments
are a fold (`FlattenSeq`); that appending, replacing the last and dropping the first
segment do to the frames what they should is proved from the least
length at which it would fail (`LeastNumber`), since the induction theorems of the library cannot be used.

`DurableLogProofs` proves the refinement:

| Theorem | States |
| --- | --- |
| `LogRefinement` | `Spec => ImplementsDurableLog` |

The mapped log is `Log` as long as the attempt is not given up (`Seen`). An adoption then is `Extend`: the
record is greater than all of `Log`, which is not closed (`LogRows`, `Emission`). The commit of an
execution is `Arrive`, since its batch is the head (`Deliveries`, `Stored`). Sealing, an
acknowledgement, a removal, a crash and a recovery leave `Log` as it is. The result
is accepted only after it was posted, hence with `Log` stored to its end
(`Concluded`).

### Assumptions of the proofs

They are about constants, are evaluated by TLC in every run, and say what the
database or the callers guarantee:

* `LeaseAssumption` - durations and bounds are natural numbers, the lease positive
  and a NULL is no row.
* `RunAssumption` - an attempt belongs to one run, and `job_dependencies` relates jobs of one
  run (its foreign keys contain the run).
* `GraphAssumption` - a planned job belongs to one invocation and the invocations have
  a depth (a child is planned under its parent); a dependency names one invocation
  for both its jobs (`0026_baseline_foreign_keys.sql:967-971`); only jobs with steps, which
  are not calls, have instances.
* `PollAssumption` - bounds are natural numbers, and `NoSlot` is not a slot.
* `DeliveryAssumption` - the workflows of an event are handled in one order, the order
  in which `apply` goes through its selection; the workers named by a setup exist.
* `PublicationAssumption` - workers are finitely many, and attempt and request limits positive.
* `RunnerSlotAssumption` - bounds are natural numbers, a segment takes at least one frame
  and the backlog at least one segment, and the executions are numbered from 1.

No assumption limits the number of attempts, runners, jobs, workers, requests or faults.

### Only model-checked

* The liveness properties `OrphanReclaimed`, `BlockedConcludes`, `PollAnswered`, `RunConcludes`,
  `ResultSettles` and `SlotSettles`: the prover does not handle fairness and `ENABLED`.
* That the four properties of the violation runs fail: TLC shows it with a behaviour.

Every invariant, action property and refinement of a passing run is proved.

## Plan

1. Done: `AttemptLease` with the abstract `ExclusiveWork`, `ControlPlane`, `LeasePoll`,
   `LogicalWorkflow`, `ProviderDelivery`, `ResultPublication`, and `RunnerSlot` with the abstract
   `DurableLog`; their runs; the proofs of all their safety properties and of both
   refinements.
2. `CommandStream`: the outbox as an abstract ordered stream of commands, each
   recorded at most once and in order, shown to be implemented by `LeasePoll`.
3. Schedule evaluation: the claim of a due schedule and its admission.

## Not modelled

See `PROJECT.json`. The workflow frontend, compiler and expression language are pure
functions over text; sandbox engines, the execution of steps, blobs, TLS and
authentication are I/O against external engines or cryptography; the web application
reads. Of the runner, endpoint operations, the delivery of runtime authority, an
exhausted or poisoned spool, a second cleanup that overlaps an aborted one, and
graceful shutdown (a stop at a boundary of the executor) are left out. The
`AttemptStore` port of `lib.rs` (`acquire_lease`, `transition`,
`requeue_expired`, ...) is exercised by tests only and is superseded by the
transactions of `g1.rs`.

## Running

    tlc -config Exclusive.cfg MCAttemptLease          # also Recovery
    tlc -config Runs.cfg MCControlPlane
    tlc -config Requests.cfg MCLeasePoll              # also Answered, CommandGap
    tlc -config Workflow.cfg MCLogicalWorkflow        # also CarriedPrerequisite
    tlc -config Results.cfg MCResultPublication       # also ReplayedDelivery, EqualTimes
    tlc -config RunnerSlot.cfg MCRunnerSlot
    tlapm AttemptLeaseProofs.tla                      # likewise the other modules of proofs
