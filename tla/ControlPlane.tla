---------------------------- MODULE ControlPlane ----------------------------
(***************************************************************************)
(* The lease protocol of AttemptLease together with the rows the same      *)
(* transactions keep for workflow runs: the status of each run, the job    *)
(* dependencies of a run, and one workflow concurrency group with its      *)
(* running run and its queue of pending runs.                              *)
(*                                                                         *)
(* Every transaction that takes the concurrency lock of an attempt is the  *)
(* AttemptLease action conjoined with the run-level guard it evaluates and *)
(* with the reconciliation of the attempt's run that ends it.  The group's *)
(* generation counter, which no transaction reads, is left out.            *)
(***************************************************************************)
EXTENDS AttemptLease

CONSTANTS
    Runs,        \* workflow runs that may be admitted
    NoRun,       \* a NULL running_run_id
    Plans,       \* the compiled workflows the runs may have
    Policies,    \* the concurrency policies a run may carry
    MaxPending   \* MAX_PENDING_RUNS_PER_CONCURRENCY_GROUP

ASSUME RunAssumption ==
    /\ NoRun \notin Runs
    /\ \A p \in Plans :
          /\ p.group \subseteq Runs  \* the runs whose workflow names the concurrency group
          /\ p.runOf \in [Attempts -> Runs]  \* the run of each attempt
          /\ p.needs \in [Attempts -> SUBSET Attempts]  \* job_dependencies
          /\ \A a \in Attempts : \A b \in p.needs[a] : p.runOf[b] = p.runOf[a]
    /\ Policies \subseteq [single : BOOLEAN, cancelInProgress : BOOLEAN]
    /\ MaxPending \in Nat

VARIABLES
    plan,       \* what the runs were compiled to
    status,     \* workflow_runs.status; "Absent" before admission
    updatedAt,  \* workflow_runs.updated_at_ms
    running,    \* concurrency_groups.running_run_id
    pending     \* queue_sequence of the run's concurrency_group_pending_runs row, 0 for no row

runVars == <<plan, status, updatedAt, running, pending>>
allVars == <<vars, runVars>>

RunOf(a) == plan.runOf[a]
Jobs(run) == {a \in Attempts : RunOf(a) = run}
Prerequisites(a) == plan.needs[a]
GroupRuns == plan.group

Statuses == {"Absent", "Queued", "InProgress", "Completed", "Cancelled"}

\* status IN ('queued', 'in_progress')
Open(run) == status[run] \in {"Queued", "InProgress"}

CPInit ==
    /\ Init
    /\ plan \in Plans
    /\ status = [run \in Runs |-> "Absent"]
    /\ updatedAt = [run \in Runs |-> 0]
    /\ running = NoRun
    /\ pending = [run \in Runs |-> 0]

-----------------------------------------------------------------------------
(* reconcile_run_in_transaction                                            *)

\* Mutant: the attempts are aggregated before the transaction's own change.
DesiredStatusStale(run) ==
    CASE status[run] = "Cancelled" -> "Cancelled"
      [] status[run] # "Cancelled" /\ \A a \in Jobs(run) : lifecycle[a] \in Terminal -> "Completed"
      [] status[run] = "Queued" /\ (\E a \in Jobs(run) : lifecycle[a] \notin Terminal)
                                /\ (\E a \in Jobs(run) : lifecycle[a] # "Queued") -> "InProgress"
      [] OTHER -> status[run]

DesiredStatus(run) ==
    CASE status[run] = "Cancelled" -> "Cancelled"
      [] status[run] # "Cancelled" /\ \A a \in Jobs(run) : lifecycle'[a] \in Terminal -> "Completed"
      [] status[run] = "Queued" /\ (\E a \in Jobs(run) : lifecycle'[a] \notin Terminal)
                                /\ (\E a \in Jobs(run) : lifecycle'[a] # "Queued") -> "InProgress"
      [] OTHER -> status[run]

\* The rows of concurrency_group_pending_runs.
Queue == {run \in Runs : pending[run] > 0}

\* ORDER BY queue_sequence LIMIT 1
Oldest(rows) == CHOOSE p \in rows : \A q \in rows : pending[p] <= pending[q]

\* The identity column generates a queue_sequence above that of every row.
Newest(rows) == CHOOSE n \in {0} \cup {pending[p] : p \in rows} : \A p \in rows : pending[p] <= n

\* The table after every row but these is deleted.
OnlyRows(rows) == [run \in Runs |-> IF run \in rows THEN pending[run] ELSE 0]

\* Mutant: the slot is cleared and nobody is promoted.
ReleaseSlotIdle(run) ==
    /\ running' = IF running = run THEN NoRun ELSE running
    /\ pending' = OnlyRows({p \in Queue \ {run} : Open(p)})

\* Mutant: the newest pending run is promoted.
ReleaseSlotNewest(run) ==
    LET waiting == {p \in Queue \ {run} : Open(p)}
    IN  /\ running' = IF running # run THEN running
                      ELSE IF waiting = {} THEN NoRun
                      ELSE CHOOSE p \in waiting : \A q \in waiting : pending[p] >= pending[q]
        /\ pending' = OnlyRows(waiting \ {running'})

\* reconcile_terminal_concurrency: the run leaves the queue, and if it was
\* the running run the oldest pending run takes its place.
ReleaseSlot(run) ==
    LET waiting == {p \in Queue \ {run} : Open(p)}
    IN  IF running = run
        THEN /\ running' = IF waiting = {} THEN NoRun ELSE Oldest(waiting)
             /\ pending' = OnlyRows(waiting \ {running'})
        ELSE /\ running' = running
             /\ pending' = OnlyRows(waiting)

\* A decision time before the run's last change is RunTimeRegression.
Reconcile(run, t) ==
    /\ t >= updatedAt[run]
    /\ UNCHANGED plan
    /\ status' = [status EXCEPT ![run] = DesiredStatus(run)]
    /\ updatedAt' = [updatedAt EXCEPT ![run] = IF DesiredStatus(run) # status[run] THEN t ELSE @]
    /\ IF run \in GroupRuns /\ DesiredStatus(run) \in {"Completed", "Cancelled"}
       THEN ReleaseSlot(run)
       ELSE UNCHANGED <<running, pending>>

-----------------------------------------------------------------------------
(* Admission and the concurrency group.                                    *)

CancelledAt(runs, t) ==
    [a \in {j \in Attempts : RunOf(j) \in runs /\ lifecycle[j] \notin Terminal} |->
        Later(t, updatedAt[RunOf(a)])]

Insert(run, t, displaced) ==
    /\ Jobs(run) # {}
    /\ Admit(Jobs(run), t, CancelledAt(displaced, t))
    /\ UNCHANGED plan
    /\ status' = [r \in Runs |-> CASE r = run -> "Queued"
                                   [] r \in displaced -> "Cancelled"
                                   [] OTHER -> status[r]]
    /\ updatedAt' = [r \in Runs |-> CASE r = run -> t
                                      [] r \in displaced -> Later(t, updatedAt[r])
                                      [] OTHER -> updatedAt[r]]

\* admit_workflow of a run without a concurrency group
AdmitUngrouped(run, t) ==
    /\ run \notin GroupRuns
    /\ status[run] = "Absent"
    /\ Insert(run, t, {})
    /\ UNCHANGED <<running, pending>>

\* admit_workflow and assign_concurrency_slot
AdmitGrouped(run, t, policy) ==
    LET waiting == {p \in Queue : Open(p)}
        vacant  == running = NoRun \/ ~Open(running)
        holder  == IF ~vacant THEN running
                   ELSE IF waiting = {} THEN NoRun ELSE Oldest(waiting)
        queue   == waiting \ (IF vacant THEN {holder} ELSE {})
        kept    == IF policy.single THEN {} ELSE queue
        enqueue == holder # NoRun /\ ~policy.cancelInProgress
        displaced == (queue \ kept) \cup
                     (IF policy.cancelInProgress THEN {holder} \ {NoRun} ELSE {})
    IN  /\ run \in GroupRuns
        /\ status[run] = "Absent"
        /\ enqueue => Cardinality(kept) < MaxPending
        /\ Insert(run, t, displaced)
        /\ running' = IF enqueue THEN holder ELSE run
        /\ pending' = IF enqueue THEN [OnlyRows(kept) EXCEPT ![run] = Newest(kept) + 1]
                                 ELSE OnlyRows(kept)

-----------------------------------------------------------------------------
(* The attempt transactions with their run-level halves.                   *)

\* Mutant: the concurrency group is not consulted.
RunnableUngrouped(a) ==
    /\ Open(RunOf(a))
    /\ \A p \in Prerequisites(a) : lifecycle[p] = "Succeeded"

\* Mutant: it is enough that the prerequisites ended.
RunnableAfterEnd(a) ==
    /\ Open(RunOf(a))
    /\ \A p \in Prerequisites(a) : lifecycle[p] \in Terminal
    /\ RunOf(a) \in GroupRuns => running = RunOf(a)

\* evaluate_claim: the run is open, every prerequisite succeeded, and a run
\* of the group holds its running slot.
Runnable(a) ==
    /\ Open(RunOf(a))
    /\ \A p \in Prerequisites(a) : lifecycle[p] = "Succeeded"
    /\ RunOf(a) \in GroupRuns => running = RunOf(a)

\* Mutant: a job is blocked only when none of its prerequisites succeeded.
BlockedByAll(a) ==
    /\ Open(RunOf(a))
    /\ Prerequisites(a) # {}
    /\ \A p \in Prerequisites(a) : lifecycle[p] \in Terminal \ {"Succeeded"}

\* conclude_blocked: every prerequisite ended and one did not succeed.
Blocked(a) ==
    /\ Open(RunOf(a))
    /\ \A p \in Prerequisites(a) : lifecycle[p] \in Terminal
    /\ \E p \in Prerequisites(a) : lifecycle[p] # "Succeeded"

ClaimRun(a, r, e, s) == Runnable(a) /\ Claim(a, r, e, s) /\ Reconcile(RunOf(a), now)

AcceptRun(o, acked) == AcceptOffer(o, acked) /\ Reconcile(RunOf(o.attempt), now)

DeclineRun(o, acked, next) == DeclineOffer(o, acked, next) /\ Reconcile(RunOf(o.attempt), now)

ResultRun(o, conclusion) ==
    CommitTerminalResult(o, conclusion) /\ Reconcile(RunOf(o.attempt), now)

SkipRun(a, t) == Blocked(a) /\ SkipBlocked(a, t) /\ Reconcile(RunOf(a), t)

CancelRun(a, t) == RequestCancellation(a, t) /\ Reconcile(RunOf(a), t)

ReapRun(a) == ReapExpired(a) /\ Reconcile(RunOf(a), now)

\* Session transactions, offer publication and heartbeats touch no run row.
LeaseOnly ==
    /\ \/ Tick
       \/ SessionStep
       \/ \E c \in claims : PublishOffer(c)
       \/ HeartbeatStep
    /\ UNCHANGED runVars

CPNext ==
    \/ LeaseOnly
    \/ \E run \in Runs, t \in CallerTimes :
          \/ AdmitUngrouped(run, t)
          \/ \E policy \in Policies : AdmitGrouped(run, t, policy)
    \/ \E a \in Attempts, r \in Runners, s \in Slots : ClaimRun(a, r, epoch[r], s)
    \/ \E o \in offers, acked \in SUBSET Attempts :
          \/ AcceptRun(o, acked)
          \/ \E next \in {"Queued", "Failed"} : DeclineRun(o, acked, next)
    \/ \E o \in offers, conclusion \in Conclusions : ResultRun(o, conclusion)
    \/ \E a \in Attempts :
          \/ ReapRun(a)
          \/ \E t \in CallerTimes : SkipRun(a, t) \/ CancelRun(a, t)

\* The maintenance and blocked-job passes of the control plane keep running:
\* while one of them or the clock has something to do, something of it is done.
CPFairness ==
    WF_allVars(\/ Tick /\ UNCHANGED runVars
               \/ \E a \in Attempts : ReapRun(a) \/ \E t \in CallerTimes : SkipRun(a, t))

CPSpec == CPInit /\ [][CPNext]_allVars /\ CPFairness

-----------------------------------------------------------------------------
(* Properties.                                                             *)

RunTypeOK ==
    /\ plan \in Plans
    /\ status \in [Runs -> Statuses]
    /\ updatedAt \in [Runs -> Int]
    /\ running \in Runs \cup {NoRun}
    /\ pending \in [Runs -> Nat]

\* Work of a group run that does not hold the running slot is only the tail of
\* a preempted run: its run is cancelled and its cancellation is stored.
GroupExclusive ==
    \A a \in Attempts :
        lifecycle[a] \in Live /\ RunOf(a) \in GroupRuns /\ RunOf(a) # running =>
            status[RunOf(a)] = "Cancelled" /\ intent[a] # "none"

\* No lost wakeup in the group: the slot is held by an open run or by nobody,
\* nobody holds it only while nothing waits, every open run of the group is
\* running or waits, never both, and no two wait at the same place.
SlotAccounting ==
    /\ running # NoRun => Open(running)
    /\ running = NoRun => Queue = {}
    /\ \A p, q \in Queue : pending[p] = pending[q] => p = q
    /\ \A run \in GroupRuns : Open(run) <=> run = running \/ run \in Queue
    /\ running \notin Queue
    /\ Cardinality(Queue) <= MaxPending

\* The status of a run agrees with its attempts after every transaction: a
\* completed run has only terminal attempts, an open run has an attempt left
\* to finish, a queued run has started nothing, and every attempt of a
\* cancelled run that is not terminal carries a cancellation.
RunAccounting ==
    /\ RunTypeOK
    /\ \A a \in Attempts :
        /\ status[RunOf(a)] = "Absent" <=> lifecycle[a] = "Absent"
        /\ status[RunOf(a)] = "Completed" => lifecycle[a] \in Terminal
        /\ status[RunOf(a)] = "Queued" => lifecycle[a] = "Queued"
        /\ status[RunOf(a)] = "Cancelled" => lifecycle[a] \in Terminal \/ intent[a] # "none"
        /\ Open(RunOf(a)) => \E b \in Jobs(RunOf(a)) : lifecycle[b] \notin Terminal

\* An attempt is handed out only after everything its job needs succeeded.
DependenciesFirst ==
    \A a \in Attempts : lifecycle[a] \in Live => \A p \in Prerequisites(a) : lifecycle[p] = "Succeeded"

\* The queue is first in, first out: the slot passes only to a run being
\* admitted or to the oldest pending run, and a waiting run leaves the queue
\* only by taking the slot or by ending.
FairQueue ==
    [][/\ running' # running /\ running' \in Queue =>
             \A p \in Queue : pending[p] < pending[running'] => ~Open(p)'
       /\ \A run \in Queue \ Queue' : running' = run \/ ~Open(run)']_allVars

\* The job can never start: everything it needs ended, not all of it well.
Stuck(a) ==
    /\ lifecycle[a] = "Queued"
    /\ \A p \in Prerequisites(a) : lifecycle[p] \in Terminal
    /\ \E p \in Prerequisites(a) : lifecycle[p] # "Succeeded"

\* A job whose prerequisites ended without success does not stay queued, so a
\* run is never held open by jobs that cannot start: again and again there is
\* a moment when no job is stuck.
BlockedConcludes == []<>(\A a \in Attempts : ~Stuck(a))
=============================================================================
