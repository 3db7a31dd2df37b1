------------------------- MODULE ControlPlaneProofs -------------------------
(***************************************************************************)
(* Machine-checked proofs about ControlPlane, for any workflows, runs and  *)
(* queue limits: the run-level half of the transactions takes no step the  *)
(* lease protocol does not take, the status of a run agrees with its       *)
(* attempts, and the concurrency group is exclusive, fair and never idle   *)
(* while something waits.                                                  *)
(***************************************************************************)
EXTENDS ControlPlane, AttemptLeaseProofs, FiniteSetTheorems, WellFoundedInduction

-----------------------------------------------------------------------------
(* The inductive invariant.                                                *)

\* The times of run rows are clock readings that a caller may still supply.
RunTimes ==
    /\ now <= MaxTime
    /\ \A run \in Runs : updatedAt[run] \in 0 .. MaxTime /\ updatedAt[run] <= now + MaxSkew

\* Only runs of the group are in its rows, and its queue is finite.
QueueRows ==
    /\ Queue \subseteq GroupRuns
    /\ running \in GroupRuns \cup {NoRun}
    /\ IsFiniteSet(Queue)
    /\ \E n \in Nat : \A run \in Runs : pending[run] <= n

LeaseInv == TypeOK /\ FencingInv /\ CancellationSticks
GroupInv == QueueRows /\ SlotAccounting /\ GroupExclusive
RunInv   == RunAccounting /\ RunTimes /\ DependenciesFirst
CPInv    == LeaseInv /\ RunInv /\ GroupInv

-----------------------------------------------------------------------------
(* The queue.                                                              *)

\* A nonempty set of natural numbers has a least element.
LEMMA LeastNatural ==
  ASSUME NEW T, T \subseteq Nat, T # {}
  PROVE  \E x \in T : \A y \in T : x <= y
<1> DEFINE R == OpToRel(<, Nat)
<1>1. IsWellFoundedOn(R, Nat)
  BY NatLessThanWellFounded
<1>2. \A y, x \in Nat : <<y, x>> \in R <=> y < x
  BY DEF OpToRel
<1> HIDE DEF R
<1>3. PICK x \in T : \A y \in T : ~(<<y, x>> \in R)
  BY <1>1, WFMin
<1>4. ASSUME NEW y \in T PROVE x <= y
  <2>1. x \in Nat /\ y \in Nat /\ ~(<<y, x>> \in R)
    BY <1>3
  <2>2. ~(y < x)
    BY <2>1, <1>2
  <2> QED
    BY <2>1, <2>2
<1> QED
  BY <1>4

\* The run promoted from a nonempty queue is one of the queue, and no run of
\* the queue has a smaller queue_sequence.
LEMMA OldestOf ==
  ASSUME RunTypeOK, NEW rows, rows \subseteq Runs, rows # {}
  PROVE  Oldest(rows) \in rows /\ \A q \in rows : pending[Oldest(rows)] <= pending[q]
<1> DEFINE T == {pending[p] : p \in rows}
<1>1. T \subseteq Nat /\ T # {}
  BY DEF RunTypeOK
<1>2. PICK n \in T : \A m \in T : n <= m
  <2> HIDE DEF T
  <2> QED
    BY <1>1, LeastNatural
<1>3. \E p \in rows : \A q \in rows : pending[p] <= pending[q]
  BY <1>2
<1> QED
  BY <1>3 DEF Oldest

\* The queue_sequence of the newest row is a number no row exceeds.
LEMMA NewestOf ==
  ASSUME RunTypeOK, QueueRows, NEW rows, rows \subseteq Runs
  PROVE  Newest(rows) \in Nat /\ \A p \in rows : pending[p] <= Newest(rows)
<1> DEFINE Bounds == {n \in Nat : \A p \in rows : pending[p] <= n}
<1>1. Bounds \subseteq Nat /\ Bounds # {}
  BY DEF QueueRows
<1>2. PICK n \in Bounds : \A m \in Bounds : n <= m
  <2> HIDE DEF Bounds
  <2> QED
    BY <1>1, LeastNatural
<1>3. n \in Nat /\ \A p \in rows : pending[p] <= n /\ pending[p] \in Nat
  BY <1>2 DEF RunTypeOK
<1>4. CASE n = 0
  <2>1. n \in {0} \cup {pending[p] : p \in rows}
    BY <1>4
  <2> QED
    BY <1>3, <2>1, <1>3 DEF Newest
<1>5. CASE n # 0
  <2>1. n - 1 \in Nat /\ ~(n <= n - 1)
    BY <1>3, <1>5
  <2>2. n - 1 \notin Bounds
    BY <1>2, <2>1
  <2>3. PICK p \in rows : ~(pending[p] <= n - 1)
    BY <2>1, <2>2
  <2>4. pending[p] = n
    BY <1>3, <2>1, <2>3
  <2>5. n \in {0} \cup {pending[q] : q \in rows}
    BY <2>4
  <2> QED
    BY <1>3, <2>5 DEF Newest
<1> QED
  BY <1>4, <1>5

\* Deleting rows leaves exactly the rows that are kept.
LEMMA RowsKept ==
  ASSUME RunTypeOK, NEW rows \in SUBSET Queue
  PROVE  /\ OnlyRows(rows) \in [Runs -> Nat]
         /\ {run \in Runs : OnlyRows(rows)[run] > 0} = rows
         /\ \A p \in rows : OnlyRows(rows)[p] = pending[p]
         /\ \A p \in Runs : OnlyRows(rows)[p] <= pending[p]
  BY DEF RunTypeOK, Queue, OnlyRows

-----------------------------------------------------------------------------
(* What the transactions do.                                               *)

\* The lease half of a transaction about attempt a, as the run sees it.
Moves(a) ==
    /\ lifecycle[a] # "Absent" /\ lifecycle'[a] # "Absent"
    /\ \A b \in Attempts \ {a} : lifecycle'[b] = lifecycle[b]
    /\ \A b \in Attempts : intent[b] # "none" => intent'[b] # "none"
    /\ lifecycle[a] \in Terminal => lifecycle'[a] = lifecycle[a]
    /\ lifecycle'[a] \in Live => lifecycle[a] \in Live \/ Runnable(a)
    /\ now' = now

\* A transaction that no run notices.
Unnoticed ==
    /\ \A a \in Attempts : lifecycle'[a] = lifecycle[a] \/ {lifecycle[a], lifecycle'[a]} \subseteq Live
    /\ \A a \in Attempts : intent[a] # "none" => intent'[a] # "none"
    /\ now <= now' /\ now' <= MaxTime
    /\ UNCHANGED runVars

\* The clock of the database is one a caller may have.
LEMMA NowIsCallerTime == TypeOK /\ RunTimes => now \in CallerTimes
  BY LeaseAssumption DEF TypeOK, RunTimes, CallerTimes

\* A plan gives every attempt a run, and the prerequisites of a job are jobs
\* of its run.
LEMMA PlanType ==
  ASSUME RunTypeOK
  PROVE  /\ \A a \in Attempts : RunOf(a) \in Runs /\ Prerequisites(a) \subseteq Attempts
         /\ GroupRuns \subseteq Runs
  BY RunAssumption DEF RunTypeOK, RunOf, Prerequisites, GroupRuns

\* Claims, answers, results, skips, cancellations and reaps concern one attempt
\* and reconcile its run.
LEMMA MovesOfAttempt ==
  ASSUME CPInv, NEW a \in Attempts,
         \/ \E r \in Runners, s \in Slots : Claim(a, r, epoch[r], s) /\ Runnable(a)
         \/ \E o \in offers, acked \in SUBSET Attempts :
               o.attempt = a /\ (AcceptOffer(o, acked) \/ \E next : DeclineOffer(o, acked, next))
         \/ \E o \in offers, conclusion \in Conclusions :
               o.attempt = a /\ CommitTerminalResult(o, conclusion)
         \/ \E t : SkipBlocked(a, t) \/ RequestCancellation(a, t)
         \/ ReapExpired(a)
  PROVE  Moves(a)
<1> USE DEF CPInv, LeaseInv, TypeOK, Moves, Live, Terminal
<1>1. ASSUME NEW r \in Runners, NEW s \in Slots, Claim(a, r, epoch[r], s), Runnable(a)
      PROVE  Moves(a)
  BY <1>1 DEF Claim
<1>2. ASSUME NEW o \in offers, NEW acked, o.attempt = a, AcceptOffer(o, acked) PROVE Moves(a)
  BY <1>2, AcknowledgeKeeps DEF AcceptOffer, Responding
<1>3. ASSUME NEW o \in offers, NEW acked, NEW next, o.attempt = a, DeclineOffer(o, acked, next)
      PROVE  Moves(a)
  BY <1>3, AcknowledgeKeeps DEF DeclineOffer, Responding
<1>4. ASSUME NEW o \in offers, NEW conclusion \in Conclusions, o.attempt = a,
             CommitTerminalResult(o, conclusion)
      PROVE  Moves(a)
  BY <1>4, AcknowledgeKeeps, LeaseAssumption
     DEF CommitTerminalResult, Fenced, TerminalLifecycles
<1>5. ASSUME NEW t, SkipBlocked(a, t) PROVE Moves(a)
  BY <1>5 DEF SkipBlocked
<1>6. ASSUME NEW t, RequestCancellation(a, t) PROVE Moves(a)
  BY <1>6 DEF RequestCancellation, Lifecycles
<1>7. ASSUME ReapExpired(a) PROVE Moves(a)
  BY <1>7 DEF ReapExpired, Expired, messageVars
<1> QED
  BY <1>1, <1>2, <1>3, <1>4, <1>5, <1>6, <1>7

\* Every transaction of the control plane is unnoticed by the runs, moves one
\* attempt and reconciles its run, or admits a run.
LEMMA CPSteps ==
  ASSUME CPInv, [CPNext]_allVars
  PROVE  \/ Unnoticed
         \/ \E a \in Attempts, t \in CallerTimes : Moves(a) /\ Reconcile(RunOf(a), t)
         \/ \E run \in Runs, t \in CallerTimes :
               \/ AdmitUngrouped(run, t)
               \/ \E policy \in Policies : AdmitGrouped(run, t, policy)
<1> DEFINE Moved == \E a \in Attempts, t \in CallerTimes : Moves(a) /\ Reconcile(RunOf(a), t)
<1> USE DEF CPInv, LeaseInv, RunInv
<1>1. now \in CallerTimes
  BY NowIsCallerTime
<1>2. \A o \in offers : o.attempt \in Attempts
  BY DEF TypeOK, Claims
<1>3. ASSUME LeaseOnly PROVE Unnoticed
  <2>1. UNCHANGED runVars
    BY <1>3 DEF LeaseOnly
  <2> SUFFICES /\ \A a \in Attempts : \/ lifecycle'[a] = lifecycle[a]
                                      \/ {lifecycle[a], lifecycle'[a]} \subseteq Live
               /\ \A a \in Attempts : intent[a] # "none" => intent'[a] # "none"
               /\ now <= now' /\ now' <= MaxTime
    BY <2>1 DEF Unnoticed
  <2>2. now \in Nat /\ now <= MaxTime /\ MaxTime \in Nat
    BY LeaseAssumption DEF TypeOK, RunTimes
  <2>3. ASSUME NEW n \in renewals, NEW acked, CommitHeartbeat(n, acked)
        PROVE  /\ \A a \in Attempts : \/ lifecycle'[a] = lifecycle[a]
                                      \/ {lifecycle[a], lifecycle'[a]} \subseteq Live
               /\ \A a \in Attempts : intent[a] # "none" => intent'[a] # "none"
               /\ now' = now
    <3>1. /\ n.claim.attempt \in Attempts /\ n.reported \in Live /\ lifecycle[n.claim.attempt] \in Live
          /\ lifecycle' = [lifecycle EXCEPT ![n.claim.attempt] = n.reported]
      BY <2>3, HeartbeatEffect
    <3>2. intent' = Acknowledge(acked) /\ now' = now
      BY <2>3, HeartbeatFrame
    <3> QED
      BY <3>1, <3>2, AcknowledgeKeeps DEF TypeOK
  <2>4. ASSUME NEW r, NEW e, NEW acked, SessionHeartbeat(r, e, acked)
        PROVE  /\ UNCHANGED <<now, lifecycle>>
               /\ \A a \in Attempts : intent[a] # "none" => intent'[a] # "none"
    BY <2>4, AcknowledgeKeeps DEF SessionHeartbeat
  <2>5. CASE Tick
    BY <2>2, <2>5 DEF Tick, attemptVars
  <2>6. CASE UNCHANGED <<now, lifecycle, intent>>
    BY <2>2, <2>6
  <2> QED
    BY <1>3, <2>2, <2>3, <2>4, <2>5, <2>6
       DEF LeaseOnly, SessionStep, HeartbeatStep, OpenSession, SetDesired, CloseSession,
           CloseStaleSession, Disconnect, PublishOffer, AuthorizeRenewal, attemptVars
<1>4. ASSUME NEW a \in Attempts, NEW r \in Runners, NEW s \in Slots, ClaimRun(a, r, epoch[r], s)
      PROVE  Moved
  BY <1>1, <1>4, MovesOfAttempt DEF ClaimRun
<1>5. ASSUME NEW o \in offers, NEW acked \in SUBSET Attempts,
             AcceptRun(o, acked) \/ \E next \in {"Queued", "Failed"} : DeclineRun(o, acked, next)
      PROVE  Moved
  BY <1>1, <1>2, <1>5, MovesOfAttempt DEF AcceptRun, DeclineRun
<1>6. ASSUME NEW o \in offers, NEW conclusion \in Conclusions, ResultRun(o, conclusion)
      PROVE  Moved
  BY <1>1, <1>2, <1>6, MovesOfAttempt DEF ResultRun
<1>7. ASSUME NEW a \in Attempts, NEW t \in CallerTimes, SkipRun(a, t) \/ CancelRun(a, t)
      PROVE  Moved
  BY <1>7, MovesOfAttempt DEF SkipRun, CancelRun
<1>8. ASSUME NEW a \in Attempts, ReapRun(a) PROVE Moved
  BY <1>1, <1>8, MovesOfAttempt DEF ReapRun
<1>9. CASE UNCHANGED allVars
  BY <1>9, LeaseAssumption DEF allVars, vars, attemptVars, Unnoticed, TypeOK, RunTimes
<1> HIDE DEF Moved
<1> QED
  BY <1>3, <1>4, <1>5, <1>6, <1>7, <1>8, <1>9 DEF CPNext, Moved

\* Under the accounting of the group, no transaction ever finds an open run to
\* promote at an admission: the slot is vacant only when nothing waits.  The
\* admitted run waits behind the holder, or takes the slot that was vacant or
\* whose holder it displaces; either way it may displace waiting runs.
LEMMA GroupedAdmission ==
  ASSUME CPInv, NEW run \in Runs, NEW t, NEW policy, AdmitGrouped(run, t, policy)
  PROVE  \E displaced \in SUBSET Runs :
            /\ displaced \subseteq Queue \cup ({running} \ {NoRun})
            /\ run \in GroupRuns /\ status[run] = "Absent"
            /\ Insert(run, t, displaced)
            /\ \/ /\ running # NoRun /\ running' = running /\ running \notin displaced
                  /\ Cardinality(Queue \ displaced) < MaxPending
                  /\ pending' = [OnlyRows(Queue \ displaced) EXCEPT
                                    ![run] = Newest(Queue \ displaced) + 1]
               \/ /\ running = NoRun \/ running \in displaced
                  /\ running' = run
                  /\ pending' = OnlyRows(Queue \ displaced)
<1> USE DEF CPInv, RunInv, GroupInv, RunAccounting
<1>1. {p \in Queue : Open(p)} = Queue
  BY DEF QueueRows, SlotAccounting
<1>2. Queue \subseteq Runs /\ running \in Runs \cup {NoRun} /\ running \notin Queue /\ NoRun \notin Runs
  BY RunAssumption DEF Queue, RunTypeOK, SlotAccounting
<1>3. run \in GroupRuns /\ status[run] = "Absent"
  BY DEF AdmitGrouped
<1>4. CASE running = NoRun
  <2>1. Queue = {}
    BY <1>4 DEF SlotAccounting
  <2>2. /\ Insert(run, t, {})
        /\ running' = run /\ pending' = OnlyRows({})
    BY <1>4, <2>1 DEF AdmitGrouped
  <2> QED
    BY <1>3, <1>4, <2>1, <2>2
<1>5. CASE running # NoRun
  <2>1. Open(running)
    BY <1>5 DEF SlotAccounting
  <2> DEFINE kept == IF policy.single THEN {} ELSE Queue
             displaced == (Queue \ kept) \cup (IF policy.cancelInProgress THEN {running} ELSE {})
  <2>2. /\ Insert(run, t, displaced)
        /\ running' = IF policy.cancelInProgress THEN run ELSE running
        /\ ~policy.cancelInProgress => Cardinality(kept) < MaxPending
        /\ pending' = IF policy.cancelInProgress THEN OnlyRows(kept)
                      ELSE [OnlyRows(kept) EXCEPT ![run] = Newest(kept) + 1]
    <3>1. {running} \ {NoRun} = {running} /\ Queue \ {} = Queue
      BY <1>5
    <3> QED
      BY <1>1, <1>5, <2>1, <3>1 DEF AdmitGrouped
  <2>3. Queue \ displaced = kept
    BY <1>2
  <2>4. displaced \in SUBSET Runs /\ displaced \subseteq Queue \cup ({running} \ {NoRun})
    BY <1>2, <1>5
  <2>5. policy.cancelInProgress <=> running \in displaced
    BY <1>2
  <2> HIDE DEF displaced, kept
  <2>6. CASE policy.cancelInProgress
    BY <1>3, <2>2, <2>3, <2>4, <2>5, <2>6
  <2>7. CASE ~policy.cancelInProgress
    BY <1>3, <1>5, <2>2, <2>3, <2>4, <2>5, <2>7
  <2> QED
    BY <2>6, <2>7
<1> QED
  BY <1>4, <1>5

\* The control plane takes no step that the lease protocol does not take: the
\* cancellation times of an admission are times a caller may supply.
LEMMA LeaseStepOf ==
  ASSUME CPInv, [CPNext]_allVars
  PROVE  [Next]_vars
<1> USE DEF CPInv, LeaseInv, RunInv, RunAccounting
<1>1. ASSUME NEW run, NEW t \in CallerTimes, NEW displaced \in SUBSET Runs, Insert(run, t, displaced)
      PROVE  ConclusionStep
  <2> DEFINE D == {j \in Attempts : RunOf(j) \in displaced /\ lifecycle[j] \notin Terminal}
  <2>1. CancelledAt(displaced, t) = [a \in D |-> Later(t, updatedAt[RunOf(a)])]
    BY DEF CancelledAt
  <2>2. \A r \in Runs : Later(t, updatedAt[r]) \in CallerTimes
    BY LeaseAssumption DEF CallerTimes, Later, RunTimes, TypeOK
  <2>3. CancelledAt(displaced, t) \in [D -> CallerTimes]
    BY <2>1, <2>2, PlanType
  <2>4. D \in SUBSET Attempts /\ Jobs(run) \in SUBSET Attempts
    BY DEF Jobs
  <2>5. Admit(Jobs(run), t, CancelledAt(displaced, t))
    BY <1>1 DEF Insert
  <2> HIDE DEF D
  <2> QED
    BY <2>3, <2>4, <2>5 DEF ConclusionStep
<1>2. ASSUME NEW run \in Runs, NEW t \in CallerTimes, AdmitUngrouped(run, t) PROVE Next
  BY <1>1, <1>2 DEF AdmitUngrouped, Next
<1>3. ASSUME NEW run \in Runs, NEW t \in CallerTimes, NEW policy, AdmitGrouped(run, t, policy)
      PROVE  Next
  BY <1>1, <1>3, GroupedAdmission DEF Next
<1>5. ASSUME LeaseOnly PROVE Next
  BY <1>5 DEF LeaseOnly, Next, OfferStep
<1>6. ASSUME NEW a \in Attempts, NEW r \in Runners, NEW s \in Slots, ClaimRun(a, r, epoch[r], s)
      PROVE  Next
  BY <1>6 DEF ClaimRun, Next, OfferStep
<1>7. ASSUME NEW o \in offers, NEW acked \in SUBSET Attempts,
             AcceptRun(o, acked) \/ \E next \in {"Queued", "Failed"} : DeclineRun(o, acked, next)
      PROVE  Next
  BY <1>7 DEF AcceptRun, DeclineRun, Next, OfferStep
<1>8. ASSUME NEW o \in offers, NEW conclusion \in Conclusions, ResultRun(o, conclusion)
      PROVE  Next
  BY <1>8 DEF ResultRun, Next, ConclusionStep
<1>9. ASSUME NEW a \in Attempts, NEW t \in CallerTimes, SkipRun(a, t) \/ CancelRun(a, t)
      PROVE  Next
  BY <1>9 DEF SkipRun, CancelRun, Next, ConclusionStep
<1>10. ASSUME NEW a \in Attempts, ReapRun(a) PROVE Next
  BY <1>10 DEF ReapRun, Next, ConclusionStep
<1>11. CASE UNCHANGED allVars
  BY <1>11 DEF allVars
<1> QED
  BY <1>2, <1>3, <1>5, <1>6, <1>7, <1>8, <1>9, <1>10, <1>11 DEF CPNext

-----------------------------------------------------------------------------
(* The status of a run.                                                    *)

\* What reconciliation decides agrees with the attempts as the transaction
\* leaves them: a run is completed exactly when all of them ended, cancelled
\* runs stay cancelled, and a run is queued only while nothing has started.
LEMMA Desired ==
  ASSUME CPInv, NEW a \in Attempts, Moves(a), NEW run, run = RunOf(a)
  PROVE  /\ DesiredStatus(run) \in {"Queued", "InProgress", "Completed", "Cancelled"}
         /\ DesiredStatus(run) = "Cancelled" <=> status[run] = "Cancelled"
         /\ DesiredStatus(run) = "Completed" => \A b \in Jobs(run) : lifecycle'[b] \in Terminal
         /\ DesiredStatus(run) = "Queued" => \A b \in Jobs(run) : lifecycle'[b] = "Queued"
         /\ DesiredStatus(run) \in {"Queued", "InProgress"} =>
               Open(run) /\ \E b \in Jobs(run) : lifecycle'[b] \notin Terminal
<1> USE DEF CPInv, RunInv, LeaseInv
<1>1. run \in Runs /\ a \in Jobs(run) /\ Jobs(run) \subseteq Attempts
  BY PlanType DEF Jobs, RunAccounting
<1>2. status[run] \in Statuses /\ status[run] # "Absent"
  BY <1>1 DEF RunAccounting, RunTypeOK, Moves
<1>3. status[run] = "Completed" => \A b \in Jobs(run) : lifecycle'[b] \in Terminal
  <2> SUFFICES ASSUME status[run] = "Completed", NEW b \in Jobs(run) PROVE lifecycle'[b] \in Terminal
    OBVIOUS
  <2>1. b \in Attempts /\ RunOf(b) = run
    BY DEF Jobs
  <2>2. lifecycle[b] \in Terminal
    BY <2>1 DEF RunAccounting
  <2> QED
    BY <2>1, <2>2 DEF Moves
<1>4. CASE status[run] = "Cancelled"
  BY <1>4 DEF DesiredStatus
<1>5. CASE status[run] # "Cancelled" /\ \A b \in Jobs(run) : lifecycle'[b] \in Terminal
  BY <1>5 DEF DesiredStatus
<1>6. CASE status[run] # "Cancelled" /\ \E b \in Jobs(run) : lifecycle'[b] \notin Terminal
  <2>1. status[run] \in {"Queued", "InProgress"}
    BY <1>2, <1>3, <1>6 DEF Statuses
  <2>2. CASE status[run] = "Queued" /\ \E b \in Jobs(run) : lifecycle'[b] # "Queued"
    <3>1. DesiredStatus(run) = "InProgress"
      BY <1>6, <2>2 DEF DesiredStatus
    <3> QED
      BY <1>6, <2>1, <3>1 DEF Open
  <2>3. CASE status[run] = "Queued" /\ \A b \in Jobs(run) : lifecycle'[b] = "Queued"
    <3>1. DesiredStatus(run) = "Queued"
      BY <1>6, <2>3 DEF DesiredStatus
    <3> QED
      BY <1>6, <2>1, <2>3, <3>1 DEF Open
  <2>4. CASE status[run] = "InProgress"
    <3>1. DesiredStatus(run) = "InProgress"
      BY <1>6, <2>4 DEF DesiredStatus
    <3> QED
      BY <1>6, <2>1, <3>1 DEF Open
  <2> QED
    BY <2>1, <2>2, <2>3, <2>4
<1> QED
  BY <1>4, <1>5, <1>6

\* Releasing the slot keeps the rows of the group well typed.
LEMMA ReleaseType ==
  ASSUME RunTypeOK, NEW run, ReleaseSlot(run)
  PROVE  running' \in Runs \cup {NoRun} /\ pending' \in [Runs -> Nat]
<1> DEFINE waiting == {p \in Queue \ {run} : Open(p)}
<1>1. waiting \in SUBSET Queue /\ waiting \subseteq Runs /\ running \in Runs \cup {NoRun}
  BY DEF Queue, RunTypeOK
<1>2. waiting # {} => Oldest(waiting) \in Runs
  <2> HIDE DEF waiting
  <2> QED
    BY <1>1, OldestOf
<1>3. /\ running' \in {running, NoRun} \/ (waiting # {} /\ running' = Oldest(waiting))
      /\ pending' = OnlyRows(waiting \ {running'}) \/ pending' = OnlyRows(waiting)
  BY DEF ReleaseSlot
<1> HIDE DEF waiting
<1> QED
  BY <1>1, <1>2, <1>3, RowsKept

\* The status of a run agrees with its attempts after its reconciliation.
LEMMA AccountingMoves ==
  ASSUME CPInv, NEW a \in Attempts, NEW t \in CallerTimes, Moves(a), Reconcile(RunOf(a), t)
  PROVE  RunAccounting' /\ RunTimes'
<1> DEFINE run == RunOf(a)
<1> USE DEF CPInv, RunInv
<1>1. run \in Runs /\ status \in [Runs -> Statuses] /\ updatedAt \in [Runs -> Int] /\ t \in Int
  BY PlanType, CallerTimesInt DEF RunAccounting, RunTypeOK
<1>2. /\ plan' = plan
      /\ status' = [status EXCEPT ![run] = DesiredStatus(run)]
      /\ updatedAt' = [updatedAt EXCEPT ![run] = IF DesiredStatus(run) # status[run] THEN t ELSE @]
      /\ ReleaseSlot(run) \/ UNCHANGED <<running, pending>>
  BY DEF Reconcile
<1>3. /\ DesiredStatus(run) \in {"Queued", "InProgress", "Completed", "Cancelled"}
      /\ DesiredStatus(run) = "Cancelled" <=> status[run] = "Cancelled"
      /\ DesiredStatus(run) = "Completed" => \A b \in Jobs(run) : lifecycle'[b] \in Terminal
      /\ DesiredStatus(run) = "Queued" => \A b \in Jobs(run) : lifecycle'[b] = "Queued"
      /\ DesiredStatus(run) \in {"Queued", "InProgress"} =>
            Open(run) /\ \E b \in Jobs(run) : lifecycle'[b] \notin Terminal
  BY Desired
<1> HIDE DEF run
<1>4. /\ status' \in [Runs -> Statuses] /\ status'[run] = DesiredStatus(run)
      /\ \A r \in Runs \ {run} : status'[r] = status[r]
  BY <1>1, <1>2, <1>3 DEF Statuses
<1>5. RunTypeOK'
  BY <1>1, <1>2, <1>4, ReleaseType DEF RunTypeOK, RunAccounting
<1>6. \A b \in Attempts : RunOf(b)' = RunOf(b) /\ RunOf(b) \in Runs
  BY <1>2, PlanType DEF RunOf, RunAccounting
<1>7. ASSUME NEW b \in Attempts, RunOf(b) # run
      PROVE  /\ lifecycle'[b] = lifecycle[b] /\ status'[RunOf(b)] = status[RunOf(b)]
             /\ intent[b] # "none" => intent'[b] # "none"
  BY <1>4, <1>6, <1>7 DEF Moves, run
<1>8. \A r \in Runs : Jobs(r)' = Jobs(r)
  BY <1>6 DEF Jobs
<1>9. ASSUME NEW b \in Attempts
      PROVE  /\ status'[RunOf(b)] = "Absent" <=> lifecycle'[b] = "Absent"
             /\ status'[RunOf(b)] = "Completed" => lifecycle'[b] \in Terminal
             /\ status'[RunOf(b)] = "Queued" => lifecycle'[b] = "Queued"
             /\ status'[RunOf(b)] = "Cancelled" => lifecycle'[b] \in Terminal \/ intent'[b] # "none"
             /\ status'[RunOf(b)] \in {"Queued", "InProgress"} =>
                   \E c \in Jobs(RunOf(b)) : lifecycle'[c] \notin Terminal
  <2>1. CASE RunOf(b) # run
    <3>1. \A c \in Jobs(RunOf(b)) : lifecycle'[c] = lifecycle[c]
      BY <1>7, <2>1 DEF Jobs
    <3> QED
      BY <1>7, <2>1, <3>1 DEF RunAccounting, Open
  <2>2. CASE RunOf(b) = run
    <3>1. b \in Jobs(run) /\ status'[RunOf(b)] = DesiredStatus(run)
      BY <1>4, <2>2 DEF Jobs
    <3>2. status[run] # "Absent" /\ lifecycle'[b] # "Absent"
      BY <2>2 DEF RunAccounting, Moves, run
    <3>3. status[run] = "Cancelled" => lifecycle'[b] \in Terminal \/ intent'[b] # "none"
      BY <2>2 DEF RunAccounting, Moves
    <3> QED
      BY <1>3, <2>2, <3>1, <3>2, <3>3
  <2> QED
    BY <2>1, <2>2
<1>10. RunAccounting'
  BY <1>5, <1>6, <1>8, <1>9 DEF RunAccounting, Open
<1>11. RunTimes'
  <2>1. t \in 0 .. MaxTime /\ t <= now + MaxSkew
    BY DEF CallerTimes
  <2>2. \A r \in Runs : updatedAt'[r] \in {updatedAt[r], t}
    BY <1>1, <1>2
  <2> QED
    BY <2>1, <2>2 DEF RunTimes, Moves
<1> QED
  BY <1>10, <1>11

\* What an admission does to the attempts: those of the new run are queued,
\* those of displaced runs end or are left cancelling with an intent, and no
\* other attempt changes.
LEMMA InsertedAttempts ==
  ASSUME CPInv, NEW run \in Runs, NEW t, NEW displaced \in SUBSET Runs,
         status[run] = "Absent", \A r \in displaced : Open(r), Insert(run, t, displaced),
         NEW a \in Attempts
  PROVE  /\ RunOf(a) = run => lifecycle[a] = "Absent" /\ lifecycle'[a] = "Queued"
         /\ RunOf(a) \in displaced =>
               /\ lifecycle'[a] # "Absent"
               /\ lifecycle'[a] \in Terminal \/ (lifecycle[a] \in Live /\ intent'[a] # "none")
               /\ lifecycle[a] \in Terminal => lifecycle'[a] = lifecycle[a]
         /\ RunOf(a) # run /\ RunOf(a) \notin displaced =>
               lifecycle'[a] = lifecycle[a] /\ intent'[a] = intent[a]
         /\ intent[a] # "none" => intent'[a] # "none"
<1> DEFINE at == CancelledAt(displaced, t)
           D  == {j \in Attempts : RunOf(j) \in displaced /\ lifecycle[j] \notin Terminal}
<1> USE DEF CPInv, RunInv, LeaseInv
<1>1. Admit(Jobs(run), t, at) /\ DOMAIN at = D
  BY DEF Insert, CancelledAt
<1>2. run \notin displaced
  BY DEF Open
<1>3. a \in Jobs(run) <=> RunOf(a) = run
  BY DEF Jobs
<1> HIDE DEF at
<1>4. /\ \A b \in Jobs(run) : lifecycle[b] = "Absent"
      /\ \A b \in D : lifecycle[b] \in {"Queued"} \cup Live
      /\ lifecycle' = [b \in Attempts |->
                          CASE b \in Jobs(run) -> "Queued"
                            [] b \in D /\ lifecycle[b] = "Queued" -> "Cancelled"
                            [] b \in D /\ lifecycle[b] # "Queued" -> "Cancelling"
                            [] OTHER -> lifecycle[b]]
      /\ intent' = [b \in Attempts |->
                       IF b \in D /\ intent[b] = "none" THEN "open" ELSE intent[b]]
  BY <1>1 DEF Admit
<1>5. a \in D <=> RunOf(a) \in displaced /\ lifecycle[a] \notin Terminal
  OBVIOUS
<1> HIDE DEF D
<1>6. RunOf(a) \in displaced => lifecycle[a] # "Absent"
  BY DEF RunAccounting, Open
<1>7. CASE RunOf(a) = run
  BY <1>2, <1>3, <1>4, <1>5, <1>7
<1>8. CASE a \in D
  <2>1. a \notin Jobs(run)
    BY <1>2, <1>3, <1>5, <1>8
  <2>2. CASE lifecycle[a] = "Queued"
    <3>1. lifecycle'[a] = "Cancelled" /\ intent'[a] # "none"
      BY <1>4, <1>8, <2>1, <2>2
    <3> QED
      BY <1>2, <1>5, <1>8, <2>2, <3>1 DEF Terminal
  <2>3. CASE lifecycle[a] # "Queued"
    <3>1. lifecycle'[a] = "Cancelling" /\ intent'[a] # "none" /\ lifecycle[a] \in Live
      BY <1>4, <1>8, <2>1, <2>3
    <3> QED
      BY <1>2, <1>5, <1>8, <3>1 DEF Terminal, Live
  <2> QED
    BY <2>2, <2>3
<1>9. CASE RunOf(a) # run /\ a \notin D
  <2>1. lifecycle'[a] = lifecycle[a] /\ intent'[a] = intent[a]
    BY <1>3, <1>4, <1>9
  <2> QED
    BY <1>5, <1>6, <1>9, <2>1
<1> QED
  BY <1>7, <1>8, <1>9

\* What an admission does to the run rows.
LEMMA InsertedRuns ==
  ASSUME CPInv, NEW run \in Runs, NEW t \in CallerTimes, NEW displaced \in SUBSET Runs,
         run \notin displaced, Insert(run, t, displaced)
  PROVE  /\ plan' = plan /\ now' = now
         /\ status' \in [Runs -> Statuses] /\ status'[run] = "Queued"
         /\ \A r \in displaced : status'[r] = "Cancelled"
         /\ \A r \in Runs \ ({run} \cup displaced) : status'[r] = status[r]
         /\ RunTimes' /\ updatedAt' \in [Runs -> Int]
         /\ Jobs(run) # {}
<1> USE DEF CPInv, RunInv, LeaseInv
<1>1. plan' = plan /\ now' = now /\ Jobs(run) # {}
  BY DEF Insert, Admit
<1>2. status \in [Runs -> Statuses] /\ updatedAt \in [Runs -> Int]
  BY DEF RunAccounting, RunTypeOK
<1>3. status' = [r \in Runs |-> CASE r = run -> "Queued"
                                  [] r \in displaced -> "Cancelled"
                                  [] OTHER -> status[r]]
  BY DEF Insert
<1>4. \A r \in Runs : status'[r] = IF r = run THEN "Queued"
                                   ELSE IF r \in displaced THEN "Cancelled" ELSE status[r]
  BY <1>3
<1>5. /\ status' \in [Runs -> Statuses] /\ status'[run] = "Queued"
      /\ \A r \in displaced : status'[r] = "Cancelled"
      /\ \A r \in Runs \ ({run} \cup displaced) : status'[r] = status[r]
  BY <1>2, <1>3, <1>4 DEF Statuses
<1>6. \A r \in Runs : updatedAt'[r] \in {t, updatedAt[r]}
  BY DEF Insert, Later
<1>7. t \in 0 .. MaxTime /\ t <= now + MaxSkew
  BY DEF CallerTimes
<1>8. RunTimes' /\ \A r \in Runs : updatedAt'[r] \in Int
  BY <1>1, <1>6, <1>7 DEF RunTimes
<1>9. updatedAt' \in [Runs -> Int]
  <2>1. updatedAt' = [r \in Runs |-> CASE r = run -> t
                                      [] r \in displaced -> Later(t, updatedAt[r])
                                      [] OTHER -> updatedAt[r]]
    BY DEF Insert
  <2> QED
    BY <1>8, <2>1
<1> QED
  BY <1>1, <1>5, <1>8, <1>9

\* An admission leaves every status in agreement with the attempts.
LEMMA AccountingInsert ==
  ASSUME CPInv, NEW run \in Runs, NEW t \in CallerTimes, NEW displaced \in SUBSET Runs,
         status[run] = "Absent", \A r \in displaced : Open(r), Insert(run, t, displaced),
         running' \in Runs \cup {NoRun}, pending' \in [Runs -> Nat]
  PROVE  RunAccounting' /\ RunTimes'
<1> USE DEF CPInv, RunInv
<1>1. run \notin displaced
  BY DEF Open
<1>2. /\ plan' = plan /\ now' = now
      /\ status' \in [Runs -> Statuses] /\ status'[run] = "Queued"
      /\ \A r \in displaced : status'[r] = "Cancelled"
      /\ \A r \in Runs \ ({run} \cup displaced) : status'[r] = status[r]
      /\ RunTimes' /\ updatedAt' \in [Runs -> Int]
  BY <1>1, InsertedRuns
<1>3. RunTypeOK'
  BY <1>2 DEF RunTypeOK, RunAccounting
<1>4. \A b \in Attempts : RunOf(b)' = RunOf(b) /\ RunOf(b) \in Runs
  BY <1>2, PlanType DEF RunOf, RunAccounting
<1>5. \A r \in Runs : Jobs(r)' = Jobs(r)
  BY <1>4 DEF Jobs
<1>6. ASSUME NEW b \in Attempts
      PROVE  /\ status'[RunOf(b)] = "Absent" <=> lifecycle'[b] = "Absent"
             /\ status'[RunOf(b)] = "Completed" => lifecycle'[b] \in Terminal
             /\ status'[RunOf(b)] = "Queued" => lifecycle'[b] = "Queued"
             /\ status'[RunOf(b)] = "Cancelled" => lifecycle'[b] \in Terminal \/ intent'[b] # "none"
             /\ status'[RunOf(b)] \in {"Queued", "InProgress"} =>
                   \E c \in Jobs(RunOf(b)) : lifecycle'[c] \notin Terminal
  <2>1. CASE RunOf(b) = run
    <3>1. lifecycle'[b] = "Queued" /\ b \in Jobs(RunOf(b))
      BY <2>1, InsertedAttempts DEF Jobs
    <3> QED
      BY <1>2, <2>1, <3>1 DEF Terminal
  <2>2. CASE RunOf(b) \in displaced
    <3>1. lifecycle'[b] # "Absent" /\ (lifecycle'[b] \in Terminal \/ intent'[b] # "none")
      BY <2>2, InsertedAttempts
    <3> QED
      BY <1>2, <2>2, <3>1
  <2>3. CASE RunOf(b) # run /\ RunOf(b) \notin displaced
    <3>1. \A c \in Jobs(RunOf(b)) : lifecycle'[c] = lifecycle[c] /\ intent'[c] = intent[c]
      BY <2>3, InsertedAttempts DEF Jobs
    <3>2. status'[RunOf(b)] = status[RunOf(b)] /\ b \in Jobs(RunOf(b))
      BY <1>2, <1>4, <2>3 DEF Jobs
    <3> QED
      BY <3>1, <3>2 DEF RunAccounting, Open
  <2> QED
    BY <2>1, <2>2, <2>3
<1>7. RunAccounting'
  BY <1>3, <1>4, <1>5, <1>6 DEF RunAccounting, Open
<1> QED
  BY <1>2, <1>7

\* The inserted queue row is newer than every other, and the rest is kept.
LEMMA Enqueued ==
  ASSUME CPInv, NEW run \in Runs, status[run] = "Absent", NEW rows \in SUBSET Queue,
         pending' = [OnlyRows(rows) EXCEPT ![run] = Newest(rows) + 1]
  PROVE  /\ pending' \in [Runs -> Nat] /\ run \notin Queue
         /\ Queue' = rows \cup {run}
         /\ \A p \in rows : pending'[p] = pending[p] /\ pending[p] < pending'[run]
         /\ \E n \in Nat : \A r \in Runs : pending'[r] <= n
<1> USE DEF CPInv, RunInv, RunAccounting, GroupInv
<1>1. rows \subseteq Runs /\ Queue \subseteq GroupRuns
  BY DEF Queue, QueueRows
<1>2. run \notin Queue
  BY <1>1 DEF SlotAccounting, Open
<1>3. Newest(rows) \in Nat /\ \A p \in rows : pending[p] <= Newest(rows) /\ pending[p] \in Nat
  BY <1>1, NewestOf DEF RunTypeOK
<1>4. /\ OnlyRows(rows) \in [Runs -> Nat]
      /\ {r \in Runs : OnlyRows(rows)[r] > 0} = rows
      /\ \A p \in rows : OnlyRows(rows)[p] = pending[p]
      /\ \A p \in Runs : OnlyRows(rows)[p] <= pending[p]
  BY RowsKept
<1>5. /\ pending' \in [Runs -> Nat] /\ pending'[run] = Newest(rows) + 1
      /\ \A p \in Runs \ {run} : pending'[p] = OnlyRows(rows)[p]
  BY <1>3, <1>4
<1>6. Queue' = rows \cup {run}
  BY <1>1, <1>3, <1>4, <1>5 DEF Queue
<1>7. \A p \in rows : pending'[p] = pending[p] /\ pending[p] < pending'[run]
  BY <1>1, <1>2, <1>3, <1>4, <1>5
<1>8. PICK n \in Nat : \A r \in Runs : pending[r] <= n
  BY DEF QueueRows
<1>9. n + Newest(rows) + 1 \in Nat /\ \A r \in Runs : pending'[r] <= n + Newest(rows) + 1
  BY <1>3, <1>4, <1>5, <1>8 DEF RunTypeOK
<1> QED
  BY <1>2, <1>5, <1>6, <1>7, <1>9

-----------------------------------------------------------------------------
(* The concurrency group.                                                  *)

\* When the run that releases holds the slot, the oldest waiting run gets it;
\* a run that leaves the queue gets the slot or is the one that releases.
LEMMA Released ==
  ASSUME CPInv, NEW run \in Runs, ReleaseSlot(run)
  PROVE  /\ \A p \in Runs : pending'[p] <= pending[p] /\ pending'[p] \in {0, pending[p]}
         /\ Queue' = Queue \ {run, running'}
         /\ running # run => running' = running
         /\ running = run /\ Queue = {} => running' = NoRun
         /\ running = run /\ Queue # {} =>
               running' \in Queue /\ \A p \in Queue : pending[running'] <= pending[p]
<1> DEFINE waiting == {p \in Queue \ {run} : Open(p)}
<1> USE DEF CPInv, RunInv, RunAccounting, GroupInv
<1>1. waiting = Queue \ {run} /\ Queue \subseteq Runs /\ running \notin Queue
  BY DEF QueueRows, SlotAccounting, Queue
<1>2. NoRun \notin Queue
  BY RunAssumption DEF Queue
<1>3. CASE running # run
  <2>1. running' = running /\ pending' = OnlyRows(Queue \ {run})
    BY <1>1, <1>3 DEF ReleaseSlot
  <2>2. Queue' = {r \in Runs : OnlyRows(Queue \ {run})[r] > 0}
    BY <2>1 DEF Queue
  <2>3. Queue' = Queue \ {run, running'}
    BY <1>1, <1>3, <2>1, <2>2, RowsKept
  <2>4. \A p \in Runs : pending'[p] <= pending[p] /\ pending'[p] \in {0, pending[p]}
    BY <2>1, RowsKept DEF OnlyRows
  <2> QED
    BY <1>3, <2>1, <2>3, <2>4
<1>4. CASE running = run
  <2>1. Queue \ {run} = Queue
    BY <1>1, <1>4
  <2>2. /\ running' = IF Queue = {} THEN NoRun ELSE Oldest(Queue)
        /\ pending' = OnlyRows(Queue \ {running'})
    BY <1>1, <1>4, <2>1 DEF ReleaseSlot
  <2>3. Queue' = {r \in Runs : OnlyRows(Queue \ {running'})[r] > 0}
    BY <2>2 DEF Queue
  <2>4. Queue' = Queue \ {running'}
    BY <2>3, RowsKept
  <2>5. \A p \in Runs : pending'[p] <= pending[p] /\ pending'[p] \in {0, pending[p]}
    BY <2>2, RowsKept DEF OnlyRows
  <2>6. Queue # {} => running' \in Queue /\ \A p \in Queue : pending[running'] <= pending[p]
    BY <1>1, <2>2, OldestOf
  <2> QED
    BY <1>4, <2>1, <2>2, <2>4, <2>5, <2>6
<1> QED
  BY <1>3, <1>4

\* The rows of the group stay in order when the queue loses a run that ends.
LEMMA GroupMoves ==
  ASSUME CPInv, NEW a \in Attempts, NEW t \in CallerTimes, Moves(a), Reconcile(RunOf(a), t),
         RunAccounting'
  PROVE  GroupInv'
<1> DEFINE run == RunOf(a)
<1> USE DEF CPInv, RunInv, GroupInv
<1>1. run \in Runs /\ GroupRuns \subseteq Runs
  BY PlanType DEF RunAccounting
<1>2. /\ plan' = plan
      /\ status' = [status EXCEPT ![run] = DesiredStatus(run)]
      /\ IF run \in GroupRuns /\ DesiredStatus(run) \in {"Completed", "Cancelled"}
         THEN ReleaseSlot(run) ELSE UNCHANGED <<running, pending>>
  BY DEF Reconcile
<1>3. /\ DesiredStatus(run) \in {"Queued", "InProgress", "Completed", "Cancelled"}
      /\ DesiredStatus(run) = "Cancelled" <=> status[run] = "Cancelled"
      /\ DesiredStatus(run) = "Completed" => \A b \in Jobs(run) : lifecycle'[b] \in Terminal
      /\ DesiredStatus(run) \in {"Queued", "InProgress"} => Open(run)
  BY Desired
<1> HIDE DEF run
<1>4. /\ status'[run] = DesiredStatus(run) /\ \A r \in Runs \ {run} : status'[r] = status[r]
  BY <1>1, <1>2 DEF RunAccounting, RunTypeOK
<1>5. /\ GroupRuns' = GroupRuns
      /\ \A b \in Attempts : RunOf(b)' = RunOf(b) /\ RunOf(b) \in Runs
  BY <1>2, PlanType DEF GroupRuns, RunOf, RunAccounting
<1>6. run' = run /\ \A r \in Runs \ {run} : Open(r)' <=> Open(r)
  BY <1>4, <1>5 DEF Open, run
<1>7. running \in Runs \cup {NoRun} /\ NoRun \notin Runs /\ Queue \subseteq Runs
  BY RunAssumption DEF RunTypeOK, RunAccounting, Queue
<1>8. CASE run \in GroupRuns /\ DesiredStatus(run) \in {"Completed", "Cancelled"}
  <2>1. /\ \A p \in Runs : pending'[p] <= pending[p] /\ pending'[p] \in {0, pending[p]}
        /\ Queue' = Queue \ {run, running'}
        /\ running # run => running' = running
        /\ running = run /\ Queue = {} => running' = NoRun
        /\ running = run /\ Queue # {} => running' \in Queue
    BY <1>1, <1>2, <1>8, Released
  <2>2. ~Open(run)'
    BY <1>4, <1>6, <1>8 DEF Open
  <2>3. running \notin Queue
    BY DEF SlotAccounting
  <2>4. QueueRows'
    <3>1. IsFiniteSet(Queue')
      BY <2>1, FS_Difference DEF QueueRows
    <3>2. \E n \in Nat : \A r \in Runs : pending'[r] <= n
      <4>1. PICK n \in Nat : \A r \in Runs : pending[r] <= n
        BY DEF QueueRows
      <4>2. \A r \in Runs : pending[r] \in Nat /\ pending'[r] \in Nat
        BY <2>1 DEF RunAccounting, RunTypeOK
      <4> QED
        BY <2>1, <4>1, <4>2
    <3> QED
      BY <1>5, <2>1, <3>1, <3>2 DEF QueueRows
  <2>5. SlotAccounting'
    <3>1. running' # NoRun => Open(running)'
      BY <1>6, <1>7, <2>1, <2>3 DEF SlotAccounting, QueueRows
    <3>2. running' = NoRun => Queue' = {}
      BY <1>1, <2>1, <1>7 DEF SlotAccounting
    <3>3. \A p, q \in Queue' : pending'[p] = pending'[q] => p = q
      <4> SUFFICES ASSUME NEW p \in Queue', NEW q \in Queue', pending'[p] = pending'[q] PROVE p = q
        OBVIOUS
      <4>1. p \in Queue /\ q \in Queue /\ p \in Runs /\ q \in Runs
        BY <2>1, <1>7
      <4>2. pending'[p] > 0 /\ pending'[q] > 0
        BY DEF Queue
      <4>3. pending'[p] = pending[p] /\ pending'[q] = pending[q]
        BY <2>1, <4>1, <4>2
      <4> QED
        BY <4>1, <4>3 DEF SlotAccounting
    <3>4. \A r \in GroupRuns' : Open(r)' <=> r = running' \/ r \in Queue'
      <4> SUFFICES ASSUME NEW r \in GroupRuns PROVE Open(r)' <=> r = running' \/ r \in Queue'
        BY <1>5
      <4>1. r \in Runs
        BY <1>1
      <4>2. CASE r = run
        BY <1>1, <1>6, <1>7, <2>1, <2>2, <2>3, <4>2
      <4>3. CASE r # run
        BY <1>6, <1>7, <2>1, <2>3, <4>1, <4>3 DEF SlotAccounting
      <4> QED
        BY <4>2, <4>3
    <3>5. running' \notin Queue'
      BY <2>1
    <3>6. Cardinality(Queue') <= MaxPending
      <4>1. IsFiniteSet(Queue) /\ Queue' \in SUBSET Queue
        BY <2>1 DEF QueueRows
      <4>2. IsFiniteSet(Queue') /\ Cardinality(Queue') <= Cardinality(Queue)
        BY <4>1, FS_Subset
      <4>3. Cardinality(Queue) \in Nat /\ Cardinality(Queue') \in Nat /\ MaxPending \in Nat
        BY <4>1, <4>2, FS_CardinalityType, RunAssumption
      <4> QED
        BY <4>2, <4>3 DEF SlotAccounting
    <3> QED
      BY <3>1, <3>2, <3>3, <3>4, <3>5, <3>6 DEF SlotAccounting
  <2>6. GroupExclusive'
    <3> SUFFICES ASSUME NEW b \in Attempts, lifecycle'[b] \in Live, RunOf(b) \in GroupRuns,
                        RunOf(b) # running'
                 PROVE  status'[RunOf(b)] = "Cancelled" /\ intent'[b] # "none"
      BY <1>5 DEF GroupExclusive
    <3>1. CASE RunOf(b) = run
      <4>1. b \in Jobs(run)
        BY <3>1 DEF Jobs
      <4>2. DesiredStatus(run) = "Cancelled"
        BY <1>3, <1>8, <4>1 DEF Live, Terminal
      <4>3. status'[RunOf(b)] = "Cancelled"
        BY <1>4, <3>1, <4>2
      <4>4. intent'[b] # "none"
        BY <1>5, <4>3 DEF RunAccounting, Live, Terminal
      <4> QED
        BY <4>3, <4>4
    <3>2. CASE RunOf(b) # run
      <4>1. lifecycle[b] \in Live /\ (intent[b] # "none" => intent'[b] # "none")
        BY <3>2 DEF Moves, run
      <4>2. RunOf(b) # running
        <5>1. ASSUME RunOf(b) = running PROVE FALSE
          BY <1>5, <2>1, <3>2, <5>1
        <5> QED
          BY <5>1
      <4>3. status[RunOf(b)] = "Cancelled" /\ intent[b] # "none"
        BY <4>1, <4>2 DEF GroupExclusive
      <4> QED
        BY <1>4, <1>5, <3>2, <4>1, <4>3
    <3> QED
      BY <3>1, <3>2
  <2> QED
    BY <2>4, <2>5, <2>6
<1>9. CASE ~(run \in GroupRuns /\ DesiredStatus(run) \in {"Completed", "Cancelled"})
  <2>1. running' = running /\ pending' = pending /\ Queue' = Queue
    BY <1>2, <1>9 DEF Queue
  <2>2. \A r \in GroupRuns : Open(r)' <=> Open(r)
    <3>1. run \in GroupRuns => Open(run) /\ Open(run)'
      BY <1>3, <1>4, <1>6, <1>9 DEF Open
    <3> QED
      BY <1>1, <1>6, <3>1
  <2>3. QueueRows'
    BY <1>5, <2>1 DEF QueueRows
  <2>4. SlotAccounting'
    BY <1>5, <2>1, <2>2 DEF SlotAccounting, QueueRows
  <2>5. GroupExclusive'
    <3> SUFFICES ASSUME NEW b \in Attempts, lifecycle'[b] \in Live, RunOf(b) \in GroupRuns,
                        RunOf(b) # running
                 PROVE  status'[RunOf(b)] = "Cancelled" /\ intent'[b] # "none"
      BY <1>5, <2>1 DEF GroupExclusive
    <3>1. lifecycle[b] \in Live
      BY DEF Moves, Runnable
    <3>2. status[RunOf(b)] = "Cancelled" /\ intent[b] # "none"
      BY <3>1 DEF GroupExclusive
    <3>3. intent'[b] # "none"
      BY <3>2 DEF Moves
    <3>4. status'[RunOf(b)] = "Cancelled"
      BY <1>3, <1>4, <1>5, <3>2
    <3> QED
      BY <3>3, <3>4
  <2> QED
    BY <2>3, <2>4, <2>5
<1> QED
  BY <1>8, <1>9

\* What the statuses and the attempts of an admission mean for the group: every
\* run but the new and the displaced keeps its place.
LEMMA GroupInsert ==
  ASSUME CPInv, NEW run \in GroupRuns, NEW t \in CallerTimes, NEW displaced \in SUBSET Runs,
         status[run] = "Absent", \A r \in displaced : Open(r), Insert(run, t, displaced),
         running' \in {running, run},
         running' = running => running # NoRun /\ running \notin displaced,
         running' = run => running = NoRun \/ running \in displaced,
         Queue' = (Queue \ displaced) \cup ({run} \ {running'}),
         \A p, q \in Queue' : pending'[p] = pending'[q] => p = q,
         Cardinality(Queue') <= MaxPending,
         \E n \in Nat : \A r \in Runs : pending'[r] <= n
  PROVE  GroupInv'
<1> USE DEF CPInv, RunInv, GroupInv
<1>1. GroupRuns \subseteq Runs /\ run \in Runs /\ NoRun \notin Runs
  BY PlanType, RunAssumption DEF RunAccounting
<1>2. run \notin displaced /\ run \notin Queue /\ run # running
  BY <1>1 DEF Open, SlotAccounting
<1>3. /\ plan' = plan
      /\ status'[run] = "Queued"
      /\ \A r \in displaced : status'[r] = "Cancelled"
      /\ \A r \in Runs \ ({run} \cup displaced) : status'[r] = status[r]
  BY <1>1, <1>2, InsertedRuns
<1>4. /\ GroupRuns' = GroupRuns
      /\ \A b \in Attempts : RunOf(b)' = RunOf(b) /\ RunOf(b) \in Runs
  BY <1>3, PlanType DEF GroupRuns, RunOf, RunAccounting
<1>5. Open(run)' /\ (\A r \in displaced : ~Open(r)')
      /\ \A r \in Runs \ ({run} \cup displaced) : Open(r)' <=> Open(r)
  BY <1>3 DEF Open
<1>6. Queue \subseteq GroupRuns /\ running \in GroupRuns \cup {NoRun} /\ running \notin Queue
  BY DEF QueueRows, SlotAccounting
<1>7. QueueRows'
  <2>1. IsFiniteSet(Queue \ displaced)
    BY FS_Difference DEF QueueRows
  <2>2. IsFiniteSet({run} \ {running'})
    BY FS_Singleton, FS_Difference
  <2>3. IsFiniteSet(Queue')
    BY <2>1, <2>2, FS_Union
  <2> QED
    BY <1>4, <1>6, <2>3 DEF QueueRows
<1>8. SlotAccounting'
  <2>1. running' # NoRun /\ running' \in GroupRuns /\ Open(running)'
    BY <1>1, <1>2, <1>5, <1>6 DEF SlotAccounting
  <2>2. running' \notin Queue'
    BY <1>2, <1>6
  <2>3. \A r \in GroupRuns : Open(r)' <=> r = running' \/ r \in Queue'
    <3> SUFFICES ASSUME NEW r \in GroupRuns PROVE Open(r)' <=> r = running' \/ r \in Queue'
      OBVIOUS
    <3>1. CASE r = run
      BY <1>5, <3>1
    <3>2. CASE r \in displaced
      BY <1>2, <1>5, <3>2
    <3>3. CASE r # run /\ r \notin displaced
      <4>1. Open(r)' <=> Open(r)
        BY <1>1, <1>5, <3>3
      <4>2. Open(r) <=> r = running \/ r \in Queue
        BY DEF SlotAccounting
      <4>3. r = running => running' = running
        BY <3>3, <1>1
      <4>4. r = running' => r = running
        BY <3>3
      <4> QED
        BY <3>3, <4>1, <4>2, <4>3, <4>4
    <3> QED
      BY <3>1, <3>2, <3>3
  <2> QED
    BY <1>4, <2>1, <2>2, <2>3 DEF SlotAccounting
<1>9. GroupExclusive'
  <2> SUFFICES ASSUME NEW b \in Attempts, lifecycle'[b] \in Live, RunOf(b) \in GroupRuns,
                      RunOf(b) # running'
               PROVE  status'[RunOf(b)] = "Cancelled" /\ intent'[b] # "none"
    BY <1>4 DEF GroupExclusive
  <2>1. RunOf(b) # run
    BY <1>1, InsertedAttempts DEF Live
  <2>2. CASE RunOf(b) \in displaced
    BY <1>1, <1>3, <2>2, InsertedAttempts DEF Live, Terminal
  <2>3. CASE RunOf(b) \notin displaced
    <3>1. lifecycle[b] \in Live /\ intent'[b] = intent[b]
      BY <1>1, <2>1, <2>3, InsertedAttempts
    <3>2. RunOf(b) # running
      BY <1>1, <1>4, <2>3
    <3>3. status[RunOf(b)] = "Cancelled" /\ intent[b] # "none"
      BY <3>1, <3>2 DEF GroupExclusive
    <3> QED
      BY <1>3, <1>4, <2>1, <2>3, <3>1, <3>3
  <2> QED
    BY <2>2, <2>3
<1> QED
  BY <1>7, <1>8, <1>9

\* An admission to the group keeps the invariant of the rows, and the order of
\* the queue: nobody is promoted, and who leaves the queue is cancelled.
LEMMA AdmittedGrouped ==
  ASSUME CPInv, NEW run \in Runs, NEW t \in CallerTimes, NEW policy, AdmitGrouped(run, t, policy)
  PROVE  /\ RunAccounting' /\ RunTimes' /\ GroupInv'
         /\ running' \notin Queue
         /\ \A p \in Queue \ Queue' : ~Open(p)'
<1> USE DEF CPInv, RunInv, GroupInv
<1>1. PICK displaced \in SUBSET Runs :
            /\ displaced \subseteq Queue \cup ({running} \ {NoRun})
            /\ run \in GroupRuns /\ status[run] = "Absent"
            /\ Insert(run, t, displaced)
            /\ \/ /\ running # NoRun /\ running' = running /\ running \notin displaced
                  /\ Cardinality(Queue \ displaced) < MaxPending
                  /\ pending' = [OnlyRows(Queue \ displaced) EXCEPT
                                    ![run] = Newest(Queue \ displaced) + 1]
               \/ /\ running = NoRun \/ running \in displaced
                  /\ running' = run
                  /\ pending' = OnlyRows(Queue \ displaced)
  BY GroupedAdmission
<1>2. \A r \in displaced : Open(r)
  BY <1>1 DEF SlotAccounting, QueueRows
<1> DEFINE rows == Queue \ displaced
<1>3. rows \in SUBSET Queue /\ IsFiniteSet(rows) /\ Queue \subseteq Runs
  BY FS_Difference DEF QueueRows, Queue
<1>4. Cardinality(rows) \in Nat /\ Cardinality(Queue) \in Nat /\ MaxPending \in Nat
      /\ Cardinality(rows) <= Cardinality(Queue)
  BY <1>3, FS_CardinalityType, FS_Subset, RunAssumption DEF QueueRows
<1>5. run \notin Queue /\ run # running
  BY <1>1 DEF SlotAccounting, Open, QueueRows
<1>6. running \in Runs \cup {NoRun} /\ NoRun \notin Runs
  BY RunAssumption DEF RunAccounting, RunTypeOK
<1> HIDE DEF rows
<1>7. CASE /\ running # NoRun /\ running' = running /\ running \notin displaced
           /\ Cardinality(rows) < MaxPending
           /\ pending' = [OnlyRows(rows) EXCEPT ![run] = Newest(rows) + 1]
  <2>1. /\ pending' \in [Runs -> Nat]
        /\ Queue' = rows \cup {run}
        /\ \A p \in rows : pending'[p] = pending[p] /\ pending[p] < pending'[run]
        /\ \E n \in Nat : \A r \in Runs : pending'[r] <= n
    BY <1>1, <1>3, <1>7, Enqueued
  <2>2. Cardinality(Queue') <= MaxPending
    <3>1. Cardinality(Queue') = Cardinality(rows) + 1
      BY <1>3, <1>5, <2>1, FS_AddElement
    <3> QED
      BY <1>4, <1>7, <3>1
  <2>3. \A p, q \in Queue' : pending'[p] = pending'[q] => p = q
    <3> SUFFICES ASSUME NEW p \in Queue', NEW q \in Queue', pending'[p] = pending'[q] PROVE p = q
      OBVIOUS
    <3>1. \A x \in rows : pending[x] \in Nat
      BY <1>3 DEF RunAccounting, RunTypeOK
    <3>2. \A x \in rows : pending'[x] # pending'[run]
      BY <1>3, <2>1, <3>1
    <3>3. \A x, y \in rows : pending[x] = pending[y] => x = y
      BY <1>3 DEF SlotAccounting
    <3> QED
      BY <2>1, <3>2, <3>3
  <2>4. RunAccounting' /\ RunTimes'
    BY <1>1, <1>2, <1>6, <1>7, <2>1, AccountingInsert
  <2>5. Queue' = (Queue \ displaced) \cup ({run} \ {running'})
    BY <1>5, <1>7, <2>1 DEF rows
  <2>6. GroupInv'
    <3> HIDE DEF GroupInv
    <3> QED
      BY <1>1, <1>2, <1>5, <1>7, <2>1, <2>2, <2>3, <2>5, GroupInsert
  <2>7. \A p \in Queue \ Queue' : ~Open(p)'
    BY <1>1, <1>2, <1>5, <2>5, InsertedRuns DEF Open
  <2> QED
    BY <1>7, <2>4, <2>6, <2>7 DEF SlotAccounting
<1>8. CASE /\ running = NoRun \/ running \in displaced
           /\ running' = run
           /\ pending' = OnlyRows(rows)
  <2>1. /\ pending' \in [Runs -> Nat]
        /\ {r \in Runs : pending'[r] > 0} = rows
        /\ \A p \in rows : pending'[p] = pending[p]
        /\ \A p \in Runs : pending'[p] <= pending[p]
    BY <1>3, <1>8, RowsKept DEF RunAccounting
  <2>2. Queue' = rows
    BY <2>1 DEF Queue
  <2>3. \A p, q \in Queue' : pending'[p] = pending'[q] => p = q
    BY <1>3, <2>1, <2>2 DEF SlotAccounting
  <2>4. Cardinality(Queue') <= MaxPending
    BY <1>4, <2>2 DEF SlotAccounting
  <2>5. \E n \in Nat : \A r \in Runs : pending'[r] <= n
    <3>1. PICK n \in Nat : \A r \in Runs : pending[r] <= n
      BY DEF QueueRows
    <3>2. \A r \in Runs : pending[r] \in Nat /\ pending'[r] \in Nat
      BY <2>1 DEF RunAccounting, RunTypeOK
    <3> QED
      BY <2>1, <3>1, <3>2
  <2>6. RunAccounting' /\ RunTimes'
    BY <1>1, <1>2, <1>6, <1>8, <2>1, AccountingInsert
  <2>7. Queue' = (Queue \ displaced) \cup ({run} \ {running'})
    BY <1>8, <2>2 DEF rows
  <2>8. GroupInv'
    <3> HIDE DEF GroupInv
    <3> QED
      BY <1>1, <1>2, <1>5, <1>8, <2>3, <2>4, <2>5, <2>7, GroupInsert
  <2>9. \A p \in Queue \ Queue' : ~Open(p)'
    BY <1>1, <1>2, <1>5, <2>7, InsertedRuns DEF Open
  <2> QED
    BY <1>5, <1>8, <2>6, <2>8, <2>9
<1> QED
  BY <1>1, <1>7, <1>8 DEF rows

\* The admission of a run outside the group does not touch the group.
LEMMA AdmittedUngrouped ==
  ASSUME CPInv, NEW run \in Runs, NEW t \in CallerTimes, AdmitUngrouped(run, t)
  PROVE  RunAccounting' /\ RunTimes' /\ GroupInv' /\ UNCHANGED <<running, pending>>
<1> USE DEF CPInv, RunInv, GroupInv
<1>1. /\ run \notin GroupRuns /\ status[run] = "Absent" /\ Insert(run, t, {})
      /\ running' = running /\ pending' = pending
  BY DEF AdmitUngrouped
<1>2. RunAccounting' /\ RunTimes'
  BY <1>1, AccountingInsert DEF RunAccounting, RunTypeOK
<1>3. plan' = plan /\ \A r \in Runs \ {run} : status'[r] = status[r]
  BY <1>1, InsertedRuns
<1>4. /\ GroupRuns' = GroupRuns /\ Queue' = Queue /\ GroupRuns \subseteq Runs
      /\ \A b \in Attempts : RunOf(b)' = RunOf(b) /\ RunOf(b) \in Runs
  BY <1>1, <1>3, PlanType DEF GroupRuns, RunOf, Queue, RunAccounting
<1>5. \A r \in GroupRuns : Open(r)' <=> Open(r)
  BY <1>1, <1>3, <1>4 DEF Open
<1>6. QueueRows' /\ SlotAccounting'
  BY <1>1, <1>4, <1>5 DEF QueueRows, SlotAccounting
<1>7. GroupExclusive'
  <2> SUFFICES ASSUME NEW b \in Attempts, lifecycle'[b] \in Live, RunOf(b) \in GroupRuns,
                      RunOf(b) # running
               PROVE  status'[RunOf(b)] = "Cancelled" /\ intent'[b] # "none"
    BY <1>1, <1>4 DEF GroupExclusive
  <2>1. lifecycle'[b] = lifecycle[b] /\ intent'[b] = intent[b]
    BY <1>1, InsertedAttempts
  <2> QED
    BY <1>1, <1>3, <1>4, <2>1 DEF GroupExclusive
<1> QED
  BY <1>1, <1>2, <1>6, <1>7

-----------------------------------------------------------------------------
(* The theorems.                                                           *)

\* Prerequisites that succeeded stay succeeded, and an attempt is handed out
\* only when all of its prerequisites have.
LEMMA DependenciesStep ==
  ASSUME CPInv, [CPNext]_allVars
  PROVE  DependenciesFirst'
<1> USE DEF CPInv, RunInv, LeaseInv
<1>1. plan' = plan
  <2>1. Unnoticed => plan' = plan
    BY DEF Unnoticed, runVars
  <2>2. \A run, t : Reconcile(run, t) => plan' = plan
    BY DEF Reconcile
  <2>3. \A run, t : AdmitUngrouped(run, t) => plan' = plan
    BY DEF AdmitUngrouped, Insert
  <2>4. \A run, t, policy : AdmitGrouped(run, t, policy) => plan' = plan
    BY DEF AdmitGrouped, Insert
  <2> QED
    BY CPSteps, <2>1, <2>2, <2>3, <2>4
<1>2. \A a \in Attempts : Prerequisites(a)' = Prerequisites(a) /\ Prerequisites(a) \subseteq Attempts
  BY <1>1, PlanType DEF Prerequisites, RunAccounting
<1>3. \A a \in Attempts : lifecycle[a] = "Succeeded" => lifecycle'[a] = "Succeeded"
  BY LeaseStepOf, LifecycleSteps DEF FencingInv, Live
<1>4. \A a \in Attempts : lifecycle'[a] \in Live => lifecycle[a] \in Live \/ Runnable(a)
  <2>1. CASE Unnoticed
    BY <2>1 DEF Unnoticed
  <2>2. ASSUME NEW a \in Attempts, Moves(a)
        PROVE  \A b \in Attempts : lifecycle'[b] \in Live => lifecycle[b] \in Live \/ Runnable(b)
    BY <2>2 DEF Moves
  <2>3. ASSUME NEW new, NEW t, NEW cancelledAt, Admit(new, t, cancelledAt), NEW b \in Attempts,
               lifecycle'[b] \in Live
        PROVE  lifecycle[b] \in Live
    BY <2>3 DEF Admit, Live
  <2>4. ASSUME NEW run, NEW t, NEW displaced, Insert(run, t, displaced), NEW b \in Attempts,
               lifecycle'[b] \in Live
        PROVE  lifecycle[b] \in Live
    BY <2>3, <2>4 DEF Insert
  <2>5. ASSUME NEW run \in Runs, NEW t \in CallerTimes,
               AdmitUngrouped(run, t) \/ \E policy \in Policies : AdmitGrouped(run, t, policy)
        PROVE  \E displaced : Insert(run, t, displaced)
    BY <2>5 DEF AdmitUngrouped, AdmitGrouped
  <2> QED
    BY <2>1, <2>2, <2>4, <2>5, CPSteps
<1> QED
  BY <1>2, <1>3, <1>4 DEF DependenciesFirst, Runnable

\* Every transaction keeps the inductive invariant.
LEMMA CPInvStep ==
  ASSUME CPInv, [CPNext]_allVars
  PROVE  CPInv'
<1>1. LeaseInv'
  BY LeaseStepOf, TypeStep, LeasedRowsStep, SlotsDistinctStep, BeliefsBackedStep, CancellationStep
     DEF CPInv, LeaseInv, FencingInv
<1>2. RunAccounting' /\ RunTimes' /\ GroupInv'
  <2>1. ASSUME Unnoticed PROVE RunAccounting' /\ RunTimes' /\ GroupInv'
    <3> USE DEF CPInv, RunInv, GroupInv
    <3>1. UNCHANGED <<plan, status, updatedAt, running, pending>>
      BY <2>1 DEF Unnoticed, runVars
    <3>2. /\ \A a \in Attempts : RunOf(a)' = RunOf(a)
          /\ \A r \in Runs : Jobs(r)' = Jobs(r) /\ (Open(r)' <=> Open(r))
          /\ Queue' = Queue /\ GroupRuns' = GroupRuns
      BY <3>1 DEF RunOf, Jobs, Open, Queue, GroupRuns
    <3>3. \A a \in Attempts : RunOf(a) \in Runs
      BY PlanType DEF RunAccounting
    <3>4. /\ \A a \in Attempts : \/ lifecycle'[a] = lifecycle[a]
                                 \/ {lifecycle[a], lifecycle'[a]} \subseteq Live
          /\ \A a \in Attempts : intent[a] # "none" => intent'[a] # "none"
      BY <2>1 DEF Unnoticed
    <3>5. RunAccounting'
      <4>1. RunTypeOK'
        BY <3>1 DEF RunTypeOK, RunAccounting
      <4>2. ASSUME NEW a \in Attempts
            PROVE  /\ lifecycle'[a] = "Absent" <=> lifecycle[a] = "Absent"
                   /\ lifecycle'[a] \in Terminal <=> lifecycle[a] \in Terminal
                   /\ lifecycle'[a] = "Queued" <=> lifecycle[a] = "Queued"
        BY <3>4 DEF Live, Terminal
      <4>3. \A r \in Runs : Jobs(r) \subseteq Attempts
        BY DEF Jobs
      <4> QED
        BY <3>1, <3>2, <3>3, <3>4, <4>1, <4>2, <4>3 DEF RunAccounting
    <3>6. RunTimes'
      BY <2>1, <3>1, LeaseAssumption, <1>1 DEF RunTimes, Unnoticed, LeaseInv, TypeOK
    <3>7. QueueRows'
      BY <3>1, <3>2 DEF QueueRows
    <3>8. SlotAccounting'
      <4>1. Open(running)' <=> Open(running)
        BY <3>1 DEF Open
      <4>2. GroupRuns \subseteq Runs
        BY PlanType DEF RunAccounting
      <4> QED
        BY <3>1, <3>2, <4>1, <4>2 DEF SlotAccounting
    <3>9. GroupExclusive'
      BY <3>1, <3>2, <3>3, <3>4 DEF GroupExclusive
    <3> QED
      BY <3>5, <3>6, <3>7, <3>8, <3>9
  <2>2. ASSUME NEW a \in Attempts, NEW t \in CallerTimes, Moves(a), Reconcile(RunOf(a), t)
        PROVE  RunAccounting' /\ RunTimes' /\ GroupInv'
    BY <2>2, AccountingMoves, GroupMoves
  <2> QED
    BY <2>1, <2>2, CPSteps, AdmittedUngrouped, AdmittedGrouped
<1>3. DependenciesFirst'
  BY DependenciesStep
<1> QED
  BY <1>1, <1>2, <1>3 DEF CPInv, RunInv

\* The inductive invariant of the control plane.
THEOREM ControlPlaneInvariant == CPSpec => []CPInv
<1>1. CPInit => CPInv
  <2> SUFFICES ASSUME CPInit PROVE CPInv
    OBVIOUS
  <2>1. LeaseInv
    BY FencingInit DEF CPInit, LeaseInv, Init, CancellationSticks
  <2>2. Queue = {} /\ RunTypeOK /\ \A run \in Runs : ~Open(run) /\ status[run] = "Absent"
    BY DEF CPInit, Queue, RunTypeOK, Statuses, Open
  <2>3. \A a \in Attempts : lifecycle[a] = "Absent"
    BY DEF CPInit, Init
  <2>4. RunAccounting
    BY <2>2, <2>3, PlanType DEF RunAccounting
  <2>5. RunTimes
    BY LeaseAssumption DEF CPInit, Init, RunTimes
  <2>6. DependenciesFirst /\ GroupExclusive
    BY <2>3 DEF DependenciesFirst, GroupExclusive, Live
  <2>7. QueueRows
    BY <2>2, FS_EmptySet DEF QueueRows, CPInit
  <2>8. SlotAccounting
    <3>1. GroupRuns \subseteq Runs /\ NoRun \notin Runs /\ MaxPending \in Nat
      BY <2>2, PlanType, RunAssumption
    <3>2. running = NoRun /\ Cardinality(Queue) = 0
      BY <2>2, FS_EmptySet DEF CPInit
    <3> QED
      BY <2>2, <3>1, <3>2 DEF SlotAccounting
  <2> QED
    BY <2>1, <2>4, <2>5, <2>6, <2>7, <2>8 DEF CPInv, RunInv, GroupInv
<1>2. CPInv /\ [CPNext]_allVars => CPInv'
  BY CPInvStep
<1> QED
  BY <1>1, <1>2, PTL DEF CPSpec

\* A group executes one run at a time, apart from the cancelled tail of a run
\* that was preempted.
THEOREM GroupsExclusive == CPSpec => []GroupExclusive
<1>1. CPInv => GroupExclusive
  BY DEF CPInv, GroupInv
<1> QED
  BY <1>1, ControlPlaneInvariant, PTL

\* No transaction loses a wakeup of the group: the slot is vacant only when
\* nothing waits, and every open run of the group holds it or waits.
THEOREM SlotsAccounted == CPSpec => []SlotAccounting
<1>1. CPInv => SlotAccounting
  BY DEF CPInv, GroupInv
<1> QED
  BY <1>1, ControlPlaneInvariant, PTL

\* After every transaction the status of a run agrees with its attempts.
THEOREM RunsAccounted == CPSpec => []RunAccounting
<1>1. CPInv => RunAccounting
  BY DEF CPInv, RunInv
<1> QED
  BY <1>1, ControlPlaneInvariant, PTL

\* Work starts only after everything it needs succeeded.
THEOREM DependenciesKept == CPSpec => []DependenciesFirst
<1>1. CPInv => DependenciesFirst
  BY DEF CPInv, RunInv
<1> QED
  BY <1>1, ControlPlaneInvariant, PTL

\* The queue of the group is first in, first out.
THEOREM QueueFair == CPSpec => FairQueue
<1>1. ASSUME CPInv, [CPNext]_allVars
      PROVE  /\ running' # running /\ running' \in Queue =>
                   \A p \in Queue : pending[p] < pending[running'] => ~Open(p)'
             /\ \A run \in Queue \ Queue' : running' = run \/ ~Open(run)'
  <2> USE DEF CPInv, RunInv, GroupInv
  <2>1. ASSUME UNCHANGED <<running, pending>>
        PROVE  running' = running /\ Queue' = Queue
    BY <2>1 DEF Queue
  <2>2. ASSUME NEW a \in Attempts, NEW t \in CallerTimes, Moves(a), Reconcile(RunOf(a), t),
               ReleaseSlot(RunOf(a)), ~Open(RunOf(a))'
        PROVE  /\ running' # running /\ running' \in Queue =>
                     \A p \in Queue : pending[p] < pending[running'] => ~Open(p)'
               /\ \A run \in Queue \ Queue' : running' = run \/ ~Open(run)'
    <3>1. RunOf(a) \in Runs /\ plan' = plan /\ RunOf(a)' = RunOf(a)
      BY <1>1, <2>2, PlanType DEF RunAccounting, Reconcile, RunOf
    <3>2. /\ Queue' = Queue \ {RunOf(a), running'}
          /\ running # RunOf(a) => running' = running
          /\ running = RunOf(a) /\ Queue # {} =>
               running' \in Queue /\ \A p \in Queue : pending[running'] <= pending[p]
      BY <1>1, <2>2, <3>1, Released
    <3>3. \A p \in Queue : pending[p] \in Nat
      BY <1>1 DEF Queue, RunAccounting, RunTypeOK
    <3>4. ASSUME running' # running, running' \in Queue, NEW p \in Queue
          PROVE  ~(pending[p] < pending[running'])
      BY <3>2, <3>3, <3>4
    <3> QED
      BY <2>2, <3>1, <3>2, <3>4
  <2>3. ASSUME NEW a \in Attempts, NEW t \in CallerTimes, Moves(a), Reconcile(RunOf(a), t)
        PROVE  \/ UNCHANGED <<running, pending>>
               \/ ReleaseSlot(RunOf(a)) /\ ~Open(RunOf(a))'
    <3>1. RunOf(a) \in Runs /\ RunOf(a)' = RunOf(a)
      BY <1>1, <2>3, PlanType DEF RunAccounting, Reconcile, RunOf
    <3>2. status'[RunOf(a)] = DesiredStatus(RunOf(a))
      BY <1>1, <2>3, <3>1 DEF Reconcile, RunAccounting, RunTypeOK
    <3> QED
      BY <2>3, <3>1, <3>2 DEF Reconcile, Open
  <2>4. ASSUME NEW run \in Runs, NEW t \in CallerTimes, AdmitUngrouped(run, t)
        PROVE  UNCHANGED <<running, pending>>
    BY <2>4 DEF AdmitUngrouped
  <2>5. ASSUME Unnoticed PROVE UNCHANGED <<running, pending>>
    BY <2>5 DEF Unnoticed, runVars
  <2> HIDE DEF CPInv, RunInv, GroupInv
  <2> QED
    BY <1>1, <2>1, <2>2, <2>3, <2>4, <2>5, CPSteps, AdmittedGrouped
<1>2. CPInv /\ [CPNext]_allVars =>
         [/\ running' # running /\ running' \in Queue =>
                \A p \in Queue : pending[p] < pending[running'] => ~Open(p)'
          /\ \A run \in Queue \ Queue' : running' = run \/ ~Open(run)']_allVars
  BY <1>1
<1> QED
  BY <1>2, ControlPlaneInvariant, PTL DEF CPSpec, FairQueue

\* Composition: the control plane is the lease protocol with more rows, so what
\* is proved of the leases holds in it.
THEOREM LeasesKept == CPSpec => Init /\ [][Next]_vars
<1>1. CPInit => Init
  BY DEF CPInit
<1>2. CPInv /\ [CPNext]_allVars => [Next]_vars
  BY LeaseStepOf
<1> QED
  BY <1>1, <1>2, ControlPlaneInvariant, PTL DEF CPSpec
=============================================================================
