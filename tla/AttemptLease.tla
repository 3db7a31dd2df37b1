---------------------------- MODULE AttemptLease ----------------------------
(***************************************************************************)
(* The durable lease protocol between the Automata control plane and its   *)
(* runners: runner sessions and their epochs, the claim of a queued job    *)
(* attempt, the lease offer, the runner's response, the two-transaction    *)
(* heartbeat that renews a lease, the terminal result, cancellation,       *)
(* preemption by a newer run, and the maintenance pass that reaps expired  *)
(* leases and stale sessions.                                              *)
(*                                                                         *)
(* Every action is one PostgreSQL transaction of automata-ci-store-postgres *)
(* (rows are locked FOR UPDATE, so a transaction is atomic); a transaction *)
(* that returns an error rolls back and is no step at all.  Replays of an  *)
(* operation whose receipt is already committed change nothing and are the *)
(* stuttering steps.  The workflow-run and concurrency-group half of the   *)
(* same transactions is added by module ControlPlane.                      *)
(*                                                                         *)
(* A lease id is fresh for every claim and so is the fencing token, so the *)
(* pair is represented by the token alone.  A runner session is identified *)
(* by the runner and its session epoch; the runner generation is constant. *)
(***************************************************************************)
EXTENDS Integers, FiniteSets

CONSTANTS
    Attempts,          \* job attempts
    Runners,           \* enrolled runners
    Slots,             \* the slot ordinals every runner advertises
    NoLease,           \* the NULL lease columns of an attempt row
    DesiredStates,     \* the desired states an operator may choose
    LeaseDuration,     \* configured lease duration, in clock ticks
    SessionTimeout,    \* heartbeat age at which a session is stale
    Reports,           \* the lifecycles a heartbeat may report
    Conclusions,       \* the terminal lifecycles a runner may report
    MaxLeaseFailures,  \* maximum_lease_failures of the maintenance pass
    MaxSkew,           \* bound: caller clock distance from the database clock
    MaxTime,           \* bound: last clock value explored
    MaxToken,          \* bound: fencing tokens (the FencingTokenExhausted error)
    MaxEpoch,          \* bound: session epochs (the SessionEpochExhausted error)
    MaxRenewals        \* bound: heartbeats in flight between their transactions

Live     == {"Leased", "Preparing", "Running", "Cancelling", "Finalizing"}
Terminal == {"Succeeded", "Failed", "Cancelled", "TimedOut", "Skipped", "Lost"}

\* "Absent" is an attempt whose row has not been inserted yet.
Lifecycles == {"Absent", "Queued"} \cup Live \cup Terminal

\* JobLifecycle::validate_transition
ValidTransition(from, to) ==
    \/ from = "Queued"     /\ to \in {"Leased", "Cancelled", "Skipped"}
    \/ from = "Leased"     /\ to \in {"Preparing", "Queued", "Cancelling", "Failed", "Lost"}
    \/ from = "Preparing"  /\ to \in {"Queued", "Running", "Cancelling", "Failed",
                                      "TimedOut", "Skipped", "Lost"}
    \/ from = "Running"    /\ to \in {"Queued", "Cancelling", "Finalizing", "TimedOut", "Lost"}
    \/ from = "Cancelling" /\ to \in {"Finalizing", "Cancelled", "Failed", "TimedOut", "Lost"}
    \/ from = "Finalizing" /\ to \in {"Succeeded", "Failed", "Cancelled", "TimedOut", "Lost"}

\* terminal_lifecycle: the lifecycles of the five conclusions of a result
TerminalLifecycles == {"Succeeded", "Failed", "Cancelled", "TimedOut", "Skipped"}

Authorities == {"none", "runner", "server_cancellation", "server_lease_expiry"}

LeaseRows == [runner : Runners, epoch : Nat, slot : Slots,
              issuedAt : Int, expiresAt : Int]

Claims   == [attempt : Attempts, token : Nat, runner : Runners, epoch : Nat,
             slot : Slots, expiresAt : Int]
Renewals == [claim : Claims, expiresAt : Int, capped : BOOLEAN, reported : Live]
Cancels  == [attempt : Attempts, runner : Runners, epoch : Nat, requestedAt : Int]
Beliefs  == [attempt : Attempts, token : Nat, runner : Runners, slot : Slots,
             until : Int]

ASSUME LeaseAssumption ==
    /\ LeaseDuration \in Nat \ {0}
    /\ MaxLeaseFailures \in Nat \ {0}
    /\ SessionTimeout \in Nat
    /\ MaxSkew \in Nat /\ MaxTime \in Nat /\ MaxToken \in Nat
    /\ MaxEpoch \in Nat /\ MaxRenewals \in Nat
    /\ DesiredStates \subseteq {"Active", "Draining", "Disabled"}
    /\ Reports \subseteq Live
    /\ Conclusions \subseteq TerminalLifecycles
    /\ NoLease \notin LeaseRows
    /\ NoLease \notin Runners \X Slots

VARIABLES
    now,        \* the database clock (clock_timestamp())
    epoch,      \* runners.session_epoch
    live,       \* epochs of the runner's sessions with no disconnected_at_ms
    online,     \* runners.status = 'online'
    desired,    \* runners.desired_state
    heartbeat,  \* heartbeat_at_ms of the runner's connected session, else 0
    lifecycle,  \* job_attempts.lifecycle
    token,      \* job_attempts.fencing_token
    lease,      \* the lease and assignment columns of job_attempts
    failures,   \* job_attempts.lease_failures
    changedAt,  \* job_attempts.changed_at_ms
    intent,     \* attempt_cancellation_intents: none, open or acknowledged
    terminal,   \* terminal_authority of the attempt_terminal_results row
    claims,     \* claims of connected sessions whose offer is not published
    offers,     \* runner_lease_offer_publications
    renewals,   \* authorized renewals whose commit transaction has not run
    cancels,    \* CancelJob commands in the outboxes of the sessions
    held        \* ghost: until when a runner may believe it holds a lease

sessionVars == <<epoch, live, online, desired, heartbeat>>
attemptVars == <<lifecycle, token, lease, failures, changedAt, intent, terminal>>
messageVars == <<claims, offers, renewals, cancels, held>>
vars        == <<now, sessionVars, attemptVars, messageVars>>

Init ==
    /\ now = 0
    /\ epoch = [r \in Runners |-> 0]
    /\ live = [r \in Runners |-> {}]
    /\ online = [r \in Runners |-> FALSE]
    /\ desired = [r \in Runners |-> "Active"]
    /\ heartbeat = [r \in Runners |-> 0]
    /\ lifecycle = [a \in Attempts |-> "Absent"]
    /\ token = [a \in Attempts |-> 0]
    /\ lease = [a \in Attempts |-> NoLease]
    /\ failures = [a \in Attempts |-> 0]
    /\ changedAt = [a \in Attempts |-> 0]
    /\ intent = [a \in Attempts |-> "none"]
    /\ terminal = [a \in Attempts |-> "none"]
    /\ claims = {}
    /\ offers = {}
    /\ renewals = {}
    /\ cancels = {}
    /\ held = {}

-----------------------------------------------------------------------------
(* Clocks.                                                                 *)

\* The readings a caller outside the database may supply.
CallerTimes == {t \in 0 .. MaxTime : now - MaxSkew <= t /\ t <= now + MaxSkew}

\* Time passes.  A runner stops relying on a lease that has run out, and a
\* heartbeat whose commit did not run before its own expiry can only fail.
Tick ==
    /\ now < MaxTime
    /\ now' = now + 1
    /\ held' = {h \in held : now + 1 < h.until}
    /\ renewals' = {n \in renewals : now + 1 < n.expiresAt}
    /\ UNCHANGED <<sessionVars, attemptVars, claims, offers, cancels>>

-----------------------------------------------------------------------------
(* Runner sessions.                                                        *)

\* Mutant: the session row is not looked at, only the epoch of the runner.
LiveRoutingByEpoch(r, e) == epoch[r] = e /\ desired[r] # "Disabled"

\* lock_live_routing + require_online
LiveRouting(r, e) ==
    /\ epoch[r] = e
    /\ e \in live[r]
    /\ desired[r] # "Disabled"
    /\ online[r]

ClaimsWithout(r) == {c \in claims : c.runner # r}

\* update_session_liveness: the heartbeat moves and the cancellations whose
\* command the acknowledged cursor covers are acknowledged.
Acknowledgeable(r, e) ==
    {c.attempt : c \in {k \in cancels : k.runner = r /\ k.epoch = e /\ k.requestedAt <= now}}

\* Mutant: no path closes a delivered cancellation.
AcknowledgeNothing(acked) == intent

Acknowledge(acked) ==
    [a \in Attempts |-> IF a \in acked /\ intent[a] = "open" THEN "acknowledged" ELSE intent[a]]

\* Mutant: the previous sessions of the runner stay connected.
OpenSessionBeside(r) ==
    /\ desired[r] = "Active"
    /\ epoch[r] < MaxEpoch
    /\ epoch' = [epoch EXCEPT ![r] = @ + 1]
    /\ live' = [live EXCEPT ![r] = @ \cup {epoch[r] + 1}]
    /\ online' = [online EXCEPT ![r] = TRUE]
    /\ heartbeat' = [heartbeat EXCEPT ![r] = now]
    /\ claims' = ClaimsWithout(r)
    /\ UNCHANGED <<now, desired, attemptVars, offers, renewals, cancels, held>>

OpenSession(r) ==
    /\ desired[r] = "Active"
    /\ epoch[r] < MaxEpoch
    /\ epoch' = [epoch EXCEPT ![r] = @ + 1]
    /\ live' = [live EXCEPT ![r] = {epoch[r] + 1}]
    /\ online' = [online EXCEPT ![r] = TRUE]
    /\ heartbeat' = [heartbeat EXCEPT ![r] = now]
    /\ claims' = ClaimsWithout(r)
    /\ UNCHANGED <<now, desired, attemptVars, offers, renewals, cancels, held>>

Disconnect(r, e) ==
    /\ live' = [live EXCEPT ![r] = @ \ {e}]
    /\ online' = [online EXCEPT ![r] = FALSE]
    /\ heartbeat' = [heartbeat EXCEPT ![r] = 0]
    /\ claims' = ClaimsWithout(r)
    /\ UNCHANGED <<now, epoch, desired, attemptVars, offers, renewals, cancels, held>>

CloseSession(r, e) ==
    /\ epoch[r] = e
    /\ e > 0
    /\ Disconnect(r, e)

CloseStaleSession(r, e) ==
    /\ e \in live[r]
    /\ heartbeat[r] <= now - SessionTimeout
    /\ epoch[r] = e
    /\ Disconnect(r, e)

\* heartbeat_session, resume_session and commit_command_acknowledgement
SessionHeartbeat(r, e, acked) ==
    /\ LiveRouting(r, e)
    /\ acked \subseteq Acknowledgeable(r, e)
    /\ heartbeat' = [heartbeat EXCEPT ![r] = now]
    /\ intent' = Acknowledge(acked)
    /\ UNCHANGED <<now, epoch, live, online, desired, lifecycle, token, lease, failures,
                   changedAt, terminal, messageVars>>

\* The operator's change of runners.desired_state.
SetDesired(r, d) ==
    /\ desired[r] # d
    /\ desired' = [desired EXCEPT ![r] = d]
    /\ UNCHANGED <<now, epoch, live, online, heartbeat, attemptVars, messageVars>>

-----------------------------------------------------------------------------
(* From a queued attempt to an accepted lease.                             *)

\* Mutant: the lease columns are compared with the attempt alone.
FencedByAttempt(c) == lifecycle[c.attempt] \in Live /\ lease[c.attempt] # NoLease

\* The exact fence every runner-facing transaction compares: lease, token and
\* assignment are those of the credential, and the lifecycle is leased.
Fenced(c) ==
    /\ lifecycle[c.attempt] \in Live
    /\ lease[c.attempt] # NoLease
    /\ token[c.attempt] = c.token
    /\ lease[c.attempt].runner = c.runner
    /\ lease[c.attempt].epoch = c.epoch
    /\ lease[c.attempt].slot = c.slot

Occupied(r, s) ==
    \E a \in Attempts : lease[a] # NoLease /\ lease[a].runner = r /\ lease[a].slot = s

\* try_claim and evaluate_claim
Claim(a, r, e, s) ==
    /\ LiveRouting(r, e)
    /\ desired[r] = "Active"
    /\ ~Occupied(r, s)
    /\ lifecycle[a] = "Queued"
    /\ intent[a] = "none"
    /\ changedAt[a] <= now
    /\ token[a] < MaxToken
    /\ now + LeaseDuration <= MaxTime
    /\ lifecycle' = [lifecycle EXCEPT ![a] = "Leased"]
    /\ token' = [token EXCEPT ![a] = @ + 1]
    /\ lease' = [lease EXCEPT ![a] = [runner |-> r, epoch |-> e, slot |-> s, issuedAt |-> now,
                                      expiresAt |-> now + LeaseDuration]]
    /\ changedAt' = [changedAt EXCEPT ![a] = now]
    /\ claims' = claims \cup {[attempt |-> a, token |-> token[a] + 1, runner |-> r,
                               epoch |-> e, slot |-> s, expiresAt |-> now + LeaseDuration]}
    /\ UNCHANGED <<now, sessionVars, failures, intent, terminal, offers, renewals, cancels, held>>

Belief(c, until) == [attempt |-> c.attempt, token |-> c.token, runner |-> c.runner,
                     slot |-> c.slot, until |-> until]

\* held with one more belief, which replaces a shorter one in the same lease
Believing(b) ==
    {h \in held : h.attempt # b.attempt \/ h.token # b.token \/ h.until > b.until} \cup {b}

\* publish_lease_offer: only a published offer tells a runner about a lease.
\* The offer is valid until the expiry of the claim.
PublishOffer(c) ==
    /\ c \in claims
    /\ LiveRouting(c.runner, c.epoch)
    /\ desired[c.runner] = "Active"
    /\ Fenced(c)
    /\ lease[c.attempt].expiresAt >= c.expiresAt
    /\ now < c.expiresAt
    /\ claims' = claims \ {c}
    /\ offers' = offers \cup {c}
    /\ held' = Believing(Belief(c, c.expiresAt))
    /\ UNCHANGED <<now, sessionVars, attemptVars, renewals, cancels>>

\* verify_exact_published_offer, then update_session_liveness
Responding(o, acked) ==
    /\ o \in offers
    /\ LiveRouting(o.runner, o.epoch)
    /\ Fenced(o)
    /\ lease[o.attempt].expiresAt >= o.expiresAt
    /\ lifecycle[o.attempt] = "Leased"
    /\ now < lease[o.attempt].expiresAt
    /\ changedAt[o.attempt] <= now
    /\ acked \subseteq Acknowledgeable(o.runner, o.epoch)
    /\ heartbeat' = [heartbeat EXCEPT ![o.runner] = now]
    /\ intent' = Acknowledge(acked)
    /\ changedAt' = [changedAt EXCEPT ![o.attempt] = now]

\* The runner that gives a lease back no longer relies on it.
Surrendered(c) == {h \in held : h.attempt # c.attempt \/ h.token # c.token}

AcceptOffer(o, acked) ==
    /\ Responding(o, acked)
    /\ now < o.expiresAt
    /\ lifecycle' = [lifecycle EXCEPT ![o.attempt] = "Preparing"]
    /\ UNCHANGED <<now, epoch, live, online, desired, token, lease, failures, terminal, messageVars>>

\* A response that gives the lease up returns the attempt to the queue, or
\* fails it when the runner calls the job invalid.
DeclineOffer(o, acked, next) ==
    /\ Responding(o, acked)
    /\ next \in {"Queued", "Failed"}
    /\ lifecycle' = [lifecycle EXCEPT ![o.attempt] = next]
    /\ lease' = [lease EXCEPT ![o.attempt] = NoLease]
    /\ failures' = [failures EXCEPT ![o.attempt] = @ + IF next = "Queued" THEN 1 ELSE 0]
    /\ held' = Surrendered(o)
    /\ UNCHANGED <<now, epoch, live, online, desired, token, terminal, claims, offers, renewals, cancels>>

-----------------------------------------------------------------------------
(* Heartbeats: one transaction authorizes the new expiry, a later one      *)
(* commits it together with the lifecycle the runner reported.             *)

\* authorize_lease_renewal.  The runtime authority of the job may cap the
\* expiry below the configured duration.
AuthorizeRenewal(o, duration, reported) ==
    /\ o \in offers
    /\ LiveRouting(o.runner, o.epoch)
    /\ Fenced(o)
    /\ now < lease[o.attempt].expiresAt
    /\ reported = "Finalizing" => duration = LeaseDuration
    /\ Cardinality(renewals) < MaxRenewals
    /\ now + duration <= MaxTime
    /\ renewals' = renewals \cup {[claim |-> o, expiresAt |-> now + duration,
                                   capped |-> duration < LeaseDuration,
                                   reported |-> reported]}
    /\ UNCHANGED <<now, sessionVars, attemptVars, claims, offers, cancels, held>>

\* Mutant: a capped renewal that arrives late may also shorten the lease.
RefreshesBelowCeiling(n) == n.capped /\ n.expiresAt <= lease[n.claim.attempt].expiresAt

\* refreshes_exact_ceiling: nothing is left to extend under the ceiling.
RefreshesCeiling(n) == n.capped /\ n.expiresAt = lease[n.claim.attempt].expiresAt

\* require_live_renewal_attempt, commit_reported_lifecycle and
\* commit_database_issued_lease_renewal in one transaction
CommitHeartbeat(n, acked) ==
    LET a == n.claim.attempt
        quiet == lifecycle[a] = n.reported /\ RefreshesCeiling(n)
    IN  /\ n \in renewals
        /\ LiveRouting(n.claim.runner, n.claim.epoch)
        /\ Fenced(n.claim)
        /\ now < lease[a].expiresAt
        /\ now < n.expiresAt
        /\ lifecycle[a] = n.reported \/ ValidTransition(lifecycle[a], n.reported)
        /\ n.expiresAt > lease[a].expiresAt \/ RefreshesCeiling(n)
        /\ quiet \/ changedAt[a] <= now
        /\ acked \subseteq Acknowledgeable(n.claim.runner, n.claim.epoch)
        /\ heartbeat' = [heartbeat EXCEPT ![n.claim.runner] = now]
        /\ intent' = Acknowledge(acked)
        /\ lifecycle' = [lifecycle EXCEPT ![a] = n.reported]
        /\ lease' = [lease EXCEPT ![a].expiresAt = n.expiresAt]
        /\ changedAt' = [changedAt EXCEPT ![a] = IF quiet THEN @ ELSE now]
        /\ renewals' = renewals \ {n}
        /\ held' = Believing(Belief(n.claim, n.expiresAt))
        /\ UNCHANGED <<now, epoch, live, online, desired, token, failures, terminal,
                       claims, offers, cancels>>

-----------------------------------------------------------------------------
(* Conclusions.                                                            *)

\* commit_runner_terminal_result.  The caller's committed_at must lie between
\* changed_at and the expiry as the database time does; any reading that is
\* accepted has the same effect.
CommitTerminalResult(o, conclusion) ==
    LET a == o.attempt
    IN  /\ o \in offers
        /\ LiveRouting(o.runner, o.epoch)
        /\ Fenced(o)
        /\ now < lease[a].expiresAt
        /\ changedAt[a] <= now
        /\ terminal[a] = "none"
        /\ terminal' = [terminal EXCEPT ![a] = "runner"]
        /\ lifecycle' = [lifecycle EXCEPT ![a] = conclusion]
        /\ lease' = [lease EXCEPT ![a] = NoLease]
        /\ changedAt' = [changedAt EXCEPT ![a] = now]
        /\ intent' = Acknowledge(IF \A c \in cancels : c.attempt = a => c.requestedAt <= now
                                  THEN {a} ELSE {})
        /\ held' = Surrendered(o)
        /\ UNCHANGED <<now, sessionVars, token, failures, claims, offers, renewals, cancels>>

\* conclude_blocked: a queued attempt whose prerequisites cannot succeed.
SkipBlocked(a, t) ==
    /\ lifecycle[a] = "Queued"
    /\ t >= changedAt[a]
    /\ intent[a] = "none"
    /\ lifecycle' = [lifecycle EXCEPT ![a] = "Skipped"]
    /\ changedAt' = [changedAt EXCEPT ![a] = t]
    /\ UNCHANGED <<now, sessionVars, token, lease, failures, intent, terminal, messageVars>>

CancelCommand(a, t) == [attempt |-> a, runner |-> lease[a].runner, epoch |-> lease[a].epoch,
                        requestedAt |-> t]

\* request_cancellation with a fresh intent, at the caller's time t
RequestCancellation(a, t) ==
    /\ intent[a] = "none"
    /\ lifecycle[a] # "Absent"
    /\ t >= changedAt[a]
    /\ lifecycle[a] \in Live => /\ LiveRouting(lease[a].runner, lease[a].epoch)
                                /\ t < lease[a].expiresAt
    /\ intent' = [intent EXCEPT ![a] = "open"]
    /\ cancels' = cancels \cup (IF lifecycle[a] \in Live THEN {CancelCommand(a, t)} ELSE {})
    /\ terminal' = [terminal EXCEPT ![a] = IF lifecycle[a] = "Queued"
                                           THEN "server_cancellation" ELSE @]
    /\ lifecycle' = [lifecycle EXCEPT ![a] = CASE @ = "Queued" -> "Cancelled"
                                               [] @ \in Live -> "Cancelling"
                                               [] OTHER -> @]
    /\ changedAt' = [changedAt EXCEPT ![a] =
                         IF lifecycle[a] \in {"Cancelling"} \cup Terminal THEN @ ELSE t]
    /\ UNCHANGED <<now, sessionVars, token, lease, failures, claims, offers, renewals, held>>

\* Mutant: the earlier of two times.
LaterSwapped(s, t) == IF s > t THEN t ELSE s

Later(s, t) == IF s > t THEN s ELSE t

\* One admission transaction: the attempts of the new run (none, if they are not
\* among those of the instance) are queued at t and the attempts of the runs it
\* displaces are cancelled (cancel_attempt), each at the cancellation time of
\* its run.  That time must stay below the expiry of a live attempt, or the
\* row's CHECK constraint aborts the admission.
Admit(new, t, cancelledAt) ==
    LET displaced == DOMAIN cancelledAt
        requestedAt(a) == Later(cancelledAt[a], changedAt[a])
    IN  /\ \A a \in new : lifecycle[a] = "Absent"
        /\ \A a \in displaced :
              /\ lifecycle[a] \in {"Queued"} \cup Live
              /\ lifecycle[a] = "Queued" => intent[a] = "none"
              /\ lifecycle[a] \in Live => requestedAt(a) < lease[a].expiresAt
        /\ lifecycle' = [a \in Attempts |->
                            CASE a \in new -> "Queued"
                              [] a \in displaced /\ lifecycle[a] = "Queued" -> "Cancelled"
                              [] a \in displaced /\ lifecycle[a] # "Queued" -> "Cancelling"
                              [] OTHER -> lifecycle[a]]
        /\ changedAt' = [a \in Attempts |->
                            CASE a \in new -> t
                              [] a \in displaced -> requestedAt(a)
                              [] OTHER -> changedAt[a]]
        /\ intent' = [a \in Attempts |->
                         IF a \in displaced /\ intent[a] = "none" THEN "open" ELSE intent[a]]
        /\ terminal' = [a \in Attempts |->
                           IF a \in displaced /\ lifecycle[a] = "Queued"
                           THEN "server_cancellation" ELSE terminal[a]]
        /\ cancels' = cancels \cup
                        {CancelCommand(a, requestedAt(a)) :
                            a \in {d \in displaced : lifecycle[d] # "Queued" /\ intent[d] = "none"}}
        /\ UNCHANGED <<now, sessionVars, token, lease, failures, claims, offers, renewals, held>>

\* Mutant: a cancelling attempt is queued again when its lease runs out.
IrretrievableUnlessCancelling(a) ==
    \/ lifecycle[a] \in {"Running", "Finalizing"}
    \/ failures[a] + 1 >= MaxLeaseFailures

\* Mutant: a running attempt is queued again when its lease runs out.
IrretrievableUnlessRunning(a) ==
    \/ lifecycle[a] \in {"Cancelling", "Finalizing"}
    \/ failures[a] + 1 >= MaxLeaseFailures

\* reap_expired_attempt: work that may have started is lost, work that has
\* not is queued again until its lease failures reach the limit.
Irretrievable(a) ==
    \/ lifecycle[a] \in {"Running", "Cancelling", "Finalizing"}
    \/ failures[a] + 1 >= MaxLeaseFailures

\* Mutant: only a connected runner's lease can be reaped.
ExpiredConnected(a) == /\ lifecycle[a] \in Live
                       /\ lease[a] # NoLease
                       /\ lease[a].epoch \in live[lease[a].runner]
                       /\ lease[a].expiresAt <= now
                       /\ changedAt[a] <= now

Expired(a) == /\ lifecycle[a] \in Live
              /\ lease[a] # NoLease
              /\ lease[a].expiresAt <= now
              /\ changedAt[a] <= now

ReapExpired(a) ==
    /\ Expired(a)
    /\ lifecycle' = [lifecycle EXCEPT ![a] = IF Irretrievable(a) THEN "Lost" ELSE "Queued"]
    /\ terminal' = [terminal EXCEPT ![a] = IF Irretrievable(a) THEN "server_lease_expiry" ELSE @]
    /\ lease' = [lease EXCEPT ![a] = NoLease]
    /\ failures' = [failures EXCEPT ![a] = @ + 1]
    /\ changedAt' = [changedAt EXCEPT ![a] = now]
    /\ UNCHANGED <<now, sessionVars, token, intent, messageVars>>

-----------------------------------------------------------------------------
SessionStep ==
    \E r \in Runners :
        \/ OpenSession(r)
        \/ \E d \in DesiredStates : SetDesired(r, d)
        \/ CloseSession(r, epoch[r])
        \/ \E e \in live[r] :
              \/ CloseStaleSession(r, e)
              \/ \E acked \in SUBSET Attempts : SessionHeartbeat(r, e, acked)

OfferStep ==
    \/ \E a \in Attempts, r \in Runners, s \in Slots : Claim(a, r, epoch[r], s)
    \/ \E c \in claims : PublishOffer(c)
    \/ \E o \in offers, acked \in SUBSET Attempts :
          \/ AcceptOffer(o, acked)
          \/ \E next \in {"Queued", "Failed"} : DeclineOffer(o, acked, next)

HeartbeatStep ==
    \/ \E o \in offers, d \in 1 .. LeaseDuration, reported \in Reports :
          AuthorizeRenewal(o, d, reported)
    \/ \E n \in renewals, acked \in SUBSET Attempts : CommitHeartbeat(n, acked)

ConclusionStep ==
    \/ \E o \in offers, conclusion \in Conclusions : CommitTerminalResult(o, conclusion)
    \/ \E a \in Attempts :
          \/ ReapExpired(a)
          \/ \E t \in CallerTimes : SkipBlocked(a, t) \/ RequestCancellation(a, t)
    \/ \E new, displaced \in SUBSET Attempts, t \in CallerTimes :
          \E cancelledAt \in [displaced -> CallerTimes] : Admit(new, t, cancelledAt)

Next == Tick \/ SessionStep \/ OfferStep \/ HeartbeatStep \/ ConclusionStep

\* The maintenance loop of the control plane keeps running and time passes;
\* nothing is assumed of runners, operators or callers.
Fairness == WF_vars(Tick) /\ \A a \in Attempts : WF_vars(ReapExpired(a))

Spec == Init /\ [][Next]_vars /\ Fairness

-----------------------------------------------------------------------------
(* Properties.                                                             *)

TypeOK ==
    /\ now \in Nat
    /\ epoch \in [Runners -> Nat]
    /\ live \in [Runners -> SUBSET Nat]
    /\ online \in [Runners -> BOOLEAN]
    /\ desired \in [Runners -> {"Active", "Draining", "Disabled"}]
    /\ heartbeat \in [Runners -> Nat]
    /\ lifecycle \in [Attempts -> Lifecycles]
    /\ token \in [Attempts -> Nat]
    /\ lease \in [Attempts -> LeaseRows \cup {NoLease}]
    /\ failures \in [Attempts -> Nat]
    /\ changedAt \in [Attempts -> Int]
    /\ intent \in [Attempts -> {"none", "open", "acknowledged"}]
    /\ terminal \in [Attempts -> Authorities]
    /\ claims \subseteq Claims
    /\ offers \subseteq Claims
    /\ renewals \subseteq Renewals
    /\ cancels \subseteq Cancels
    /\ held \subseteq Beliefs

\* The lease columns of a row are set exactly while its lifecycle is leased.
LeasedRows == \A a \in Attempts : lifecycle[a] \in Live <=> lease[a] # NoLease

\* The columns of a leased row are in order.
OrderedRows ==
    \A a \in Attempts : lease[a] # NoLease => /\ token[a] > 0
                                              /\ lease[a].issuedAt <= changedAt[a]
                                              /\ changedAt[a] < lease[a].expiresAt

\* No transaction leaves a row that the columns and CHECK constraints of
\* job_attempts reject: every column has its type, the lease columns are set
\* exactly while the lifecycle is leased, and then token > 0 and issued_at <=
\* changed_at < expires_at, whatever the clock skew of the callers whose times
\* become changed_at.
RowsWellFormed == TypeOK /\ LeasedRows /\ OrderedRows

\* At most one session of a runner is connected, it is the one of the current
\* epoch, and the runner's status says online exactly while it is.
SessionCurrency ==
    \A r \in Runners :
        /\ live[r] \subseteq {epoch[r]}
        /\ online[r] <=> epoch[r] \in live[r]

\* What the fencing is for: while a lease a runner was told about has not run
\* out, no other runner, slot or later lease of the same runner may execute
\* that attempt, and its slot executes nothing else, although renewals commit
\* out of order, sessions are replaced and the reaper runs concurrently.
ExclusiveExecution ==
    \A g, h \in held :
        /\ now < g.until /\ now < h.until
        /\ g.attempt = h.attempt \/ (g.runner = h.runner /\ g.slot = h.slot)
        => /\ g.attempt = h.attempt
           /\ g.token = h.token
           /\ g.runner = h.runner /\ g.slot = h.slot

\* No two leased attempts share a slot of a runner.
SlotsDistinct ==
    \A a, b \in Attempts :
        /\ lease[a] # NoLease /\ lease[b] # NoLease
        /\ lease[a].runner = lease[b].runner /\ lease[a].slot = lease[b].slot
        => a = b

\* Every unexpired belief of a runner is backed by the row of its attempt.
BeliefsBacked ==
    \A h \in held : now < h.until =>
        /\ lease[h.attempt] # NoLease
        /\ token[h.attempt] = h.token
        /\ lease[h.attempt].runner = h.runner
        /\ lease[h.attempt].slot = h.slot
        /\ h.until <= lease[h.attempt].expiresAt

\* The inductive form of ExclusiveExecution: no two attempts share a slot of a
\* runner, and every unexpired belief is backed by the attempt's current lease,
\* token and slot with an expiry not before the one the runner was told.
FencingInv == LeasedRows /\ SlotsDistinct /\ BeliefsBacked

\* A stored cancellation is never overtaken: no late accept, heartbeat, claim
\* or reap moves a cancelled attempt back to work.
CancellationSticks ==
    \A a \in Attempts :
        intent[a] # "none" => lifecycle[a] \in {"Cancelling", "Finalizing"} \cup Terminal

\* A terminal row agrees with the attempt it concludes: a lost attempt has
\* lease-expiry evidence, a cancelled queued attempt has an intent behind its
\* server cancellation, and a runner's result closed every delivered intent
\* that was not requested by a clock ahead of the result.
TerminalEvidence ==
    \A a \in Attempts :
        /\ lifecycle[a] = "Lost" <=> terminal[a] = "server_lease_expiry"
        /\ terminal[a] = "server_cancellation" => lifecycle[a] = "Cancelled" /\ intent[a] # "none"
        /\ terminal[a] = "runner" => lifecycle[a] \in TerminalLifecycles
        /\ terminal[a] = "runner" /\ intent[a] = "open" =>
              \A c \in cancels : c.attempt = a => c.requestedAt > changedAt[a]

\* Work that may have started is never given out again: from running,
\* cancelling or finalizing an attempt only cancels, finalizes or ends, and a
\* terminal lifecycle never changes.
NeverRestarted ==
    [][\A a \in Attempts :
         /\ lifecycle[a] \in {"Running", "Cancelling", "Finalizing"} =>
               lifecycle'[a] \notin {"Absent", "Queued", "Leased", "Preparing"}
         /\ lifecycle[a] \in Terminal => lifecycle'[a] = lifecycle[a]]_vars

\* A lease whose session was closed or superseded is out of every runner's
\* hands: it is not extended, it ends only by expiry, and until then the only
\* change of the attempt is a preemption that marks it cancelling.
OrphanFrozen ==
    [][\A a \in Attempts :
         lease[a] # NoLease /\ lease[a].epoch \notin live[lease[a].runner] =>
             \/ lease'[a] = lease[a] /\ lifecycle'[a] \in {lifecycle[a], "Cancelling"}
             \/ lease'[a] = NoLease /\ lease[a].expiresAt <= now]_vars

\* Whatever happens to the runner, a lease whose session is gone is given back.
OrphanReclaimed ==
    \A a \in Attempts :
        (lease[a] # NoLease /\ lease[a].epoch \notin live[lease[a].runner]) ~> lease[a] = NoLease

-----------------------------------------------------------------------------
(* The refinement of the abstract specification.                           *)

PhaseOf(l) == CASE l = "Absent" -> "absent"
                [] l = "Queued" -> "waiting"
                [] l \in {"Leased", "Preparing"} -> "assigned"
                [] l \in {"Running", "Cancelling", "Finalizing"} -> "started"
                [] OTHER -> "done"

PlaceOf(row) == IF row = NoLease THEN NoLease ELSE <<row.runner, row.slot>>

\* The phase and the place of every attempt, and who executes what.
WorkPhase     == [a \in Attempts |-> PhaseOf(lifecycle[a])]
WorkPlace     == [a \in Attempts |-> PlaceOf(lease[a])]
WorkExecuting == {<<h.attempt, <<h.runner, h.slot>>>> : h \in held}

Abstract == INSTANCE ExclusiveWork WITH
    Work      <- Attempts,
    Places    <- Runners \X Slots,
    Nowhere   <- NoLease,
    phase     <- WorkPhase,
    place     <- WorkPlace,
    executing <- WorkExecuting

\* The lease transactions implement ExclusiveWork: seen through the lifecycles,
\* the lease columns and the runners' own beliefs, every transaction is one
\* step of exclusive work or changes nothing; in particular the reaper and a
\* session's replacement never take an attempt from a runner that may still
\* execute it, and a slot is filled only when it executes nothing.
ImplementsExclusiveWork == Abstract!WorkSpec
=============================================================================
