------------------------- MODULE AttemptLeaseProofs -------------------------
(***************************************************************************)
(* Machine-checked proofs about AttemptLease, for any number of attempts,  *)
(* runners and slots and any durations and bounds.                         *)
(***************************************************************************)
EXTENDS AttemptLease, TLAPS

\* A reading of a caller's clock is an integer.
LEMMA CallerTimesInt == \A t \in CallerTimes : t \in Int
  BY LeaseAssumption DEF CallerTimes

\* Acknowledging cancellations keeps the intent column well typed.
LEMMA AcknowledgeType ==
  ASSUME TypeOK, NEW acked
  PROVE  Acknowledge(acked) \in [Attempts -> {"none", "open", "acknowledged"}]
  BY DEF TypeOK, Acknowledge

\* What a committed heartbeat does to the attempt it names: the lifecycle
\* becomes the reported one, the expiry moves to one that is not earlier and
\* still to come, and runner, slot and issue time stay.
LEMMA HeartbeatEffect ==
  ASSUME TypeOK, NEW n \in renewals, NEW acked, CommitHeartbeat(n, acked),
         NEW a, a = n.claim.attempt
  PROVE  /\ n.claim \in Claims /\ a \in Attempts /\ n.reported \in Live /\ n.expiresAt \in Int
         /\ lifecycle[a] \in Live /\ lifecycle' = [lifecycle EXCEPT ![a] = n.reported]
         /\ lease[a] \in LeaseRows /\ lease[a].expiresAt \in Int
         /\ n.expiresAt >= lease[a].expiresAt /\ now < n.expiresAt
         /\ lease' \in [Attempts -> LeaseRows \cup {NoLease}]
         /\ \A b \in Attempts \ {a} : lease'[b] = lease[b]
         /\ lease'[a] # NoLease /\ lease'[a].expiresAt = n.expiresAt
         /\ lease'[a].runner = lease[a].runner /\ lease'[a].slot = lease[a].slot
         /\ lease'[a].issuedAt = lease[a].issuedAt
<1> USE DEF TypeOK
<1>1. n.claim \in Claims /\ a \in Attempts /\ n.reported \in Live /\ n.expiresAt \in Int
  BY DEF Renewals, Claims
<1>2. lifecycle[a] \in Live /\ lease[a] \in LeaseRows
  BY <1>1 DEF CommitHeartbeat, Fenced
<1>3. lease[a].expiresAt \in Int
  BY <1>2 DEF LeaseRows
<1>4. n.expiresAt >= lease[a].expiresAt /\ now < n.expiresAt
  BY <1>1, <1>3 DEF CommitHeartbeat, RefreshesCeiling
<1>5. lifecycle' = [lifecycle EXCEPT ![a] = n.reported]
  BY DEF CommitHeartbeat
<1> DEFINE row == [lease[a] EXCEPT !.expiresAt = n.expiresAt]
<1>6. lease' = [lease EXCEPT ![a] = row]
  BY DEF CommitHeartbeat
<1>7. /\ row \in LeaseRows /\ row.expiresAt = n.expiresAt
      /\ row.runner = lease[a].runner /\ row.slot = lease[a].slot
      /\ row.issuedAt = lease[a].issuedAt
  BY <1>1, <1>2 DEF LeaseRows
<1>8. row # NoLease
  BY <1>7, LeaseAssumption
<1> HIDE DEF row
<1>9. lease' \in [Attempts -> LeaseRows \cup {NoLease}] /\ lease'[a] = row
  BY <1>1, <1>6, <1>7
<1>10. \A b \in Attempts \ {a} : lease'[b] = lease[b]
  BY <1>1, <1>6
<1> QED
  BY <1>1, <1>2, <1>3, <1>4, <1>5, <1>7, <1>8, <1>9, <1>10

\* What else a committed heartbeat does: it touches no other attempt, its
\* decision time is not before the last change, and the runner believes it.
LEMMA HeartbeatFrame ==
  ASSUME TypeOK, NEW n \in renewals, NEW acked, CommitHeartbeat(n, acked),
         NEW a, a = n.claim.attempt
  PROVE  /\ token[a] = n.claim.token /\ lease[a] # NoLease
         /\ lease[a].runner = n.claim.runner /\ lease[a].slot = n.claim.slot
         /\ changedAt' \in [Attempts -> Int]
         /\ \A b \in Attempts \ {a} : changedAt'[b] = changedAt[b]
         /\ \/ changedAt'[a] = now /\ changedAt[a] <= now
            \/ changedAt'[a] = changedAt[a]
         /\ heartbeat' \in [Runners -> Nat]
         /\ intent' = Acknowledge(acked)
         /\ renewals' \subseteq renewals
         /\ held' = Believing(Belief(n.claim, n.expiresAt))
         /\ UNCHANGED <<now, epoch, live, online, desired, token, failures, terminal, claims,
                        offers, cancels>>
<1> USE DEF TypeOK
<1>1. n.claim \in Claims /\ a \in Attempts /\ n.claim.runner \in Runners
  BY DEF Renewals, Claims
<1>2. /\ token[a] = n.claim.token /\ lease[a] # NoLease
      /\ lease[a].runner = n.claim.runner /\ lease[a].slot = n.claim.slot
  BY DEF CommitHeartbeat, Fenced
<1>3. \/ changedAt' = [changedAt EXCEPT ![a] = now] /\ changedAt[a] <= now
      \/ changedAt' = [changedAt EXCEPT ![a] = @]
  BY DEF CommitHeartbeat
<1>4. heartbeat' = [heartbeat EXCEPT ![n.claim.runner] = now]
  BY DEF CommitHeartbeat
<1>5. /\ intent' = Acknowledge(acked) /\ renewals' = renewals \ {n}
      /\ held' = Believing(Belief(n.claim, n.expiresAt))
      /\ UNCHANGED <<now, epoch, live, online, desired, token, failures, terminal, claims,
                     offers, cancels>>
  BY DEF CommitHeartbeat
<1>6. /\ changedAt' \in [Attempts -> Int]
      /\ \A b \in Attempts \ {a} : changedAt'[b] = changedAt[b]
      /\ \/ changedAt'[a] = now /\ changedAt[a] <= now
         \/ changedAt'[a] = changedAt[a]
  BY <1>1, <1>3
<1>7. heartbeat' \in [Runners -> Nat]
  BY <1>1, <1>4
<1> QED
  BY <1>2, <1>5, <1>6, <1>7

\* Every step of the protocol keeps every variable in its type.
LEMMA TypeStep ==
  ASSUME TypeOK, LeasedRows, [Next]_vars
  PROVE  TypeOK'
<1> USE LeaseAssumption DEF TypeOK, sessionVars, attemptVars, messageVars
<1>1. ASSUME Tick PROVE TypeOK'
  BY <1>1 DEF Tick
<1>2. ASSUME NEW r \in Runners, OpenSession(r) PROVE TypeOK'
  BY <1>2 DEF OpenSession, ClaimsWithout
<1>3. ASSUME NEW r \in Runners, NEW d \in DesiredStates, SetDesired(r, d) PROVE TypeOK'
  BY <1>3 DEF SetDesired
<1>4. ASSUME NEW r \in Runners, NEW e, Disconnect(r, e) PROVE TypeOK'
  BY <1>4 DEF Disconnect, ClaimsWithout
<1>5. ASSUME NEW r \in Runners, NEW e, NEW acked, SessionHeartbeat(r, e, acked) PROVE TypeOK'
  BY <1>5, AcknowledgeType DEF SessionHeartbeat
<1>6. ASSUME NEW a \in Attempts, NEW r \in Runners, NEW s \in Slots, Claim(a, r, epoch[r], s)
      PROVE  TypeOK'
  BY <1>6 DEF Claim, LeaseRows, Claims, Lifecycles, Live
<1>7. ASSUME NEW c \in claims, PublishOffer(c) PROVE TypeOK'
  BY <1>7 DEF PublishOffer, Believing, Belief, Beliefs, Claims
<1>8. ASSUME NEW o \in offers, NEW acked, AcceptOffer(o, acked) PROVE TypeOK'
  BY <1>8, AcknowledgeType DEF AcceptOffer, Responding, Claims, Lifecycles, Live
<1>9. ASSUME NEW o \in offers, NEW acked, NEW next, DeclineOffer(o, acked, next) PROVE TypeOK'
  BY <1>9, AcknowledgeType
     DEF DeclineOffer, Responding, Surrendered, Claims, Lifecycles, Terminal
<1>10. ASSUME NEW o \in offers, NEW d \in 1 .. LeaseDuration, NEW reported \in Reports,
              AuthorizeRenewal(o, d, reported)
       PROVE  TypeOK'
  <2> DEFINE n == [claim |-> o, expiresAt |-> now + d, capped |-> d < LeaseDuration,
                   reported |-> reported]
  <2>1. (d < LeaseDuration) \in BOOLEAN
    OBVIOUS
  <2>2. now + d \in Int /\ o \in Claims /\ reported \in Live
    OBVIOUS
  <2>3. n \in Renewals
    BY <2>1, <2>2, Zenon DEF Renewals
  <2> HIDE DEF n
  <2>4. renewals' = renewals \cup {n}
    BY <1>10 DEF AuthorizeRenewal, n
  <2> QED
    BY <1>10, <2>3, <2>4 DEF AuthorizeRenewal
<1>11. ASSUME NEW n \in renewals, NEW acked, CommitHeartbeat(n, acked) PROVE TypeOK'
  <2>1. lease' \in [Attempts -> LeaseRows \cup {NoLease}]
    BY <1>11, HeartbeatEffect
  <2>2. lifecycle' \in [Attempts -> Lifecycles]
    BY <1>11, HeartbeatEffect DEF Lifecycles
  <2>3. held' \subseteq Beliefs
    BY <1>11, HeartbeatEffect, HeartbeatFrame DEF Believing, Belief, Beliefs, Claims
  <2>4. heartbeat' \in [Runners -> Nat] /\ changedAt' \in [Attempts -> Int]
    BY <1>11, HeartbeatFrame
  <2>5. /\ intent' \in [Attempts -> {"none", "open", "acknowledged"}]
        /\ renewals' \subseteq Renewals
    BY <1>11, HeartbeatFrame, AcknowledgeType
  <2>6. UNCHANGED <<now, epoch, live, online, desired, token, failures, terminal, claims, offers,
                    cancels>>
    BY <1>11, HeartbeatFrame
  <2> QED
    BY <2>1, <2>2, <2>3, <2>4, <2>5, <2>6
<1>12. ASSUME NEW o \in offers, NEW conclusion \in Conclusions,
              CommitTerminalResult(o, conclusion)
       PROVE  TypeOK'
  <2>1. o.attempt \in Attempts /\ conclusion \in Lifecycles
    BY DEF Claims, Lifecycles, Terminal, TerminalLifecycles
  <2>2. intent' \in [Attempts -> {"none", "open", "acknowledged"}]
    BY <1>12, AcknowledgeType DEF CommitTerminalResult
  <2>3. /\ terminal' \in [Attempts -> Authorities] /\ lifecycle' \in [Attempts -> Lifecycles]
        /\ lease' \in [Attempts -> LeaseRows \cup {NoLease}] /\ changedAt' \in [Attempts -> Int]
    BY <1>12, <2>1 DEF CommitTerminalResult, Authorities
  <2>4. held' \subseteq Beliefs
    BY <1>12 DEF CommitTerminalResult, Surrendered
  <2> QED
    BY <1>12, <2>2, <2>3, <2>4 DEF CommitTerminalResult
<1>13. ASSUME NEW a \in Attempts, ReapExpired(a) PROVE TypeOK'
  BY <1>13 DEF ReapExpired, Authorities, Lifecycles, Terminal
<1>14. ASSUME NEW a \in Attempts, NEW t \in CallerTimes, SkipBlocked(a, t) PROVE TypeOK'
  BY <1>14, CallerTimesInt DEF SkipBlocked, Lifecycles, Terminal
<1>15. ASSUME NEW a \in Attempts, NEW t \in CallerTimes, RequestCancellation(a, t)
       PROVE  TypeOK'
  BY <1>15, CallerTimesInt
     DEF RequestCancellation, CancelCommand, Cancels, LeaseRows, LeasedRows, Authorities,
         Lifecycles, Terminal, Live
<1>16. ASSUME NEW new \in SUBSET Attempts, NEW displaced \in SUBSET Attempts,
              NEW t \in CallerTimes, NEW cancelledAt \in [displaced -> CallerTimes],
              Admit(new, t, cancelledAt)
       PROVE  TypeOK'
  BY <1>16, CallerTimesInt
     DEF Admit, Later, CancelCommand, Cancels, LeaseRows, LeasedRows, Authorities, Lifecycles,
         Terminal, Live
<1>17. CASE UNCHANGED vars
  BY <1>17 DEF vars
<1> QED
  BY <1>1, <1>2, <1>3, <1>4, <1>5, <1>6, <1>7, <1>8, <1>9, <1>10, <1>11, <1>12, <1>13, <1>14,
     <1>15, <1>16, <1>17
     DEF Next, SessionStep, OfferStep, HeartbeatStep, ConclusionStep, CloseSession, CloseStaleSession

\* A step changes no lease, token or belief unless it is one of these.
LEMMA LeaseSteps ==
  ASSUME [Next]_vars
  PROVE  \/ UNCHANGED <<now, token, lease, held>>
         \/ Tick
         \/ \E a \in Attempts, r \in Runners, s \in Slots : Claim(a, r, epoch[r], s)
         \/ \E c \in claims : PublishOffer(c)
         \/ \E o \in offers, acked \in SUBSET Attempts, next \in {"Queued", "Failed"} :
               DeclineOffer(o, acked, next)
         \/ \E n \in renewals, acked \in SUBSET Attempts : CommitHeartbeat(n, acked)
         \/ \E o \in offers, conclusion \in Conclusions : CommitTerminalResult(o, conclusion)
         \/ \E a \in Attempts : ReapExpired(a)
  BY DEF vars, sessionVars, attemptVars, messageVars, Next, SessionStep, OfferStep,
         HeartbeatStep, ConclusionStep, OpenSession, SetDesired, CloseSession,
         CloseStaleSession, Disconnect, SessionHeartbeat, AcceptOffer, AuthorizeRenewal,
         SkipBlocked, RequestCancellation, Admit

\* The lease columns stay set exactly while the lifecycle is leased.
LEMMA LeasedRowsStep ==
  ASSUME TypeOK, LeasedRows, [Next]_vars
  PROVE  LeasedRows'
<1> USE LeaseAssumption DEF TypeOK, LeasedRows, sessionVars, attemptVars, messageVars
<1>1. ASSUME UNCHANGED <<lifecycle, lease>> PROVE LeasedRows'
  BY <1>1
<1>2. ASSUME NEW a \in Attempts, NEW r \in Runners, NEW s \in Slots, Claim(a, r, epoch[r], s)
      PROVE  LeasedRows'
  BY <1>2 DEF Claim, Live, LeaseRows
<1>3. ASSUME NEW o \in offers, NEW acked, AcceptOffer(o, acked) PROVE LeasedRows'
  BY <1>3 DEF AcceptOffer, Responding, Claims, Live
<1>4. ASSUME NEW o \in offers, NEW acked, NEW next, DeclineOffer(o, acked, next)
      PROVE  LeasedRows'
  BY <1>4 DEF DeclineOffer, Responding, Claims, Live
<1>5. ASSUME NEW n \in renewals, NEW acked, CommitHeartbeat(n, acked) PROVE LeasedRows'
  BY <1>5 DEF CommitHeartbeat, Renewals, Claims, Fenced, LeaseRows
<1>6. ASSUME NEW o \in offers, NEW conclusion \in Conclusions,
             CommitTerminalResult(o, conclusion)
      PROVE  LeasedRows'
  BY <1>6 DEF CommitTerminalResult, Claims, Live, TerminalLifecycles
<1>7. ASSUME NEW a \in Attempts, ReapExpired(a) PROVE LeasedRows'
  BY <1>7 DEF ReapExpired, Live
<1>8. ASSUME NEW a \in Attempts, NEW t, SkipBlocked(a, t) PROVE LeasedRows'
  BY <1>8 DEF SkipBlocked, Live
<1>9. ASSUME NEW a \in Attempts, NEW t, RequestCancellation(a, t) PROVE LeasedRows'
  BY <1>9 DEF RequestCancellation, Live
<1>10. ASSUME NEW new \in SUBSET Attempts, NEW t, NEW cancelledAt, Admit(new, t, cancelledAt)
       PROVE  LeasedRows'
  BY <1>10 DEF Admit, Live
<1> QED
  BY <1>1, <1>2, <1>3, <1>4, <1>5, <1>6, <1>7, <1>8, <1>9, <1>10
     DEF vars, Next, SessionStep, OfferStep, HeartbeatStep, ConclusionStep, Tick, OpenSession,
         SetDesired, CloseSession, CloseStaleSession, Disconnect, SessionHeartbeat,
         PublishOffer, AuthorizeRenewal

\* No step puts two attempts into one slot of a runner.
LEMMA SlotsDistinctStep ==
  ASSUME TypeOK, LeasedRows, SlotsDistinct, [Next]_vars
  PROVE  SlotsDistinct'
<1> USE LeaseAssumption DEF TypeOK, SlotsDistinct
<1>1. ASSUME UNCHANGED lease PROVE SlotsDistinct'
  BY <1>1
<1>2. ASSUME NEW a \in Attempts, NEW r \in Runners, NEW s \in Slots, Claim(a, r, epoch[r], s)
      PROVE  SlotsDistinct'
  BY <1>2 DEF Claim, Occupied
<1>3. ASSUME NEW a \in Attempts, lease' = [lease EXCEPT ![a] = NoLease] PROVE SlotsDistinct'
  BY <1>3
<1>4. ASSUME NEW n \in renewals, NEW acked, CommitHeartbeat(n, acked) PROVE SlotsDistinct'
  BY <1>4, HeartbeatEffect
<1>5. ASSUME Tick \/ \E c \in claims : PublishOffer(c) PROVE UNCHANGED lease
  BY <1>5 DEF Tick, PublishOffer, attemptVars
<1>6. ASSUME NEW o \in offers, \/ \E acked, next : DeclineOffer(o, acked, next)
                               \/ \E conclusion : CommitTerminalResult(o, conclusion)
      PROVE  o.attempt \in Attempts /\ lease' = [lease EXCEPT ![o.attempt] = NoLease]
  BY <1>6 DEF DeclineOffer, CommitTerminalResult, Claims
<1>7. ASSUME NEW a \in Attempts, ReapExpired(a) PROVE lease' = [lease EXCEPT ![a] = NoLease]
  BY <1>7 DEF ReapExpired
<1> QED
  <2> HIDE DEF TypeOK, SlotsDistinct
  <2> QED
    BY <1>1, <1>2, <1>3, <1>4, <1>5, <1>6, <1>7, LeaseSteps

\* A belief that is new, or that one more lease step left, is still backed.
LEMMA BeliefsBackedStep ==
  ASSUME TypeOK, LeasedRows, BeliefsBacked, [Next]_vars
  PROVE  BeliefsBacked'
<1> USE LeaseAssumption DEF TypeOK, BeliefsBacked, Beliefs
<1>1. ASSUME UNCHANGED <<now, token, lease, held>> PROVE BeliefsBacked'
  BY <1>1
<1>2. ASSUME Tick PROVE BeliefsBacked'
  BY <1>2 DEF Tick, attemptVars
<1>3. ASSUME NEW a \in Attempts, NEW r \in Runners, NEW s \in Slots, Claim(a, r, epoch[r], s)
      PROVE  BeliefsBacked'
  BY <1>3 DEF Claim, LeasedRows, Live
<1>4. ASSUME NEW c \in claims, PublishOffer(c) PROVE BeliefsBacked'
  BY <1>4 DEF PublishOffer, Fenced, Believing, Belief, Claims, attemptVars
<1>5. ASSUME NEW o \in offers, NEW acked, NEW next, DeclineOffer(o, acked, next)
      PROVE  BeliefsBacked'
  BY <1>5 DEF DeclineOffer, Responding, Fenced, Surrendered, Claims
<1>6. ASSUME NEW n \in renewals, NEW acked, CommitHeartbeat(n, acked) PROVE BeliefsBacked'
  <2> DEFINE c == n.claim
  <2>1. /\ lease'[c.attempt] # NoLease /\ lease'[c.attempt].expiresAt = n.expiresAt
        /\ lease'[c.attempt].runner = c.runner /\ lease'[c.attempt].slot = c.slot
        /\ token[c.attempt] = c.token
    BY <1>6, HeartbeatEffect, HeartbeatFrame
  <2>2. ASSUME NEW h \in held, now < h.until, h.attempt = c.attempt
        PROVE  h.until <= n.expiresAt /\ h.token = c.token /\ h.runner = c.runner
                                     /\ h.slot = c.slot
    BY <1>6, <2>1, <2>2, HeartbeatEffect
  <2>3. ASSUME NEW h \in held, h.attempt # c.attempt PROVE lease'[h.attempt] = lease[h.attempt]
    BY <1>6, <2>3, HeartbeatEffect
  <2>4. /\ UNCHANGED <<now, token>>
        /\ \A h \in held' : \/ h \in held
                            \/ /\ h.attempt = c.attempt /\ h.token = c.token
                               /\ h.runner = c.runner /\ h.slot = c.slot
                               /\ h.until = n.expiresAt
    BY <1>6, HeartbeatFrame DEF Believing, Belief
  <2>5. n.expiresAt \in Int
    BY <1>6, HeartbeatEffect
  <2> QED
    BY <2>1, <2>2, <2>3, <2>4, <2>5
<1>7. ASSUME NEW o \in offers, NEW conclusion, CommitTerminalResult(o, conclusion)
      PROVE  BeliefsBacked'
  BY <1>7 DEF CommitTerminalResult, Fenced, Surrendered, Claims
<1>8. ASSUME NEW a \in Attempts, ReapExpired(a) PROVE BeliefsBacked'
  BY <1>8 DEF ReapExpired, Expired, LeaseRows, messageVars
<1> QED
  BY <1>1, <1>2, <1>3, <1>4, <1>5, <1>6, <1>7, <1>8, LeaseSteps

\* Types, rows, slots and beliefs hold initially.
LEMMA FencingInit == Init => TypeOK /\ FencingInv
  BY LeaseAssumption
     DEF Init, TypeOK, FencingInv, LeasedRows, SlotsDistinct, BeliefsBacked, Lifecycles, Live,
         Authorities

\* The inductive invariant of the lease protocol: the rows of the store stay
\* well typed, and the leases runners were told about stay backed by them.
THEOREM Fencing == Spec => [](TypeOK /\ FencingInv)
<1>1. Init => TypeOK /\ FencingInv
  BY FencingInit
<1>2. TypeOK /\ FencingInv /\ [Next]_vars => (TypeOK /\ FencingInv)'
  BY TypeStep, LeasedRowsStep, SlotsDistinctStep, BeliefsBackedStep DEF FencingInv
<1> QED
  BY <1>1, <1>2, PTL DEF Spec

\* Every variable of the store keeps its type.
THEOREM TypeCorrect == Spec => []TypeOK
  BY Fencing, PTL

\* The fencing works: no interleaving of claims, renewals, session changes,
\* results and reaps lets two runners, two slots or two leases believe at the
\* same time that they may execute one attempt, or one slot execute two.
THEOREM Exclusive == Spec => []ExclusiveExecution
<1>1. TypeOK /\ FencingInv => ExclusiveExecution
  BY DEF TypeOK, FencingInv, SlotsDistinct, BeliefsBacked, ExclusiveExecution, Beliefs
<1> QED
  BY <1>1, Fencing, PTL

-----------------------------------------------------------------------------
(* Rows that the CHECK constraints accept.                                 *)

\* No step leaves a leased row whose times are out of order.
LEMMA OrderedRowsStep ==
  ASSUME TypeOK, LeasedRows, OrderedRows, [Next]_vars
  PROVE  OrderedRows'
<1> USE LeaseAssumption DEF TypeOK, OrderedRows, sessionVars, attemptVars, messageVars
<1>1. ASSUME UNCHANGED <<token, lease, changedAt>> PROVE OrderedRows'
  BY <1>1
<1>2. ASSUME NEW a \in Attempts, NEW r \in Runners, NEW s \in Slots, Claim(a, r, epoch[r], s)
      PROVE  OrderedRows'
  BY <1>2 DEF Claim
<1>3. ASSUME NEW o \in offers, NEW acked, AcceptOffer(o, acked) PROVE OrderedRows'
  BY <1>3 DEF AcceptOffer, Responding, Claims, LeaseRows
<1>4. ASSUME NEW o \in offers, NEW acked, NEW next, DeclineOffer(o, acked, next)
      PROVE  OrderedRows'
  BY <1>4 DEF DeclineOffer, Responding, Claims
<1>5. ASSUME NEW n \in renewals, NEW acked, CommitHeartbeat(n, acked) PROVE OrderedRows'
  <2> DEFINE c == n.claim
  <2>1. \/ changedAt'[c.attempt] = now /\ changedAt[c.attempt] <= now
        \/ changedAt'[c.attempt] = changedAt[c.attempt]
    BY <1>5, HeartbeatFrame
  <2>2. /\ token' = token
        /\ \A b \in Attempts \ {c.attempt} : changedAt'[b] = changedAt[b]
    BY <1>5, HeartbeatFrame
  <2>3. lease[c.attempt].issuedAt \in Int
    BY <1>5, HeartbeatEffect DEF LeaseRows
  <2>4. lease[c.attempt] # NoLease
    BY <1>5, HeartbeatFrame
  <2> QED
    BY <1>5, <2>1, <2>2, <2>3, <2>4, HeartbeatEffect
<1>6. ASSUME NEW o \in offers, NEW conclusion, CommitTerminalResult(o, conclusion)
      PROVE  OrderedRows'
  BY <1>6 DEF CommitTerminalResult, Claims
<1>7. ASSUME NEW a \in Attempts, ReapExpired(a) PROVE OrderedRows'
  BY <1>7 DEF ReapExpired
<1>8. ASSUME NEW a \in Attempts, NEW t \in CallerTimes, SkipBlocked(a, t) PROVE OrderedRows'
  BY <1>8 DEF SkipBlocked, LeasedRows, Live
<1>9. ASSUME NEW a \in Attempts, NEW t \in CallerTimes, RequestCancellation(a, t)
      PROVE  OrderedRows'
  BY <1>9, CallerTimesInt DEF RequestCancellation, LeasedRows, LeaseRows, Live, Terminal
<1>10. ASSUME NEW new \in SUBSET Attempts, NEW displaced \in SUBSET Attempts,
              NEW t \in CallerTimes, NEW cancelledAt \in [displaced -> CallerTimes],
              Admit(new, t, cancelledAt)
       PROVE  OrderedRows'
  BY <1>10, CallerTimesInt DEF Admit, Later, LeasedRows, LeaseRows, Live
<1> QED
  BY <1>1, <1>2, <1>3, <1>4, <1>5, <1>6, <1>7, <1>8, <1>9, <1>10
     DEF vars, Next, SessionStep, OfferStep, HeartbeatStep, ConclusionStep, Tick, OpenSession,
         SetDesired, CloseSession, CloseStaleSession, Disconnect, SessionHeartbeat,
         PublishOffer, AuthorizeRenewal

\* Whatever the clock skew of its callers, no transaction commits a row that
\* the CHECK constraints of job_attempts would reject.
THEOREM WellFormed == Spec => []RowsWellFormed
<1>1. Init => OrderedRows
  BY DEF Init, OrderedRows
<1>2. TypeOK /\ FencingInv /\ OrderedRows /\ [Next]_vars => OrderedRows'
  BY OrderedRowsStep DEF FencingInv
<1>3. Spec => []OrderedRows
  BY <1>1, <1>2, Fencing, PTL DEF Spec
<1>4. TypeOK /\ FencingInv /\ OrderedRows => RowsWellFormed
  BY DEF FencingInv, RowsWellFormed
<1> QED
  BY <1>3, <1>4, Fencing, PTL

-----------------------------------------------------------------------------
(* Sessions.                                                               *)

\* Opening a session supersedes the others and closing one takes the runner
\* offline, so a runner has at most one connected session, its current one.
THEOREM OneSession == Spec => []SessionCurrency
<1> USE DEF SessionCurrency
<1>1. Init => SessionCurrency
  BY DEF Init
<1>2. TypeOK /\ SessionCurrency /\ [Next]_vars => SessionCurrency'
  <2> SUFFICES ASSUME TypeOK, SessionCurrency, [Next]_vars PROVE SessionCurrency'
    OBVIOUS
  <2> USE DEF TypeOK, sessionVars
  <2>1. ASSUME UNCHANGED <<epoch, live, online>> PROVE SessionCurrency'
    BY <2>1
  <2>2. ASSUME NEW r \in Runners, OpenSession(r) PROVE SessionCurrency'
    BY <2>2 DEF OpenSession
  <2>3. ASSUME NEW r \in Runners, Disconnect(r, epoch[r]) PROVE SessionCurrency'
    BY <2>3 DEF Disconnect
  <2>4. CASE SessionStep
    BY <2>1, <2>2, <2>3, <2>4
       DEF SessionStep, SetDesired, CloseSession, CloseStaleSession, SessionHeartbeat
  <2>5. ASSUME Tick \/ UNCHANGED vars PROVE UNCHANGED <<epoch, live, online>>
    BY <2>5 DEF vars, Tick
  <2>6. ASSUME OfferStep PROVE UNCHANGED <<epoch, live, online>>
    BY <2>6 DEF OfferStep, Claim, PublishOffer, AcceptOffer, DeclineOffer
  <2>7. ASSUME HeartbeatStep PROVE UNCHANGED <<epoch, live, online>>
    BY <2>7, HeartbeatFrame DEF HeartbeatStep, AuthorizeRenewal
  <2>8. ASSUME ConclusionStep PROVE UNCHANGED <<epoch, live, online>>
    BY <2>8 DEF ConclusionStep, CommitTerminalResult, ReapExpired, SkipBlocked, RequestCancellation,
                Admit
  <2> QED
    BY <2>1, <2>4, <2>5, <2>6, <2>7, <2>8 DEF Next
<1> QED
  BY <1>1, <1>2, TypeCorrect, PTL DEF Spec

-----------------------------------------------------------------------------
(* Lifecycles.                                                             *)

\* Acknowledging a cancellation neither creates nor removes one.
LEMMA AcknowledgeKeeps ==
  ASSUME TypeOK, NEW acked, NEW a \in Attempts
  PROVE  Acknowledge(acked)[a] = "none" <=> intent[a] = "none"
  BY DEF TypeOK, Acknowledge

\* A stored cancellation sticks in every step of the lease protocol.
LEMMA CancellationStep ==
  ASSUME TypeOK, CancellationSticks, [Next]_vars
  PROVE  CancellationSticks'
<1> USE DEF TypeOK, CancellationSticks, Terminal, attemptVars
<1>1. ASSUME UNCHANGED <<lifecycle, intent>> PROVE CancellationSticks'
  BY <1>1
<1>2. ASSUME NEW r, NEW e, NEW acked, SessionHeartbeat(r, e, acked) PROVE CancellationSticks'
  BY <1>2, AcknowledgeKeeps DEF SessionHeartbeat
<1>3. ASSUME NEW a \in Attempts, NEW r, NEW e, NEW s, Claim(a, r, e, s)
      PROVE  CancellationSticks'
  BY <1>3 DEF Claim
<1>4. ASSUME NEW o \in offers, NEW acked, AcceptOffer(o, acked) PROVE CancellationSticks'
  BY <1>4, AcknowledgeKeeps DEF AcceptOffer, Responding, Claims
<1>5. ASSUME NEW o \in offers, NEW acked, NEW next, DeclineOffer(o, acked, next)
      PROVE  CancellationSticks'
  BY <1>5, AcknowledgeKeeps DEF DeclineOffer, Responding, Claims
<1>6. ASSUME NEW n \in renewals, NEW acked, CommitHeartbeat(n, acked)
      PROVE  CancellationSticks'
  <2> DEFINE a == n.claim.attempt
  <2>1. \/ n.reported = lifecycle[a]
        \/ ValidTransition(lifecycle[a], n.reported)
    BY <1>6 DEF CommitHeartbeat
  <2>2. lifecycle'[a] = n.reported /\ n.reported \in Live /\ a \in Attempts
    BY <1>6, HeartbeatEffect
  <2>3. lifecycle[a] \in {"Cancelling", "Finalizing"} \cup Terminal =>
           n.reported \in {"Cancelling", "Finalizing"} \cup Terminal
    BY <2>1, <2>2 DEF ValidTransition, Live
  <2>4. \A b \in Attempts \ {a} : lifecycle'[b] = lifecycle[b]
    BY <1>6, HeartbeatEffect
  <2>5. \A b \in Attempts : intent'[b] = "none" <=> intent[b] = "none"
    BY <1>6, HeartbeatFrame, AcknowledgeKeeps
  <2> QED
    BY <2>2, <2>3, <2>4, <2>5
<1>7. ASSUME NEW o \in offers, NEW conclusion \in Conclusions,
             CommitTerminalResult(o, conclusion)
      PROVE  CancellationSticks'
  BY <1>7, AcknowledgeKeeps, LeaseAssumption
     DEF CommitTerminalResult, Claims, TerminalLifecycles
<1>8. ASSUME NEW a \in Attempts, ReapExpired(a) PROVE CancellationSticks'
  <2>1. intent' = intent /\ \A b \in Attempts \ {a} : lifecycle'[b] = lifecycle[b]
    BY <1>8 DEF ReapExpired
  <2>2. intent[a] # "none" => Irretrievable(a)
    BY <1>8 DEF ReapExpired, Expired, Irretrievable, Live
  <2>3. Irretrievable(a) => lifecycle'[a] = "Lost"
    BY <1>8 DEF ReapExpired
  <2> QED
    BY <2>1, <2>2, <2>3
<1>9. ASSUME NEW a \in Attempts, NEW t, SkipBlocked(a, t) PROVE CancellationSticks'
  BY <1>9 DEF SkipBlocked
<1>10. ASSUME NEW a \in Attempts, NEW t, RequestCancellation(a, t) PROVE CancellationSticks'
  BY <1>10 DEF RequestCancellation, Lifecycles, Live
<1>11. ASSUME NEW new, NEW t, NEW cancelledAt, Admit(new, t, cancelledAt)
       PROVE  CancellationSticks'
  BY <1>11 DEF Admit
<1> QED
  BY <1>1, <1>2, <1>3, <1>4, <1>5, <1>6, <1>7, <1>8, <1>9, <1>10, <1>11
     DEF vars, Next, SessionStep, OfferStep, HeartbeatStep, ConclusionStep, Tick, OpenSession,
         SetDesired, CloseSession, CloseStaleSession, Disconnect, PublishOffer,
         AuthorizeRenewal

\* No late accept, heartbeat, claim or reap overtakes a stored cancellation.
THEOREM Cancellation == Spec => []CancellationSticks
<1>1. Init => CancellationSticks
  BY DEF Init, CancellationSticks
<1>2. TypeOK /\ CancellationSticks /\ [Next]_vars => CancellationSticks'
  BY CancellationStep
<1> QED
  BY <1>1, <1>2, TypeCorrect, PTL DEF Spec

\* The lifecycle of an attempt moves only by one of these.
LEMMA LifecycleSteps ==
  ASSUME TypeOK, LeasedRows, [Next]_vars, NEW a \in Attempts, lifecycle'[a] # lifecycle[a]
  PROVE  \/ lifecycle[a] = "Absent" /\ lifecycle'[a] = "Queued"
         \/ lifecycle[a] = "Queued" /\ lifecycle'[a] \in {"Leased", "Cancelled", "Skipped"}
         \/ lifecycle[a] = "Leased" /\ lifecycle'[a] \in {"Preparing", "Queued"} \cup Terminal
         \/ lifecycle[a] \in Live /\ lifecycle'[a] \in {"Cancelling"} \cup Terminal
         \/ lifecycle[a] \in Live /\ lifecycle'[a] \in Live
                                  /\ ValidTransition(lifecycle[a], lifecycle'[a])
         \/ lifecycle[a] \in {"Leased", "Preparing"} /\ lifecycle'[a] = "Queued"
<1> USE DEF TypeOK, Live, Terminal, attemptVars
<1>1. ASSUME NEW r, NEW e, NEW s, NEW b \in Attempts, Claim(b, r, e, s)
      PROVE  lifecycle[a] = "Queued" /\ lifecycle'[a] = "Leased"
  BY <1>1 DEF Claim
<1>2. ASSUME NEW o \in offers, NEW acked, AcceptOffer(o, acked)
      PROVE  lifecycle[a] = "Leased" /\ lifecycle'[a] = "Preparing"
  BY <1>2 DEF AcceptOffer, Responding, Claims
<1>3. ASSUME NEW o \in offers, NEW acked, NEW next, DeclineOffer(o, acked, next)
      PROVE  lifecycle[a] = "Leased" /\ lifecycle'[a] \in {"Queued", "Failed"}
  BY <1>3 DEF DeclineOffer, Responding, Claims
<1>4. ASSUME NEW n \in renewals, NEW acked, CommitHeartbeat(n, acked)
      PROVE  lifecycle[a] \in Live /\ lifecycle'[a] \in Live
                                   /\ ValidTransition(lifecycle[a], lifecycle'[a])
  <2>1. n.claim.attempt \in Attempts /\ n.reported \in Live
    BY DEF Renewals, Claims
  <2>2. a = n.claim.attempt
    BY <1>4, <2>1 DEF CommitHeartbeat
  <2>3. lifecycle'[a] = n.reported /\ lifecycle[a] \in Live
    BY <1>4, <2>1, <2>2 DEF CommitHeartbeat, Fenced
  <2> QED
    BY <1>4, <2>1, <2>2, <2>3 DEF CommitHeartbeat
<1>5. ASSUME NEW o \in offers, NEW conclusion \in Conclusions,
             CommitTerminalResult(o, conclusion)
      PROVE  lifecycle[a] \in Live /\ lifecycle'[a] \in Terminal
  BY <1>5, LeaseAssumption DEF CommitTerminalResult, Fenced, Claims, TerminalLifecycles
<1>6. ASSUME NEW b \in Attempts, ReapExpired(b)
      PROVE  \/ lifecycle[a] \in Live /\ lifecycle'[a] = "Lost"
             \/ lifecycle[a] \in {"Leased", "Preparing"} /\ lifecycle'[a] = "Queued"
  <2>1. a = b /\ lifecycle[a] \in Live
    BY <1>6 DEF ReapExpired, Expired
  <2>2. CASE Irretrievable(a)
    BY <1>6, <2>1, <2>2 DEF ReapExpired
  <2>3. CASE ~Irretrievable(a)
    BY <1>6, <2>1, <2>3 DEF ReapExpired, Irretrievable
  <2> QED
    BY <2>2, <2>3
<1>7. ASSUME NEW b \in Attempts, NEW t, SkipBlocked(b, t)
      PROVE  lifecycle[a] = "Queued" /\ lifecycle'[a] = "Skipped"
  BY <1>7 DEF SkipBlocked
<1>8. ASSUME NEW b \in Attempts, NEW t, RequestCancellation(b, t)
      PROVE  \/ lifecycle[a] = "Queued" /\ lifecycle'[a] = "Cancelled"
             \/ lifecycle[a] \in Live /\ lifecycle'[a] = "Cancelling"
  BY <1>8 DEF RequestCancellation
<1>9. ASSUME NEW new, NEW t, NEW cancelledAt, Admit(new, t, cancelledAt)
      PROVE  \/ lifecycle[a] = "Absent" /\ lifecycle'[a] = "Queued"
             \/ lifecycle[a] = "Queued" /\ lifecycle'[a] = "Cancelled"
             \/ lifecycle[a] \in Live /\ lifecycle'[a] = "Cancelling"
  BY <1>9 DEF Admit
<1>10. CASE lifecycle' = lifecycle
  BY <1>10
<1> QED
  BY <1>1, <1>2, <1>3, <1>4, <1>5, <1>6, <1>7, <1>8, <1>9, <1>10
     DEF vars, Next, SessionStep, OfferStep, HeartbeatStep, ConclusionStep, Tick, OpenSession,
         SetDesired, CloseSession, CloseStaleSession, Disconnect, SessionHeartbeat,
         PublishOffer, AuthorizeRenewal

\* Work that may have started is never handed out again, and no transaction
\* changes a terminal lifecycle.
THEOREM NoRestart == Spec => NeverRestarted
<1>1. ASSUME TypeOK, LeasedRows, [Next]_vars, NEW a \in Attempts
      PROVE  /\ lifecycle[a] \in {"Running", "Cancelling", "Finalizing"} =>
                   lifecycle'[a] \notin {"Absent", "Queued", "Leased", "Preparing"}
             /\ lifecycle[a] \in Terminal => lifecycle'[a] = lifecycle[a]
  BY <1>1, LifecycleSteps DEF ValidTransition, Live, Terminal
<1>2. TypeOK /\ FencingInv /\ [Next]_vars =>
         [\A a \in Attempts :
            /\ lifecycle[a] \in {"Running", "Cancelling", "Finalizing"} =>
                  lifecycle'[a] \notin {"Absent", "Queued", "Leased", "Preparing"}
            /\ lifecycle[a] \in Terminal => lifecycle'[a] = lifecycle[a]]_vars
  BY <1>1 DEF FencingInv
<1> QED
  BY <1>2, Fencing, PTL DEF Spec, NeverRestarted

-----------------------------------------------------------------------------
(* Orphaned leases.                                                        *)

\* The session of a fenced credential with a live route owns the lease.
LEMMA FencedRoute ==
  ASSUME NEW c, Fenced(c), LiveRouting(c.runner, c.epoch)
  PROVE  lease[c.attempt].epoch \in live[lease[c.attempt].runner]
  BY DEF Fenced, LiveRouting

\* Only expiry ends the lease of a session that is gone, and only a preemption
\* marks its attempt until then.
LEMMA OrphanStep ==
  ASSUME TypeOK, LeasedRows, [Next]_vars, NEW a \in Attempts,
         lease[a] # NoLease, lease[a].epoch \notin live[lease[a].runner]
  PROVE  \/ lease'[a] = lease[a] /\ lifecycle'[a] \in {lifecycle[a], "Cancelling"}
         \/ lease'[a] = NoLease /\ lease[a].expiresAt <= now
<1> USE DEF TypeOK, LeasedRows, attemptVars
<1>1. lifecycle[a] \in Live
  OBVIOUS
<1>2. ASSUME NEW o, Fenced(o), LiveRouting(o.runner, o.epoch) PROVE o.attempt # a
  BY <1>2, FencedRoute
<1>3. ASSUME NEW b \in Attempts, NEW r, NEW e, NEW s, Claim(b, r, e, s)
      PROVE  lease'[a] = lease[a] /\ lifecycle'[a] = lifecycle[a]
  BY <1>1, <1>3 DEF Claim, Live
<1>4. ASSUME NEW o \in offers, NEW acked, Responding(o, acked) PROVE o.attempt # a
  BY <1>2, <1>4 DEF Responding
<1>5. ASSUME NEW o \in offers, NEW acked, AcceptOffer(o, acked)
      PROVE  lease'[a] = lease[a] /\ lifecycle'[a] = lifecycle[a]
  BY <1>4, <1>5 DEF AcceptOffer
<1>6. ASSUME NEW o \in offers, NEW acked, NEW next, DeclineOffer(o, acked, next)
      PROVE  lease'[a] = lease[a] /\ lifecycle'[a] = lifecycle[a]
  BY <1>4, <1>6 DEF DeclineOffer
<1>7. ASSUME NEW n \in renewals, NEW acked, CommitHeartbeat(n, acked)
      PROVE  lease'[a] = lease[a] /\ lifecycle'[a] = lifecycle[a]
  <2>1. n.claim.attempt # a
    BY <1>2, <1>7 DEF CommitHeartbeat
  <2> QED
    BY <1>7, <2>1 DEF CommitHeartbeat
<1>8. ASSUME NEW o \in offers, NEW conclusion, CommitTerminalResult(o, conclusion)
      PROVE  lease'[a] = lease[a] /\ lifecycle'[a] = lifecycle[a]
  <2>1. o.attempt # a
    BY <1>2, <1>8 DEF CommitTerminalResult
  <2> QED
    BY <1>8, <2>1 DEF CommitTerminalResult
<1>9. ASSUME NEW b \in Attempts, ReapExpired(b)
      PROVE  \/ lease'[a] = lease[a] /\ lifecycle'[a] = lifecycle[a]
             \/ lease'[a] = NoLease /\ lease[a].expiresAt <= now
  BY <1>9 DEF ReapExpired, Expired
<1>10. ASSUME NEW b \in Attempts, NEW t, SkipBlocked(b, t)
       PROVE  lease'[a] = lease[a] /\ lifecycle'[a] = lifecycle[a]
  BY <1>1, <1>10 DEF SkipBlocked, Live
<1>11. ASSUME NEW b \in Attempts, NEW t, RequestCancellation(b, t)
       PROVE  lease'[a] = lease[a] /\ lifecycle'[a] = lifecycle[a]
  BY <1>1, <1>11 DEF RequestCancellation, LiveRouting
<1>12. ASSUME NEW new, NEW t, NEW cancelledAt, Admit(new, t, cancelledAt)
       PROVE  lease'[a] = lease[a] /\ lifecycle'[a] \in {lifecycle[a], "Cancelling"}
  BY <1>1, <1>12 DEF Admit, Live
<1>13. CASE UNCHANGED <<lease, lifecycle>>
  BY <1>13
<1> QED
  BY <1>3, <1>5, <1>6, <1>7, <1>8, <1>9, <1>10, <1>11, <1>12, <1>13
     DEF vars, Next, SessionStep, OfferStep, HeartbeatStep, ConclusionStep, Tick, OpenSession,
         SetDesired, CloseSession, CloseStaleSession, Disconnect, SessionHeartbeat,
         PublishOffer, AuthorizeRenewal

\* A lease whose session was closed or superseded can only run out.
THEOREM OrphansRunOut == Spec => OrphanFrozen
<1>1. TypeOK /\ FencingInv /\ [Next]_vars =>
         [\A a \in Attempts :
            lease[a] # NoLease /\ lease[a].epoch \notin live[lease[a].runner] =>
                \/ lease'[a] = lease[a] /\ lifecycle'[a] \in {lifecycle[a], "Cancelling"}
                \/ lease'[a] = NoLease /\ lease[a].expiresAt <= now]_vars
  BY OrphanStep DEF FencingInv
<1> QED
  BY <1>1, Fencing, PTL DEF Spec, OrphanFrozen

-----------------------------------------------------------------------------
(* Terminal evidence.                                                      *)

\* A CancelJob command is stored together with its intent, and only once.
Deliveries == /\ \A c \in cancels : intent[c.attempt] # "none"
              /\ \A c, d \in cancels : c.attempt = d.attempt => c = d

\* No step stores a second command for an attempt or one without its intent.
LEMMA DeliveriesStep ==
  ASSUME TypeOK, LeasedRows, Deliveries, [Next]_vars
  PROVE  Deliveries'
<1> USE DEF TypeOK, Deliveries, Cancels, attemptVars, messageVars
<1>1. ASSUME UNCHANGED <<intent, cancels>> PROVE Deliveries'
  BY <1>1
<1>2. ASSUME NEW acked, intent' = Acknowledge(acked), cancels' = cancels PROVE Deliveries'
  BY <1>2, AcknowledgeKeeps
<1>3. ASSUME NEW a \in Attempts, NEW t, RequestCancellation(a, t) PROVE Deliveries'
  BY <1>3 DEF RequestCancellation, CancelCommand
<1>4. ASSUME NEW new, NEW t, NEW cancelledAt, Admit(new, t, cancelledAt), DOMAIN cancelledAt \subseteq Attempts
      PROVE  Deliveries'
  BY <1>4 DEF Admit, CancelCommand
<1>5. CASE Tick \/ SessionStep \/ UNCHANGED vars
  BY <1>1, <1>2, <1>5
     DEF vars, Tick, SessionStep, OpenSession, SetDesired, CloseSession, CloseStaleSession,
         Disconnect, SessionHeartbeat
<1>6. CASE OfferStep
  <2>1. ASSUME NEW a, NEW r, NEW e, NEW s, Claim(a, r, e, s) PROVE UNCHANGED <<intent, cancels>>
    BY <2>1 DEF Claim
  <2>2. ASSUME NEW c, PublishOffer(c) PROVE UNCHANGED <<intent, cancels>>
    BY <2>2 DEF PublishOffer
  <2>3. ASSUME NEW o, NEW acked, AcceptOffer(o, acked) \/ \E next : DeclineOffer(o, acked, next)
        PROVE  intent' = Acknowledge(acked) /\ cancels' = cancels
    BY <2>3 DEF AcceptOffer, DeclineOffer, Responding
  <2> HIDE DEF TypeOK, Deliveries
  <2> QED
    BY <1>1, <1>2, <1>6, <2>1, <2>2, <2>3 DEF OfferStep
<1>7. CASE HeartbeatStep
  BY <1>1, <1>2, <1>7, HeartbeatFrame DEF HeartbeatStep, AuthorizeRenewal
<1>8. CASE ConclusionStep
  BY <1>1, <1>2, <1>3, <1>4, <1>8
     DEF ConclusionStep, CommitTerminalResult, ReapExpired, SkipBlocked
<1> QED
  BY <1>5, <1>6, <1>7, <1>8 DEF Next

\* No step concludes an attempt without the evidence its lifecycle calls for.
LEMMA EvidenceStep ==
  ASSUME TypeOK, LeasedRows, Deliveries, TerminalEvidence, [Next]_vars
  PROVE  TerminalEvidence'
<1> USE DEF TypeOK, TerminalEvidence, TerminalLifecycles, attemptVars, messageVars
<1>1. ASSUME UNCHANGED <<lifecycle, terminal, intent, cancels, changedAt>>
      PROVE  TerminalEvidence'
  BY <1>1
<1>2. ASSUME NEW r, NEW e, NEW acked, SessionHeartbeat(r, e, acked) PROVE TerminalEvidence'
  BY <1>2 DEF SessionHeartbeat, Acknowledge
<1>3. ASSUME NEW a \in Attempts, NEW r, NEW e, NEW s, Claim(a, r, e, s) PROVE TerminalEvidence'
  BY <1>3 DEF Claim
<1>4. ASSUME NEW o \in offers, NEW acked, AcceptOffer(o, acked) PROVE TerminalEvidence'
  BY <1>4 DEF AcceptOffer, Responding, Acknowledge, Claims
<1>5. ASSUME NEW o \in offers, NEW acked, NEW next, DeclineOffer(o, acked, next)
      PROVE  TerminalEvidence'
  BY <1>5 DEF DeclineOffer, Responding, Acknowledge, Claims
<1>6. ASSUME NEW n \in renewals, NEW acked, CommitHeartbeat(n, acked) PROVE TerminalEvidence'
  <2> DEFINE c == n.claim
  <2>1. c.attempt \in Attempts /\ lifecycle[c.attempt] \in Live /\ lifecycle'[c.attempt] \in Live
    BY <1>6, HeartbeatEffect
  <2>2. terminal[c.attempt] = "none"
    BY <2>1 DEF Live, Authorities
  <2>3. UNCHANGED <<terminal, cancels>> /\ \A b \in Attempts \ {c.attempt} :
            lifecycle'[b] = lifecycle[b] /\ changedAt'[b] = changedAt[b]
    BY <1>6, <2>1, HeartbeatEffect, HeartbeatFrame
  <2>4. \A b \in Attempts : /\ intent'[b] = "open" => intent[b] = "open"
                            /\ intent[b] # "none" => intent'[b] # "none"
    BY <1>6, HeartbeatFrame DEF Acknowledge
  <2>5. lifecycle[c.attempt] # "Lost" /\ lifecycle'[c.attempt] # "Lost"
    BY <2>1 DEF Live
  <2> HIDE DEF TypeOK
  <2>6. terminal' = terminal /\ cancels' = cancels
    BY <2>3
  <2>7. ASSUME NEW b \in Attempts
        PROVE  /\ lifecycle'[b] = "Lost" <=> terminal'[b] = "server_lease_expiry"
               /\ terminal'[b] = "server_cancellation" =>
                     lifecycle'[b] = "Cancelled" /\ intent'[b] # "none"
               /\ terminal'[b] = "runner" => lifecycle'[b] \in TerminalLifecycles
               /\ terminal'[b] = "runner" /\ intent'[b] = "open" =>
                     \A k \in cancels' : k.attempt = b => k.requestedAt > changedAt'[b]
    <3>1. CASE b = c.attempt
      BY <2>2, <2>5, <2>6, <3>1
    <3>2. CASE b # c.attempt
      <4>1. lifecycle'[b] = lifecycle[b] /\ changedAt'[b] = changedAt[b]
        BY <2>3, <3>2
      <4>2. \A k \in cancels' : k \in cancels /\ k.requestedAt \in Int /\ changedAt[b] \in Int
        BY <2>6 DEF TypeOK, Cancels
      <4> QED
        BY <2>4, <2>6, <4>1, <4>2
    <3> QED
      BY <3>1, <3>2
  <2> QED
    BY <2>7
<1>7. ASSUME NEW o \in offers, NEW conclusion \in Conclusions,
             CommitTerminalResult(o, conclusion)
      PROVE  TerminalEvidence'
  BY <1>7, LeaseAssumption
     DEF CommitTerminalResult, Fenced, Acknowledge, Deliveries, Cancels, Claims, Live
<1>8. ASSUME NEW a \in Attempts, ReapExpired(a) PROVE TerminalEvidence'
  BY <1>8 DEF ReapExpired, Expired, Live
<1>9. ASSUME NEW a \in Attempts, NEW t, SkipBlocked(a, t) PROVE TerminalEvidence'
  BY <1>9 DEF SkipBlocked
<1>10. ASSUME NEW a \in Attempts, NEW t, RequestCancellation(a, t) PROVE TerminalEvidence'
  BY <1>10 DEF RequestCancellation, Deliveries, CancelCommand, Live, Terminal, Lifecycles
<1>11. ASSUME NEW new \in SUBSET Attempts, NEW t, NEW cancelledAt, DOMAIN cancelledAt \subseteq Attempts,
              Admit(new, t, cancelledAt)
       PROVE  TerminalEvidence'
  BY <1>11 DEF Admit, CancelCommand, Live
<1> QED
  BY <1>1, <1>2, <1>3, <1>4, <1>5, <1>6, <1>7, <1>8, <1>9, <1>10, <1>11
     DEF vars, Next, SessionStep, OfferStep, HeartbeatStep, ConclusionStep, Tick, OpenSession,
         SetDesired, CloseSession, CloseStaleSession, Disconnect, PublishOffer,
         AuthorizeRenewal

\* Every terminal row agrees with the attempt it concludes.
THEOREM Evidence == Spec => []TerminalEvidence
<1>1. Init => Deliveries /\ TerminalEvidence
  BY DEF Init, Deliveries, TerminalEvidence
<1>2. TypeOK /\ FencingInv /\ Deliveries /\ TerminalEvidence /\ [Next]_vars =>
         (Deliveries /\ TerminalEvidence)'
  BY DeliveriesStep, EvidenceStep DEF FencingInv
<1> QED
  BY <1>1, <1>2, Fencing, PTL DEF Spec
=============================================================================
