------------------------ MODULE ExclusiveWorkProofs ------------------------
(***************************************************************************)
(* AttemptLease implements ExclusiveWork, for any number of attempts,      *)
(* runners and slots and any durations and bounds.                         *)
(***************************************************************************)
EXTENDS AttemptLeaseProofs

\* A runner gives up a belief no later than it runs out.
BeliefsCurrent == \A h \in held : now < h.until

\* What the refinement rests on.
RefinementInv == TypeOK /\ FencingInv /\ BeliefsCurrent

\* No step leaves a belief that has run out.
LEMMA BeliefsCurrentStep ==
  ASSUME TypeOK, BeliefsCurrent, [Next]_vars
  PROVE  BeliefsCurrent'
<1> USE DEF BeliefsCurrent, attemptVars, messageVars
<1>1. ASSUME now' = now, held' \subseteq held PROVE BeliefsCurrent'
  BY <1>1
<1>2. ASSUME Tick PROVE BeliefsCurrent'
  BY <1>2 DEF Tick
<1>3. ASSUME NEW c \in claims, PublishOffer(c) PROVE BeliefsCurrent'
  BY <1>3 DEF PublishOffer, Believing, Belief
<1>4. ASSUME NEW n \in renewals, NEW acked, CommitHeartbeat(n, acked) PROVE BeliefsCurrent'
  <2>1. now' = now /\ now < n.expiresAt /\ held' = Believing(Belief(n.claim, n.expiresAt))
    BY <1>4, HeartbeatEffect, HeartbeatFrame
  <2> QED
    BY <2>1 DEF Believing, Belief
<1>5. ASSUME NEW a, NEW r, NEW e, NEW s, Claim(a, r, e, s) PROVE now' = now /\ held' \subseteq held
  BY <1>5 DEF Claim
<1>6. ASSUME NEW o, \/ \E acked, next : DeclineOffer(o, acked, next)
                    \/ \E conclusion : CommitTerminalResult(o, conclusion)
      PROVE  now' = now /\ held' \subseteq held
  BY <1>6 DEF DeclineOffer, CommitTerminalResult, Surrendered
<1>7. ASSUME NEW a, ReapExpired(a) PROVE now' = now /\ held' \subseteq held
  BY <1>7 DEF ReapExpired
<1> QED
  <2> HIDE DEF BeliefsCurrent
  <2> QED
    BY <1>1, <1>2, <1>3, <1>4, <1>5, <1>6, <1>7, LeaseSteps

-----------------------------------------------------------------------------
(* What the abstract variables say of the rows.                            *)

\* A leased row has a place, the runner and slot of its lease.
LEMMA PlaceOfLease ==
  ASSUME NEW row \in LeaseRows
  PROVE  /\ row # NoLease
         /\ PlaceOf(row) = <<row.runner, row.slot>>
         /\ PlaceOf(row) \in Runners \X Slots
         /\ PlaceOf(row) # NoLease
  BY LeaseAssumption DEF PlaceOf, LeaseRows

\* The phase and the place of one attempt, now and after a step.
LEMMA WorkOf ==
  ASSUME NEW a \in Attempts
  PROVE  /\ WorkPhase[a] = PhaseOf(lifecycle[a]) /\ WorkPhase'[a] = PhaseOf(lifecycle'[a])
         /\ WorkPlace[a] = PlaceOf(lease[a]) /\ WorkPlace'[a] = PlaceOf(lease'[a])
  BY DEF WorkPhase, WorkPlace

\* The phases of the lifecycles.
LEMMA Phases ==
  /\ PhaseOf("Absent") = "absent" /\ PhaseOf("Queued") = "waiting"
  /\ PhaseOf("Leased") = "assigned" /\ PhaseOf("Preparing") = "assigned"
  /\ \A l \in {"Running", "Cancelling", "Finalizing"} : PhaseOf(l) = "started"
  /\ \A l \in Terminal : PhaseOf(l) = "done"
  BY DEF PhaseOf, Terminal

\* Whoever executes an attempt has its lease and executes it where it is leased.
LEMMA ExecutedWhereLeased ==
  ASSUME RefinementInv, NEW h \in held
  PROVE  /\ h.attempt \in Attempts /\ lease[h.attempt] \in LeaseRows
         /\ token[h.attempt] = h.token
         /\ WorkPlace[h.attempt] = <<h.runner, h.slot>>
         /\ h.until <= lease[h.attempt].expiresAt
<1>1. h.attempt \in Attempts /\ now < h.until
  BY DEF RefinementInv, BeliefsCurrent, TypeOK, Beliefs
<1>2. lease[h.attempt] \in LeaseRows /\ lease[h.attempt].runner = h.runner
      /\ lease[h.attempt].slot = h.slot /\ token[h.attempt] = h.token
      /\ h.until <= lease[h.attempt].expiresAt
  BY <1>1 DEF RefinementInv, FencingInv, BeliefsBacked, TypeOK
<1> QED
  BY <1>1, <1>2, PlaceOfLease, WorkOf

\* One attempt's phase moves and nothing else is seen.
LEMMA PhaseMoves ==
  ASSUME NEW a \in Attempts, NEW l, lifecycle \in [Attempts -> Lifecycles],
         lifecycle' = [lifecycle EXCEPT ![a] = l]
  PROVE  WorkPhase' = [WorkPhase EXCEPT ![a] = PhaseOf(l)]
  BY DEF WorkPhase

\* One attempt's place moves and no other.
LEMMA PlaceMoves ==
  ASSUME NEW a \in Attempts, NEW row, lease \in [Attempts -> LeaseRows \cup {NoLease}],
         lease' = [lease EXCEPT ![a] = row]
  PROVE  WorkPlace' = [WorkPlace EXCEPT ![a] = PlaceOf(row)]
  BY DEF WorkPlace

\* A renewed or first belief is one more execution at the attempt's place.
LEMMA BelievingExecutes ==
  ASSUME RefinementInv, NEW c \in Claims, NEW until, lease[c.attempt] \in LeaseRows,
         token[c.attempt] = c.token, lease[c.attempt].runner = c.runner,
         lease[c.attempt].slot = c.slot, held' = Believing(Belief(c, until))
  PROVE  WorkExecuting' = WorkExecuting \cup {<<c.attempt, WorkPlace[c.attempt]>>}
<1> DEFINE b == Belief(c, until)
           pair(h) == <<h.attempt, <<h.runner, h.slot>>>>
<1>1. c.attempt \in Attempts
  BY DEF Claims
<1>2. WorkPlace[c.attempt] = <<c.runner, c.slot>>
  BY <1>1, PlaceOfLease, WorkOf
<1>3. pair(b) = <<c.attempt, WorkPlace[c.attempt]>>
  BY <1>2 DEF Belief
<1>4. \A h \in held : h \notin held' => pair(h) = pair(b)
  BY <1>3, ExecutedWhereLeased DEF Believing, Belief
<1>5. held' \subseteq held \cup {b} /\ b \in held'
  BY DEF Believing
<1>6. WorkExecuting = {pair(h) : h \in held} /\ WorkExecuting' = {pair(h) : h \in held'}
  BY DEF WorkExecuting
<1> HIDE DEF b, pair
<1> QED
  BY <1>3, <1>4, <1>5, <1>6

\* Nobody executes an attempt once its lease was surrendered.
LEMMA SurrenderEnds ==
  ASSUME RefinementInv, NEW c, token[c.attempt] = c.token, held' = Surrendered(c)
  PROVE  WorkExecuting' = {e \in WorkExecuting : e[1] # c.attempt}
<1>1. \A h \in held : h.attempt = c.attempt => h.token = c.token
  BY ExecutedWhereLeased
<1>2. held' = {h \in held : h.attempt # c.attempt}
  BY <1>1 DEF Surrendered
<1> QED
  BY <1>2 DEF WorkExecuting

-----------------------------------------------------------------------------
(* The steps.                                                              *)

\* The runner's beliefs that run out are executions that stop.
LEMMA TickRefines ==
  ASSUME RefinementInv, Tick
  PROVE  Abstract!WorkNext
<1>1. WorkExecuting' \in SUBSET WorkExecuting
  BY DEF Tick, WorkExecuting
<1>2. WorkPhase' = WorkPhase /\ WorkPlace' = WorkPlace
  BY DEF Tick, attemptVars, WorkPhase, WorkPlace
<1>3. Abstract!Stop(WorkExecuting')
  BY <1>1, <1>2 DEF Abstract!Stop
<1> QED
  BY <1>1, <1>3 DEF Abstract!WorkNext

\* A claim assigns waiting work to a place that has none and executes none.
LEMMA ClaimRefines ==
  ASSUME RefinementInv, NEW a \in Attempts, NEW r \in Runners, NEW s \in Slots,
         Claim(a, r, epoch[r], s)
  PROVE  Abstract!WorkNext
<1> USE DEF RefinementInv, FencingInv
<1> DEFINE row == [runner |-> r, epoch |-> epoch[r], slot |-> s, issuedAt |-> now,
                   expiresAt |-> now + LeaseDuration]
           p == <<r, s>>
<1>1. row \in LeaseRows /\ PlaceOf(row) = p /\ p \in Runners \X Slots /\ p # NoLease
  BY LeaseAssumption, PlaceOfLease DEF TypeOK, LeaseRows
<1>2. WorkPhase[a] = "waiting"
  BY WorkOf, Phases DEF Claim
<1>3. \A v \in Attempts : WorkPlace[v] # p
  <2> SUFFICES ASSUME NEW v \in Attempts, WorkPlace[v] = p PROVE FALSE
    OBVIOUS
  <2>1. lease[v] \in LeaseRows
    <3>1. PlaceOf(lease[v]) # NoLease
      BY <1>1, WorkOf
    <3> QED
      BY <3>1 DEF TypeOK, PlaceOf
  <2>2. lease[v] # NoLease /\ lease[v].runner = r /\ lease[v].slot = s
    BY <2>1, WorkOf, PlaceOfLease
  <2> QED
    BY <2>2 DEF Claim, Occupied
<1>4. \A e \in WorkExecuting : e[1] # a /\ e[2] # p
  <2> SUFFICES ASSUME NEW h \in held PROVE h.attempt # a /\ <<h.runner, h.slot>> # p
    BY DEF WorkExecuting
  <2>1. h.attempt \in Attempts /\ lease[h.attempt] # NoLease
        /\ WorkPlace[h.attempt] = <<h.runner, h.slot>>
    BY ExecutedWhereLeased, PlaceOfLease
  <2>2. lease[a] = NoLease
    BY DEF LeasedRows, Claim, Live
  <2> QED
    BY <1>3, <2>1, <2>2
<1>5. WorkPhase' = [WorkPhase EXCEPT ![a] = "assigned"]
  <2>1. lifecycle' = [lifecycle EXCEPT ![a] = "Leased"]
    BY DEF Claim
  <2>2. WorkPhase' = [WorkPhase EXCEPT ![a] = PhaseOf("Leased")]
    BY <2>1, PhaseMoves DEF TypeOK
  <2> QED
    BY <2>2, Phases
<1>6. WorkPlace' = [WorkPlace EXCEPT ![a] = p]
  <2>1. lease' = [lease EXCEPT ![a] = row]
    BY DEF Claim
  <2> HIDE DEF row
  <2> QED
    BY <1>1, <2>1, PlaceMoves DEF TypeOK
<1>7. WorkExecuting' = WorkExecuting
  BY DEF Claim, WorkExecuting
<1>8. Abstract!Assign(a, p)
  BY <1>2, <1>3, <1>4, <1>5, <1>6, <1>7 DEF Abstract!Assign
<1> QED
  BY <1>1, <1>8 DEF Abstract!WorkNext

\* A published offer is the first belief in a lease: its place executes the work.
LEMMA PublishRefines ==
  ASSUME RefinementInv, NEW c \in claims, PublishOffer(c)
  PROVE  Abstract!WorkNext
<1> DEFINE a == c.attempt
<1>1. c \in Claims /\ a \in Attempts
  BY DEF RefinementInv, TypeOK, Claims
<1>2. /\ lifecycle[a] \in Live /\ lease[a] \in LeaseRows /\ token[a] = c.token
      /\ lease[a].runner = c.runner /\ lease[a].slot = c.slot
  BY <1>1 DEF PublishOffer, Fenced, RefinementInv, TypeOK
<1>3. held' = Believing(Belief(c, c.expiresAt)) /\ lifecycle' = lifecycle /\ lease' = lease
  BY DEF PublishOffer, attemptVars
<1>4. WorkExecuting' = WorkExecuting \cup {<<a, WorkPlace[a]>>}
  BY <1>1, <1>2, <1>3, BelievingExecutes
<1>5. WorkPlace[a] # NoLease
  BY <1>1, <1>2, PlaceOfLease, WorkOf
<1>6. WorkPhase[a] \in {"assigned", "started"}
  BY <1>1, <1>2, WorkOf, Phases DEF Live
<1>7. WorkPhase' = WorkPhase /\ WorkPlace' = WorkPlace
  BY <1>3 DEF WorkPhase, WorkPlace
<1>8. WorkPhase' = [WorkPhase EXCEPT ![a] = WorkPhase[a]]
  BY <1>1, <1>7 DEF WorkPhase
<1>9. Abstract!Execute(a, WorkPhase[a])
  BY <1>4, <1>5, <1>7, <1>8 DEF Abstract!Execute
<1> QED
  BY <1>1, <1>6, <1>9 DEF Abstract!WorkNext

\* A committed heartbeat prolongs the execution and may start the work.
LEMMA HeartbeatRefines ==
  ASSUME RefinementInv, NEW n \in renewals, NEW acked, CommitHeartbeat(n, acked)
  PROVE  Abstract!WorkNext
<1> DEFINE a == n.claim.attempt
<1> USE DEF RefinementInv
<1>1. /\ n.claim \in Claims /\ a \in Attempts /\ n.reported \in Live /\ lifecycle[a] \in Live
      /\ lifecycle' = [lifecycle EXCEPT ![a] = n.reported] /\ lease[a] \in LeaseRows
      /\ lease' \in [Attempts -> LeaseRows \cup {NoLease}]
      /\ \A b \in Attempts \ {a} : lease'[b] = lease[b]
      /\ lease'[a] # NoLease
      /\ lease'[a].runner = lease[a].runner /\ lease'[a].slot = lease[a].slot
  BY HeartbeatEffect
<1>2. /\ token[a] = n.claim.token
      /\ lease[a].runner = n.claim.runner /\ lease[a].slot = n.claim.slot
      /\ held' = Believing(Belief(n.claim, n.expiresAt))
  BY HeartbeatFrame
<1>3. n.reported = lifecycle[a] \/ ValidTransition(lifecycle[a], n.reported)
  BY DEF CommitHeartbeat
<1> DEFINE next == PhaseOf(n.reported)
<1>4. WorkExecuting' = WorkExecuting \cup {<<a, WorkPlace[a]>>}
  BY <1>1, <1>2, BelievingExecutes
<1>5. WorkPlace[a] # NoLease
  BY <1>1, PlaceOfLease, WorkOf
<1>6. next \in {"assigned", "started"}
  BY <1>1, Phases DEF Live
<1>7. next = WorkPhase[a] \/ next = "started"
  <2>1. \/ n.reported = lifecycle[a]
        \/ n.reported \in {"Running", "Cancelling", "Finalizing"}
        \/ lifecycle[a] = "Leased" /\ n.reported = "Preparing"
    BY <1>1, <1>3 DEF ValidTransition, Live
  <2> QED
    BY <1>1, <2>1, WorkOf, Phases
<1>8. WorkPhase' = [WorkPhase EXCEPT ![a] = next]
  BY <1>1, PhaseMoves DEF TypeOK
<1>9. WorkPlace' = WorkPlace
  <2>1. lease'[a] \in LeaseRows
    BY <1>1
  <2>2. PlaceOf(lease'[a]) = PlaceOf(lease[a])
    BY <1>1, <2>1, PlaceOfLease
  <2>3. \A b \in Attempts : PlaceOf(lease'[b]) = PlaceOf(lease[b])
    BY <1>1, <2>2
  <2> QED
    BY <2>3 DEF WorkPlace
<1>10. Abstract!Execute(a, next)
  BY <1>4, <1>5, <1>7, <1>8, <1>9 DEF Abstract!Execute
<1> QED
  BY <1>1, <1>6, <1>10 DEF Abstract!WorkNext

\* What ends a lease releases the work; only work that was assigned and has
\* not started waits again.
LEMMA ReleaseRefines ==
  ASSUME RefinementInv, NEW a \in Attempts, NEW l, lease[a] \in LeaseRows,
         lifecycle' = [lifecycle EXCEPT ![a] = l],
         lease' = [lease EXCEPT ![a] = NoLease],
         l \in Terminal \/ (l = "Queued" /\ lifecycle[a] \in {"Leased", "Preparing"}),
         WorkExecuting' = {e \in WorkExecuting : e[1] # a}
  PROVE  Abstract!WorkNext
<1> DEFINE next == PhaseOf(l)
<1>1. WorkPlace[a] # NoLease
  BY PlaceOfLease, WorkOf
<1>2. next = "done" \/ (next = "waiting" /\ WorkPhase[a] = "assigned")
  BY WorkOf, Phases
<1>3. WorkPhase' = [WorkPhase EXCEPT ![a] = next]
  BY PhaseMoves DEF RefinementInv, TypeOK
<1>4. WorkPlace' = [WorkPlace EXCEPT ![a] = PlaceOf(NoLease)]
  BY PlaceMoves DEF RefinementInv, TypeOK
<1>5. WorkPlace' = [WorkPlace EXCEPT ![a] = NoLease]
  BY <1>4 DEF PlaceOf
<1>6. Abstract!Release(a, next)
  BY <1>1, <1>2, <1>3, <1>5 DEF Abstract!Release, Abstract!ExecutingBut
<1> QED
  BY <1>2, <1>6 DEF Abstract!WorkNext

\* A declined offer releases work that has not started.
LEMMA DeclineRefines ==
  ASSUME RefinementInv, NEW o \in offers, NEW acked, NEW next, DeclineOffer(o, acked, next)
  PROVE  Abstract!WorkNext
<1> DEFINE a == o.attempt
<1>1. /\ a \in Attempts /\ lease[a] \in LeaseRows /\ token[a] = o.token
      /\ lifecycle[a] = "Leased"
  BY DEF RefinementInv, TypeOK, Claims, DeclineOffer, Responding, Fenced
<1>2. WorkExecuting' = {e \in WorkExecuting : e[1] # a}
  BY <1>1, SurrenderEnds DEF DeclineOffer
<1>3. next \in Terminal \/ next = "Queued"
  BY DEF DeclineOffer, Terminal
<1>4. /\ lifecycle' = [lifecycle EXCEPT ![a] = next]
      /\ lease' = [lease EXCEPT ![a] = NoLease]
  BY DEF DeclineOffer
<1> QED
  BY <1>1, <1>2, <1>3, <1>4, ReleaseRefines

\* A terminal result releases the work for good.
LEMMA ResultRefines ==
  ASSUME RefinementInv, NEW o \in offers, NEW conclusion \in Conclusions,
         CommitTerminalResult(o, conclusion)
  PROVE  Abstract!WorkNext
<1> DEFINE a == o.attempt
<1>1. a \in Attempts /\ lease[a] \in LeaseRows /\ token[a] = o.token
  BY DEF RefinementInv, TypeOK, Claims, CommitTerminalResult, Fenced
<1>2. WorkExecuting' = {e \in WorkExecuting : e[1] # a}
  BY <1>1, SurrenderEnds DEF CommitTerminalResult
<1>3. conclusion \in Terminal
  BY LeaseAssumption DEF Terminal, TerminalLifecycles
<1>4. /\ lifecycle' = [lifecycle EXCEPT ![a] = conclusion]
      /\ lease' = [lease EXCEPT ![a] = NoLease]
  BY DEF CommitTerminalResult
<1> QED
  BY <1>1, <1>2, <1>3, <1>4, ReleaseRefines

\* The reaper releases work that nobody executes any more.
LEMMA ReapRefines ==
  ASSUME RefinementInv, NEW a \in Attempts, ReapExpired(a)
  PROVE  Abstract!WorkNext
<1> DEFINE l == IF Irretrievable(a) THEN "Lost" ELSE "Queued"
<1>1. lease[a] \in LeaseRows /\ lease[a].expiresAt <= now /\ lifecycle[a] \in Live
  BY DEF RefinementInv, TypeOK, ReapExpired, Expired
<1>2. \A h \in held : h.attempt # a
  <2> SUFFICES ASSUME NEW h \in held, h.attempt = a PROVE FALSE
    OBVIOUS
  <2>1. now < h.until /\ h.until <= lease[a].expiresAt
    BY ExecutedWhereLeased DEF RefinementInv, BeliefsCurrent
  <2>2. now \in Int /\ h.until \in Int /\ lease[a].expiresAt \in Int
    BY <1>1 DEF RefinementInv, TypeOK, Beliefs, LeaseRows
  <2> QED
    BY <1>1, <2>1, <2>2
<1>3. WorkExecuting' = {e \in WorkExecuting : e[1] # a}
  BY <1>2 DEF ReapExpired, messageVars, WorkExecuting
<1>4. l \in Terminal \/ (l = "Queued" /\ lifecycle[a] \in {"Leased", "Preparing"})
  BY <1>1 DEF Irretrievable, Live, Terminal
<1>5. /\ lifecycle' = [lifecycle EXCEPT ![a] = l]
      /\ lease' = [lease EXCEPT ![a] = NoLease]
  BY DEF ReapExpired
<1> HIDE DEF l
<1> QED
  BY <1>1, <1>3, <1>4, <1>5, ReleaseRefines

\* New work and work that is called off: the attempts of new are queued, those
\* of off are cancelled where they are, and no lease or belief changes.
LEMMA ChangeRefines ==
  ASSUME RefinementInv, NEW new \in SUBSET Attempts, NEW off \in SUBSET Attempts,
         \A a \in new : lifecycle[a] = "Absent",
         \A a \in off : lifecycle[a] \in {"Queued"} \cup Live,
         \A a \in Attempts :
            /\ a \in new => lifecycle'[a] = "Queued"
            /\ a \in off /\ a \notin new /\ lifecycle[a] = "Queued" => lifecycle'[a] \in Terminal
            /\ a \in off /\ a \notin new /\ lifecycle[a] # "Queued" => lifecycle'[a] = "Cancelling"
            /\ a \notin new /\ a \notin off => lifecycle'[a] = lifecycle[a],
         UNCHANGED <<lease, held>>
  PROVE  Abstract!WorkNext
<1>1. \A a \in new : a \in Attempts /\ WorkPhase[a] = "absent"
  BY WorkOf, Phases
<1>2. \A a \in off : a \in Attempts /\ WorkPhase[a] \in {"waiting", "assigned", "started"}
                     /\ (WorkPhase[a] = "waiting" <=> lifecycle[a] = "Queued")
  BY WorkOf, Phases DEF Live
<1>3. WorkPlace' = WorkPlace /\ WorkExecuting' = WorkExecuting
  BY DEF WorkPlace, WorkExecuting
<1> DEFINE moved(a) == CASE a \in new -> "waiting"
                         [] a \in off /\ WorkPhase[a] = "waiting" -> "done"
                         [] a \in off /\ WorkPhase[a] # "waiting" -> "started"
                         [] OTHER -> WorkPhase[a]
<1>4. ASSUME NEW a \in Attempts PROVE PhaseOf(lifecycle'[a]) = moved(a)
  <2>1. CASE a \in new
    BY <1>1, <1>2, <2>1, Phases
  <2>2. CASE a \notin new /\ a \in off /\ WorkPhase[a] = "waiting"
    BY <1>2, <2>2, Phases
  <2>3. CASE a \notin new /\ a \in off /\ WorkPhase[a] # "waiting"
    BY <1>2, <2>3, Phases
  <2>4. CASE a \notin new /\ a \notin off
    BY <2>4, WorkOf
  <2> QED
    BY <2>1, <2>2, <2>3, <2>4
<1>5. WorkPhase' = [a \in Attempts |-> moved(a)]
  <2>1. WorkPhase' = [a \in Attempts |-> PhaseOf(lifecycle'[a])]
    BY DEF WorkPhase
  <2> HIDE DEF moved
  <2> QED
    BY <1>4, <2>1
<1>6. Abstract!Change(new, off)
  BY <1>1, <1>2, <1>3, <1>5 DEF Abstract!Change
<1> QED
  BY <1>6 DEF Abstract!WorkNext

\* A blocked attempt is called off while it waits.
LEMMA SkipRefines ==
  ASSUME RefinementInv, NEW a \in Attempts, NEW t, SkipBlocked(a, t)
  PROVE  Abstract!WorkNext
<1>1. /\ lifecycle[a] = "Queued" /\ lifecycle'[a] \in Terminal
      /\ \A b \in Attempts \ {a} : lifecycle'[b] = lifecycle[b]
      /\ UNCHANGED <<lease, held>>
  BY DEF SkipBlocked, RefinementInv, TypeOK, Terminal, messageVars
<1> QED
  BY <1>1, ChangeRefines, {} \in SUBSET Attempts, {a} \in SUBSET Attempts

\* A cancelled attempt is called off, whether it waits or is leased; one that
\* has ended is left alone.
LEMMA CancellationRefines ==
  ASSUME RefinementInv, NEW a \in Attempts, NEW t, RequestCancellation(a, t)
  PROVE  Abstract!WorkNext
<1> DEFINE off == IF lifecycle[a] \in Terminal THEN {} ELSE {a}
<1>1. lifecycle[a] \in {"Queued"} \cup Live \cup Terminal
  BY DEF RequestCancellation, RefinementInv, TypeOK, Lifecycles
<1>2. /\ lifecycle[a] = "Queued" => lifecycle'[a] \in Terminal
      /\ lifecycle[a] \in Live => lifecycle'[a] = "Cancelling"
      /\ lifecycle[a] \in Terminal => lifecycle'[a] = lifecycle[a]
      /\ \A b \in Attempts \ {a} : lifecycle'[b] = lifecycle[b]
  BY DEF RequestCancellation, RefinementInv, TypeOK, Terminal, Live
<1>3. UNCHANGED <<lease, held>>
  BY DEF RequestCancellation
<1>4. {} \in SUBSET Attempts /\ off \in SUBSET Attempts
  OBVIOUS
<1>5. /\ \A b \in off : lifecycle[b] \in {"Queued"} \cup Live
      /\ \A b \in Attempts :
            /\ b \in off /\ lifecycle[b] = "Queued" => lifecycle'[b] \in Terminal
            /\ b \in off /\ lifecycle[b] # "Queued" => lifecycle'[b] = "Cancelling"
            /\ b \notin off => lifecycle'[b] = lifecycle[b]
  BY <1>1, <1>2 DEF Live, Terminal
<1> HIDE DEF off
<1> QED
  BY <1>3, <1>4, <1>5, ChangeRefines

\* An admission queues the attempts of the new run and calls off those of the
\* runs it displaces.
LEMMA AdmitRefines ==
  ASSUME RefinementInv, NEW new \in SUBSET Attempts, NEW displaced \in SUBSET Attempts,
         NEW t, NEW cancelledAt \in [displaced -> CallerTimes], Admit(new, t, cancelledAt)
  PROVE  Abstract!WorkNext
<1>1. DOMAIN cancelledAt = displaced
  OBVIOUS
<1>2. /\ \A a \in new : lifecycle[a] = "Absent"
      /\ \A a \in displaced : lifecycle[a] \in {"Queued"} \cup Live
      /\ lifecycle' = [a \in Attempts |->
                          CASE a \in new -> "Queued"
                            [] a \in displaced /\ lifecycle[a] = "Queued" -> "Cancelled"
                            [] a \in displaced /\ lifecycle[a] # "Queued" -> "Cancelling"
                            [] OTHER -> lifecycle[a]]
      /\ UNCHANGED <<lease, held>>
  BY <1>1 DEF Admit
<1>3. \A a \in displaced : a \notin new
  BY <1>2 DEF Live
<1>4. \A a \in Attempts :
         /\ a \in new => lifecycle'[a] = "Queued"
         /\ a \in displaced /\ a \notin new /\ lifecycle[a] = "Queued" => lifecycle'[a] \in Terminal
         /\ a \in displaced /\ a \notin new /\ lifecycle[a] # "Queued" =>
               lifecycle'[a] = "Cancelling"
         /\ a \notin new /\ a \notin displaced => lifecycle'[a] = lifecycle[a]
  BY <1>2, <1>3 DEF Terminal
<1> QED
  BY <1>2, <1>4, ChangeRefines

\* The steps the abstraction does not see.
LEMMA StutterRefines ==
  ASSUME RefinementInv,
         \/ UNCHANGED <<lifecycle, lease, held>>
         \/ \E o \in offers, acked \in SUBSET Attempts : AcceptOffer(o, acked)
  PROVE  UNCHANGED <<WorkPhase, WorkPlace, WorkExecuting>>
<1>1. CASE UNCHANGED <<lifecycle, lease, held>>
  BY <1>1 DEF WorkPhase, WorkPlace, WorkExecuting
<1>2. ASSUME NEW o \in offers, NEW acked, AcceptOffer(o, acked)
      PROVE  UNCHANGED <<WorkPhase, WorkPlace, WorkExecuting>>
  <2>1. o.attempt \in Attempts /\ lifecycle \in [Attempts -> Lifecycles]
    BY DEF RefinementInv, TypeOK, Claims
  <2>2. /\ lifecycle[o.attempt] = "Leased"
        /\ lifecycle' = [lifecycle EXCEPT ![o.attempt] = "Preparing"]
        /\ UNCHANGED <<lease, held>>
    BY <1>2 DEF AcceptOffer, Responding, messageVars
  <2>3. \A a \in Attempts : PhaseOf(lifecycle'[a]) = PhaseOf(lifecycle[a])
    BY <2>1, <2>2, Phases
  <2> QED
    BY <2>2, <2>3 DEF WorkPhase, WorkPlace, WorkExecuting
<1> QED
  BY <1>1, <1>2

\* Every transaction is a step of exclusive work, or is not seen by it.
LEMMA StepRefines ==
  ASSUME RefinementInv, [Next]_vars
  PROVE  [Abstract!WorkNext]_(<<WorkPhase, WorkPlace, WorkExecuting>>)
<1>1. CASE Tick \/ SessionStep \/ UNCHANGED vars
  <2>1. SessionStep \/ UNCHANGED vars => UNCHANGED <<lifecycle, lease, held>>
    BY DEF SessionStep, OpenSession, SetDesired, CloseSession, CloseStaleSession, Disconnect,
           SessionHeartbeat, vars, attemptVars, messageVars
  <2> QED
    BY <1>1, <2>1, TickRefines, StutterRefines
<1>2. CASE OfferStep
  BY <1>2, ClaimRefines, PublishRefines, StutterRefines, DeclineRefines DEF OfferStep
<1>3. CASE HeartbeatStep
  <2>1. ASSUME NEW o, NEW d, NEW reported, AuthorizeRenewal(o, d, reported)
        PROVE  UNCHANGED <<lifecycle, lease, held>>
    BY <2>1 DEF AuthorizeRenewal, attemptVars
  <2> QED
    BY <1>3, <2>1, HeartbeatRefines, StutterRefines DEF HeartbeatStep
<1>4. CASE ConclusionStep
  BY <1>4, ResultRefines, ReapRefines, SkipRefines, CancellationRefines, AdmitRefines
     DEF ConclusionStep
<1> QED
  BY <1>1, <1>2, <1>3, <1>4 DEF Next

\* The lease protocol implements exclusive work: seen through the lifecycles,
\* the lease columns and the runners' own beliefs, sessions, tokens, renewals
\* out of order and reaping amount to assigning, executing and releasing work
\* at one place at a time.
THEOREM Refinement == Spec => ImplementsExclusiveWork
<1>1. Init => RefinementInv
  BY FencingInit DEF RefinementInv, Init, BeliefsCurrent
<1>2. RefinementInv /\ [Next]_vars => RefinementInv'
  BY TypeStep, LeasedRowsStep, SlotsDistinctStep, BeliefsBackedStep, BeliefsCurrentStep
     DEF RefinementInv, FencingInv
<1>3. Init => Abstract!WorkInit
  <2> SUFFICES ASSUME Init PROVE Abstract!WorkInit
    OBVIOUS
  <2>1. WorkPhase = [a \in Attempts |-> "absent"]
    BY Phases DEF Init, WorkPhase
  <2>2. WorkPlace = [a \in Attempts |-> NoLease]
    BY DEF Init, WorkPlace, PlaceOf
  <2>3. WorkExecuting = {}
    BY DEF Init, WorkExecuting
  <2> QED
    BY <2>1, <2>2, <2>3 DEF Abstract!WorkInit
<1>4. RefinementInv /\ [Next]_vars => [Abstract!WorkNext]_(Abstract!workVars)
  BY StepRefines DEF Abstract!workVars
<1> QED
  BY <1>1, <1>2, <1>3, <1>4, PTL DEF Spec, ImplementsExclusiveWork, Abstract!WorkSpec
=============================================================================
