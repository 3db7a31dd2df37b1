--------------------------- MODULE LeasePollProofs ---------------------------
(***************************************************************************)
(* Machine-checked proofs about LeasePoll, for any number of slots,        *)
(* requests, leases, executions and faults: a request is granted one lease *)
(* and publishes one offer, its executions answer alike, a retry that the  *)
(* runner waits for is refused only after an expiry, and the journal and   *)
(* the store agree.                                                        *)
(***************************************************************************)
EXTENDS LeasePoll, FiniteSetTheorems, TLAPS

-----------------------------------------------------------------------------
(* The inductive invariant.                                                *)

PollStages == {"begin", "prePoll", "preCheck", "poll", "claim", "inspect", "publish", "postPoll",
               "postCheck", "validate", "complete", "resolve", "conflict", "corrupt"}
SyncStages == {"ack", "preSync", "sync", "syncCheck"}
LeaseStages == {"inspect", "publish"}     \* resp is a lease
CommandStages == {"preCheck", "postPoll", "postCheck", "validate", "complete", "resolve", "corrupt",
                  "preSync", "sync", "syncCheck", "reply"}     \* resp is a command or 0
Requests == [slot : Slots, op : 1 .. MaxOp]
Commands == [kind : {"offer", "cancel"}, lease : 1 .. Len(leases), revoked : BOOLEAN]

\* What the store's rows contain.
StoreRows ==
    /\ head \in [Slots -> 0 .. MaxOp]
    /\ claim \in [Slots -> {None} \cup (0 .. Len(leases))]
    /\ receipt \in [Slots -> {None} \cup (0 .. Len(outbox))]
    /\ outbox \in Seq(Commands)
    /\ leases \in Seq(Requests)
    /\ Len(leases) <= MaxLease
    /\ live \subseteq 1 .. Len(leases)
    /\ overdue \subseteq 1 .. Len(leases)
    /\ concluded \subseteq 1 .. Len(leases)
    /\ live \cap concluded = {}

\* What the journal and the slot loops contain, and how far the cursors are.
RunnerRows ==
    /\ acked \in Nat /\ jcursor \in Nat /\ sent \in Nat
    /\ acked <= jcursor /\ sent <= jcursor /\ jcursor <= Len(outbox)
    /\ jop \in [Slots -> Nat \ {0}]
    /\ jslot \in [Slots -> 0 .. Len(leases)]
    /\ ignored \subseteq 1 .. jcursor
    /\ phase \in [Slots -> {"poll", "flush", "run"}]
    /\ reply \in [Slots -> {None} \cup (0 .. Len(outbox))]
    /\ flusher \in Slots \cup {NoSlot}

\* What an execution carries at each stage.
CallRow(i) ==
    LET c == calls[i] IN
    /\ c.stage \in PollStages => c.kind = "poll"
    /\ c.stage \in SyncStages => c.kind \in {"ack", "beat"}
    /\ c.stage = "ack" => c.kind = "ack"
    /\ c.stage = "idle" => c.kind = "none" /\ ~c.heard
    /\ c.kind = "none" => c.stage = "idle"
    /\ c.kind = "poll" => c.op \in 1 .. MaxOp
    /\ c.kind = "ack" => c.op <= jcursor
    /\ c.kind \in {"none", "beat"} => c.op = 0
    /\ c.stage \in LeaseStages => c.resp \in 1 .. Len(leases)
    /\ c.stage \in CommandStages => c.resp \in 0 .. Len(outbox)
    /\ c.stage \notin LeaseStages => c.resp \in {None} \cup (0 .. Len(outbox))

CallRows ==
    /\ calls \in [Callers -> [kind : {"none", "poll", "ack", "beat"}, op : Nat,
                              stage : Running \cup Ended \cup {"idle"}, resp : Int, heard : BOOLEAN]]
    /\ \A i \in Callers : CallRow(i)

Rows == StoreRows /\ RunnerRows /\ CallRows

\* An execution belongs to the checkpoint or to an earlier request, and once it
\* has begun its request is not ahead of the store's head.
Fits(i) ==
    calls[i].kind = "poll" =>
        /\ calls[i].op <= jop[i[1]]
        /\ calls[i].stage \notin {"begin", "unavailable"} => calls[i].op <= head[i[1]]

\* A slot waits for one exchange at a time, of the kind its phase calls for.
Waits(i) ==
    calls[i].heard =>
        /\ reply[i[1]] = None
        /\ \A j \in Callers : j[1] = i[1] /\ calls[j].heard => j = i
        /\ calls[i].kind = "poll" => phase[i[1]] = "poll" /\ calls[i].op = jop[i[1]]
        /\ calls[i].kind = "ack" => phase[i[1]] = "flush"
        /\ calls[i].kind = "beat" => phase[i[1]] = "run"

\* The checkpoint is at the head or one ahead, and at the head once answered.
Checkpoint(s) ==
    /\ jop[s] \in {head[s], head[s] + 1}
    /\ reply[s] # None /\ phase[s] = "poll" => jop[s] = head[s]

Exchanges ==
    /\ \A i \in Callers : Fits(i) /\ Waits(i)
    /\ \A s \in Slots : Checkpoint(s)

\* The claim of a head is the only lease of its request, leases of one slot
\* are not active together, and a lease that is not active was concluded or
\* has passed its expiry.
LeaseRows ==
    /\ \A l \in 1 .. Len(leases) : leases[l].op <= head[leases[l].slot]
    /\ \A s \in Slots : claim[s] = None =>
          \A l \in 1 .. Len(leases) : leases[l] # [slot |-> s, op |-> head[s]]
    /\ \A s \in Slots : claim[s] > 0 => leases[claim[s]] = [slot |-> s, op |-> head[s]]
    /\ \A l, m \in 1 .. Len(leases) : leases[l] = leases[m] => l = m
    /\ \A l, m \in live : leases[l].slot = leases[m].slot => l = m

\* A slot record is of a lease granted to the slot.
SlotRows == \A s \in Slots : jslot[s] > 0 => leases[jslot[s]].slot = s

\* A lease has at most one offer and at most one cancellation.
OutboxRows ==
    \A p, q \in 1 .. Len(outbox) :
        outbox[p].kind = outbox[q].kind /\ outbox[p].lease = outbox[q].lease => p = q

\* An execution that carries a lease carries the one granted to its request.
\* While the request is the head the lease is its claim, or the claim was
\* rejected because the lease is no longer current; and the slot that waits
\* for the execution has not concluded it.
Carries(i) ==
    calls[i].stage \in LeaseStages =>
        LET l == calls[i].resp IN
        /\ leases[l] = [slot |-> i[1], op |-> calls[i].op]
        /\ calls[i].op = head[i[1]] => claim[i[1]] = l \/ (claim[i[1]] = 0 /\ ~Current(l))
        /\ calls[i].heard => l \in live \cup overdue

\* An answer in preparation is the stored one.
Answers(i) ==
    calls[i].kind = "poll" /\ calls[i].stage \in {"resolve", "reply"} /\ calls[i].op = head[i[1]] =>
        LET stored == receipt[i[1]] IN
        /\ stored # None
        /\ \/ calls[i].resp = stored
           \/ calls[i].stage = "reply" /\ calls[i].resp = 0 /\ Offer(stored) /\ outbox[stored].revoked

\* A refusal that the runner waits for follows the expiry of the request's lease.
Refusal(i) ==
    calls[i].heard /\ calls[i].stage = "conflict" =>
        \E l \in overdue : leases[l] = [slot |-> i[1], op |-> calls[i].op]

Grants == LeaseRows /\ SlotRows /\ OutboxRows
Outcomes == \A i \in Callers : Carries(i) /\ Answers(i) /\ Refusal(i)

PollInv == Rows /\ Exchanges /\ Grants /\ Outcomes /\ RecordedIsHeld

-----------------------------------------------------------------------------
(* The steps of an execution, by their effect.                             *)

\* Publications may be marked as revoked; nothing else changes in the outbox.
SameCommands ==
    /\ Len(outbox') = Len(outbox)
    /\ outbox' \in Seq(Commands)
    /\ \A q \in 1 .. Len(outbox) :
          /\ outbox'[q].kind = outbox[q].kind
          /\ outbox'[q].lease = outbox[q].lease
          /\ outbox[q].revoked => outbox'[q].revoked

Quiet == SameCommands /\ UNCHANGED <<requestRows, acked>>

\* The answer of a request whose receipt is command q
Given(st, r, q) ==
    \/ st \in {"resolve", "reply"} /\ r = q
    \/ st = "reply" /\ r = 0 /\ Offer(q) /\ outbox'[q].revoked

Falls(i, st, r) ==
    /\ \/ calls[i].stage \in Running /\ st = "unavailable" /\ r \in {None} \cup (0 .. Len(outbox))
       \/ calls[i].stage = "complete" /\ st = "corrupt" /\ r = calls[i].resp
    /\ Quiet

Proceeds(i, st, r) ==
    /\ \/ calls[i].stage = "begin" /\ calls[i].op = head[i[1]] /\ st = "prePoll" /\ r = None
       \/ /\ calls[i].stage \in {"prePoll", "poll"} /\ st \in {"poll", "claim"}
          /\ r \in {None} \cup (0 .. Len(outbox))
       \/ /\ calls[i].stage \in PollStages \ {"begin", "conflict", "corrupt"}
          /\ st \in {"preCheck", "postPoll", "postCheck", "validate", "complete"}
          /\ r \in 0 .. Len(outbox)
    /\ Quiet

Syncs(i, st, r) ==
    /\ calls[i].stage \in SyncStages /\ st \in {"sync", "syncCheck", "reply"}
    /\ r \in 0 .. Len(outbox)
    /\ SameCommands
    /\ UNCHANGED requestRows
    /\ acked' = acked \/ (calls[i].stage = "ack" /\ acked' = calls[i].op)

Refuses(i, st, r) ==
    /\ st = "conflict" /\ r = None
    /\ \/ calls[i].stage = "begin" /\ head[i[1]] > calls[i].op
       \/ calls[i].stage \in PollStages \ {"begin", "conflict", "corrupt"} /\ HeadMoved(i)
       \/ /\ calls[i].stage \in LeaseStages /\ ~HeadMoved(i)
          /\ claim[i[1]] # calls[i].resp
    /\ Quiet

Returns(i, st, r) ==
    /\ \/ /\ calls[i].stage \in {"begin", "complete"} /\ calls[i].op = head[i[1]]
          /\ receipt[i[1]] # None
          /\ Given(st, r, receipt[i[1]])
       \/ calls[i].stage = "resolve" /\ Given(st, r, calls[i].resp)
    /\ Quiet

Succeeds(i, st, r) ==
    /\ calls[i].stage = "begin" /\ calls[i].op = head[i[1]] + 1
    /\ st = "prePoll" /\ r = None
    /\ head' = [head EXCEPT ![i[1]] = calls[i].op]
    /\ claim' = [claim EXCEPT ![i[1]] = None]
    /\ receipt' = [receipt EXCEPT ![i[1]] = None]
    /\ SameCommands
    /\ UNCHANGED <<leases, live, acked>>

Looks(i, st, r) ==
    /\ calls[i].op = head[i[1]]
    /\ \/ /\ calls[i].stage \in {"poll", "claim"} /\ st = "inspect"
          /\ claim[i[1]] > 0 /\ Current(claim[i[1]]) /\ r = claim[i[1]]
       \/ calls[i].stage = "inspect" /\ st = "publish" /\ r = calls[i].resp
    /\ Quiet

Declines(i, st, r) ==
    /\ calls[i].op = head[i[1]] /\ calls[i].stage \in {"poll", "claim"}
    /\ claim[i[1]] = None \/ (claim[i[1]] > 0 /\ ~Current(claim[i[1]]))
    /\ st = "postPoll" /\ r = 0
    /\ claim' = [claim EXCEPT ![i[1]] = 0]
    /\ UNCHANGED <<head, receipt, leases, live, outbox, acked>>

Granted(i, st, r) ==
    /\ calls[i].op = head[i[1]] /\ calls[i].stage = "claim"
    /\ claim[i[1]] = None /\ SlotUnoccupied(i[1])
    /\ Len(leases) < MaxLease
    /\ st = "inspect" /\ r = Len(leases) + 1
    /\ leases' = Append(leases, [slot |-> i[1], op |-> calls[i].op])
    /\ live' = live \cup {Len(leases) + 1}
    /\ claim' = [claim EXCEPT ![i[1]] = Len(leases) + 1]
    /\ UNCHANGED <<head, receipt, outbox, acked>>

Publishes(i, st, r) ==
    /\ calls[i].op = head[i[1]] /\ calls[i].stage = "publish"
    /\ claim[i[1]] = calls[i].resp
    /\ Publications([slot |-> i[1], op |-> calls[i].op]) = {}
    /\ st = "postPoll" /\ r = Len(outbox) + 1
    /\ outbox' = Append(outbox, [kind |-> "offer", lease |-> claim[i[1]], revoked |-> FALSE])
    /\ UNCHANGED <<requestRows, acked>>

Stores(i, st, r) ==
    /\ calls[i].op = head[i[1]] /\ calls[i].stage = "complete"
    /\ receipt[i[1]] = None
    /\ Given(st, r, calls[i].resp)
    /\ receipt' = [receipt EXCEPT ![i[1]] = calls[i].resp]
    /\ SameCommands
    /\ UNCHANGED <<head, claim, leases, live, acked>>

Edge(i, st, r) ==
    \/ Falls(i, st, r) \/ Proceeds(i, st, r) \/ Syncs(i, st, r) \/ Refuses(i, st, r)
    \/ Returns(i, st, r) \/ Succeeds(i, st, r) \/ Looks(i, st, r) \/ Declines(i, st, r)
    \/ Granted(i, st, r) \/ Publishes(i, st, r) \/ Stores(i, st, r)

Moves(i) == \E st, r : Goto(i, st, r) /\ Edge(i, st, r)

\* How a command is found, spelled out.
LEMMA ResolutionCases ==
  ASSUME NEW q
  PROVE  /\ Resolution(q) \in {"plain", "revoked", "unavailable", "published"}
         /\ Resolution(q) = "plain" <=> ~Offer(q)
         /\ Resolution(q) = "revoked" => Offer(q)
BY DEF Resolution

\* Marking publications as revoked changes nothing else.
LEMMA RevokeKeeps ==
  ASSUME StoreRows, NEW Q, Revoke(Q), UNCHANGED leases
  PROVE  SameCommands /\ \A q \in Q \cap (1 .. Len(outbox)) : outbox'[q].revoked
<1>1. outbox \in Seq(Commands) /\ Len(outbox) \in Nat /\ DOMAIN outbox = 1 .. Len(outbox)
  BY DEF StoreRows
<1> DEFINE mark(q) == IF q \in Q THEN [outbox[q] EXCEPT !.revoked = TRUE] ELSE outbox[q]
<1>3. \A q \in 1 .. Len(outbox) :
        /\ mark(q) \in Commands
        /\ mark(q).kind = outbox[q].kind /\ mark(q).lease = outbox[q].lease
        /\ outbox[q].revoked => mark(q).revoked
        /\ q \in Q => mark(q).revoked
  <2> SUFFICES ASSUME NEW q \in 1 .. Len(outbox)
               PROVE  /\ mark(q) \in Commands
                      /\ mark(q).kind = outbox[q].kind /\ mark(q).lease = outbox[q].lease
                      /\ outbox[q].revoked => mark(q).revoked
                      /\ q \in Q => mark(q).revoked
    OBVIOUS
  <2>1. outbox[q] \in Commands
    BY <1>1
  <2> QED
    BY <2>1, Zenon DEF Commands
<1>4. outbox' = [q \in 1 .. Len(outbox) |-> mark(q)]
  BY <1>1 DEF Revoke
<1> HIDE DEF mark
<1>5. outbox' \in Seq(Commands) /\ Len(outbox') = Len(outbox)
  BY <1>1, <1>3, <1>4
<1>6. \A q \in 1 .. Len(outbox) : outbox'[q] = mark(q)
  BY <1>4
<1> QED
  BY <1>1, <1>3, <1>5, <1>6 DEF SameCommands

\* An outbox that does not change keeps its commands.
LEMMA UnchangedKeeps ==
  ASSUME StoreRows, UNCHANGED <<outbox, leases>>
  PROVE  SameCommands
BY DEF StoreRows, SameCommands, Commands

\* What an execution carries, for the execution at hand.
LEMMA CallFacts ==
  ASSUME Rows, NEW i \in Callers
  PROVE  /\ i[1] \in Slots
         /\ CallRow(i)
         /\ calls[i].op \in Nat /\ calls[i].resp \in Int
         /\ head[i[1]] \in Nat /\ receipt[i[1]] \in {None} \cup (0 .. Len(outbox))
         /\ claim[i[1]] \in {None} \cup (0 .. Len(leases))
         /\ Len(outbox) \in Nat /\ Len(leases) \in Nat /\ acked \in Nat
BY DEF Rows, StoreRows, RunnerRows, CallRows, Callers

\* begin_lease_request resumes, answers from the receipt, moves the head on, or
\* refuses a request that is behind it.
LEMMA BeginMoves ==
  ASSUME Rows, NEW i \in Callers, Begin(i)
  PROVE  Moves(i)
<1> DEFINE s == i[1]
           q == receipt[i[1]]
<1>1. StoreRows
  BY DEF Rows
<1>2. s \in Slots /\ q \in {None} \cup (0 .. Len(outbox)) /\ head[s] \in Nat /\ calls[i].op \in Nat
      /\ Len(outbox) \in Nat
  BY CallFacts
<1>3. q # None => q \in 0 .. Len(outbox) /\ (Offer(q) => q \in 1 .. Len(outbox))
  BY <1>2 DEF None, Offer
<1>4. calls[i].stage = "begin" /\ UNCHANGED <<runner, faults, acked, ended>>
  BY DEF Begin
<1>5. calls[i].stage \in Running
  BY <1>4 DEF Running
<1>6. CASE head[s] = calls[i].op /\ Replayed(i, s, q)
  <2>1. UNCHANGED requestRows
    BY <1>6 DEF Replayed
  <2>2. UNCHANGED leases
    BY <2>1 DEF requestRows
  <2>3. CASE q = None /\ Goto(i, "prePoll", None) /\ UNCHANGED outbox
    <3>1. Quiet
      BY <1>1, <1>4, <2>1, <2>2, <2>3, UnchangedKeeps DEF Quiet
    <3>2. Proceeds(i, "prePoll", None)
      BY <1>4, <1>6, <3>1 DEF Proceeds
    <3> QED
      BY <2>3, <3>2 DEF Moves, Edge
  <2>4. CASE q # None /\ Resolution(q) = "revoked" /\ Revoke({q}) /\ Goto(i, "reply", 0)
    <3>1. Offer(q) /\ q \in 1 .. Len(outbox)
      BY <1>3, <2>4, ResolutionCases
    <3>2. SameCommands /\ outbox'[q].revoked
      BY <1>1, <2>2, <2>4, <3>1, RevokeKeeps
    <3>3. Returns(i, "reply", 0)
      BY <1>4, <1>6, <2>1, <2>4, <3>1, <3>2 DEF Returns, Given, Quiet
    <3> QED
      BY <2>4, <3>3 DEF Moves, Edge
  <2>5. CASE q # None /\ Goto(i, "unavailable", q) /\ UNCHANGED outbox
    <3>1. Quiet
      BY <1>1, <1>4, <2>1, <2>2, <2>5, UnchangedKeeps DEF Quiet
    <3>2. Falls(i, "unavailable", q)
      BY <1>3, <1>5, <2>5, <3>1 DEF Falls
    <3> QED
      BY <2>5, <3>2 DEF Moves, Edge
  <2>6. CASE q # None /\ Goto(i, "resolve", q) /\ UNCHANGED outbox
    <3>1. Quiet
      BY <1>1, <1>4, <2>1, <2>2, <2>6, UnchangedKeeps DEF Quiet
    <3>2. Returns(i, "resolve", q)
      BY <1>4, <1>6, <2>6, <3>1 DEF Returns, Given
    <3> QED
      BY <2>6, <3>2 DEF Moves, Edge
  <2> QED
    BY <1>6, <2>3, <2>4, <2>5, <2>6 DEF Replayed
<1>7. CASE head[s] = calls[i].op - 1 /\ Succeeded(i, s, q)
  <2>1. CASE head[s] # 0 /\ q # None /\ Goto(i, "unavailable", q) /\ UNCHANGED <<requestRows, outbox>>
    <3>1. Quiet
      BY <1>1, <1>4, <2>1, UnchangedKeeps DEF Quiet, requestRows
    <3>2. Falls(i, "unavailable", q)
      BY <1>3, <1>5, <2>1, <3>1 DEF Falls
    <3> QED
      BY <2>1, <3>2 DEF Moves, Edge
  <2>2. CASE /\ head' = [head EXCEPT ![s] = calls[i].op]
             /\ claim' = [claim EXCEPT ![s] = None]
             /\ receipt' = [receipt EXCEPT ![s] = None]
             /\ IF q # None /\ Resolution(q) = "revoked" THEN Revoke({q}) ELSE UNCHANGED outbox
             /\ Goto(i, "prePoll", None)
             /\ UNCHANGED <<leases, live>>
    <3>1. SameCommands
      BY <1>1, <2>2, RevokeKeeps, UnchangedKeeps
    <3>2. Succeeds(i, "prePoll", None)
      BY <1>2, <1>4, <1>7, <2>2, <3>1 DEF Succeeds
    <3> QED
      BY <2>2, <3>2 DEF Moves, Edge
  <2> QED
    BY <1>7, <2>1, <2>2 DEF Succeeded
<1>8. CASE head[s] > calls[i].op /\ Goto(i, "conflict", None) /\ UNCHANGED <<requestRows, outbox>>
  <2>1. Quiet
    BY <1>1, <1>4, <1>8, UnchangedKeeps DEF Quiet, requestRows
  <2>2. Refuses(i, "conflict", None)
    BY <1>4, <1>8, <2>1 DEF Refuses
  <2> QED
    BY <1>8, <2>2 DEF Moves, Edge
<1> QED
  BY <1>6, <1>7, <1>8 DEF Begin

\* replay_commands goes on without a command, takes the oldest one, or leaves
\* the answer to a retry.
LEMMA ReplayMoves ==
  ASSUME Rows, NEW i \in Callers, ReplayCommands(i)
  PROVE  Moves(i)
<1> DEFINE st == calls[i].stage
           deliverable == {q \in Pending : Resolution(q) # "revoked"}
           stale == {q \in Pending : \A d \in deliverable : q < d}
<1>1. StoreRows /\ CallRow(i) /\ Len(outbox) \in Nat
  BY CallFacts DEF Rows
<1>2. st \in {"prePoll", "postPoll", "preSync", "sync"} /\ UNCHANGED <<requestRows, runner, faults, acked, ended>>
  BY DEF ReplayCommands, AfterNothing
<1>3. UNCHANGED leases
  BY <1>2 DEF requestRows
<1>4. calls[i].resp \in {None} \cup (0 .. Len(outbox))
  BY <1>1, <1>2 DEF CallRow, LeaseStages
<1>5. st # "prePoll" => calls[i].resp \in 0 .. Len(outbox)
  BY <1>1, <1>2 DEF CallRow, CommandStages
<1>6. \A q \in Pending : q \in 0 .. Len(outbox)
  BY <1>1 DEF Pending, StoreRows
<1>7. \A Q : Revoke(Q) => Quiet
  BY <1>1, <1>2, <1>3, RevokeKeeps DEF Quiet
<1>8. UNCHANGED outbox => Quiet
  BY <1>1, <1>2, <1>3, UnchangedKeeps DEF Quiet
<1>9. CASE Revoke(stale) /\ Goto(i, AfterNothing[st], calls[i].resp)
  <2>1. Quiet
    BY <1>7, <1>9
  <2>2. CASE st = "prePoll"
    <3>1. AfterNothing[st] = "poll"
      BY <2>2 DEF AfterNothing
    <3>2. Proceeds(i, "poll", calls[i].resp)
      BY <1>4, <2>1, <2>2 DEF Proceeds
    <3> QED
      BY <1>9, <3>1, <3>2 DEF Moves, Edge
  <2>3. CASE st = "postPoll"
    <3>1. AfterNothing[st] = "validate"
      BY <2>3 DEF AfterNothing
    <3>2. Proceeds(i, "validate", calls[i].resp)
      BY <1>5, <2>1, <2>3 DEF Proceeds, PollStages
    <3> QED
      BY <1>9, <3>1, <3>2 DEF Moves, Edge
  <2>4. CASE st \in {"preSync", "sync"}
    <3>1. AfterNothing[st] \in {"sync", "reply"}
      BY <2>4 DEF AfterNothing
    <3>2. Syncs(i, AfterNothing[st], calls[i].resp)
      BY <1>5, <2>1, <2>4, <3>1 DEF Syncs, SyncStages, Quiet
    <3> QED
      BY <1>9, <3>2 DEF Moves, Edge
  <2> QED
    BY <1>2, <2>2, <2>3, <2>4
<1>10. ASSUME NEW q \in Pending, Goto(i, AfterCommand[st], q), UNCHANGED outbox
       PROVE  Moves(i)
  <2>1. Quiet /\ q \in 0 .. Len(outbox)
    BY <1>6, <1>8, <1>10
  <2>2. CASE st \in {"prePoll", "postPoll"}
    <3>1. AfterCommand[st] \in {"preCheck", "postCheck"}
      BY <2>2 DEF AfterCommand
    <3>2. Proceeds(i, AfterCommand[st], q)
      BY <2>1, <2>2, <3>1 DEF Proceeds, PollStages
    <3> QED
      BY <1>10, <3>2 DEF Moves, Edge
  <2>3. CASE st \in {"preSync", "sync"}
    <3>1. AfterCommand[st] = "syncCheck"
      BY <2>3 DEF AfterCommand
    <3>2. Syncs(i, AfterCommand[st], q)
      BY <2>1, <2>3, <3>1 DEF Syncs, SyncStages, Quiet
    <3> QED
      BY <1>10, <3>2 DEF Moves, Edge
  <2> QED
    BY <1>2, <2>2, <2>3
<1>11. CASE Revoke(stale) /\ Goto(i, "unavailable", None)
  <2>1. st \in Running
    BY <1>2 DEF Running
  <2>2. Falls(i, "unavailable", None)
    BY <1>7, <1>11, <2>1 DEF Falls
  <2> QED
    BY <1>11, <2>2 DEF Moves, Edge
<1> QED
  BY <1>9, <1>10, <1>11 DEF ReplayCommands

\* next_pending_command passes the command on or leaves it to a retry.
LEMMA CheckMoves ==
  ASSUME Rows, NEW i \in Callers, CheckCommand(i)
  PROVE  Moves(i)
<1> DEFINE st == calls[i].stage
           q == calls[i].resp
<1>1. StoreRows /\ CallRow(i) /\ Len(outbox) \in Nat
  BY CallFacts DEF Rows
<1>2. st \in {"preCheck", "postCheck", "syncCheck"} /\ UNCHANGED <<requestRows, runner, faults, acked, ended>>
  BY DEF CheckCommand, AfterCheck
<1>3. UNCHANGED leases
  BY <1>2 DEF requestRows
<1>4. q \in 0 .. Len(outbox)
  BY <1>1, <1>2 DEF CallRow, CommandStages
<1>5. (UNCHANGED outbox \/ Revoke({q})) => Quiet
  BY <1>1, <1>2, <1>3, RevokeKeeps, UnchangedKeeps DEF Quiet
<1>6. CASE (UNCHANGED outbox \/ Revoke({q})) /\ Goto(i, "unavailable", q)
  <2>1. st \in Running
    BY <1>2 DEF Running
  <2>2. Falls(i, "unavailable", q)
    BY <1>4, <1>5, <1>6, <2>1 DEF Falls
  <2> QED
    BY <1>6, <2>2 DEF Moves, Edge
<1>7. CASE UNCHANGED outbox /\ Goto(i, AfterCheck[st], q)
  <2>1. Quiet
    BY <1>5, <1>7
  <2>2. CASE st \in {"preCheck", "postCheck"}
    <3>1. AfterCheck[st] \in {"complete", "validate"}
      BY <2>2 DEF AfterCheck
    <3>2. Proceeds(i, AfterCheck[st], q)
      BY <1>4, <2>1, <2>2, <3>1 DEF Proceeds, PollStages
    <3> QED
      BY <1>7, <3>2 DEF Moves, Edge
  <2>3. CASE st = "syncCheck"
    <3>1. AfterCheck[st] = "reply"
      BY <2>3 DEF AfterCheck
    <3>2. Syncs(i, AfterCheck[st], q)
      BY <1>4, <2>1, <2>3, <3>1 DEF Syncs, SyncStages, Quiet
    <3> QED
      BY <1>7, <3>2 DEF Moves, Edge
  <2> QED
    BY <1>2, <2>2, <2>3
<1> QED
  BY <1>6, <1>7 DEF CheckCommand

\* A request that is no longer the head is refused.
LEMMA RefuseMoves ==
  ASSUME Rows, NEW i \in Callers, Refuse(i), UNCHANGED acked,
         calls[i].stage \in PollStages \ {"begin", "conflict", "corrupt"}
  PROVE  Moves(i)
<1>1. Quiet
  BY UnchangedKeeps DEF Rows, Refuse, Quiet, requestRows
<1>2. Refuses(i, "conflict", None)
  BY <1>1 DEF Refuse, Refuses
<1> QED
  BY <1>2 DEF Refuse, Moves, Edge

\* A claim that exists is carried on while its lease is good, and rejected
\* afterwards.
LEMMA ResolveClaimMoves ==
  ASSUME Rows, NEW i \in Callers, ~HeadMoved(i), ResolveClaim(i, i[1]), UNCHANGED <<outbox, acked>>,
         calls[i].stage \in {"poll", "claim"}
  PROVE  Moves(i)
<1> DEFINE s == i[1]
<1>1. StoreRows /\ Len(outbox) \in Nat /\ calls[i].op = head[s]
  BY CallFacts DEF Rows, HeadMoved
<1>2. UNCHANGED requestRows => Quiet
  BY <1>1, UnchangedKeeps DEF Quiet, requestRows
<1>3. CASE claim[s] = 0 /\ Goto(i, "postPoll", 0) /\ UNCHANGED requestRows
  <2>1. Proceeds(i, "postPoll", 0)
    BY <1>1, <1>2, <1>3 DEF Proceeds, PollStages
  <2> QED
    BY <1>3, <2>1 DEF Moves, Edge
<1>4. CASE claim[s] > 0 /\ Current(claim[s]) /\ Goto(i, "inspect", claim[s]) /\ UNCHANGED requestRows
  <2>1. Looks(i, "inspect", claim[s])
    BY <1>1, <1>2, <1>4 DEF Looks
  <2> QED
    BY <1>4, <2>1 DEF Moves, Edge
<1>5. CASE /\ claim[s] > 0 /\ ~Current(claim[s])
           /\ claim' = [claim EXCEPT ![s] = 0]
           /\ Goto(i, "postPoll", 0)
           /\ UNCHANGED <<head, receipt, leases, live>>
  <2>1. Declines(i, "postPoll", 0)
    BY <1>1, <1>5 DEF Declines
  <2> QED
    BY <1>5, <2>1 DEF Moves, Edge
<1> QED
  BY <1>3, <1>4, <1>5 DEF ResolveClaim

\* lookup_lease_request
LEMMA LookupMoves ==
  ASSUME Rows, NEW i \in Callers, LookupRequest(i)
  PROVE  Moves(i)
<1>1. StoreRows
  BY DEF Rows
<1>2. calls[i].stage = "poll" /\ UNCHANGED <<runner, faults, acked, ended>>
  BY DEF LookupRequest
<1>3. CASE Refuse(i)
  BY <1>2, <1>3, RefuseMoves DEF PollStages
<1>4. CASE ~HeadMoved(i) /\ UNCHANGED outbox /\ Goto(i, "claim", None) /\ UNCHANGED requestRows
  <2>1. Quiet
    BY <1>1, <1>2, <1>4, UnchangedKeeps DEF Quiet, requestRows
  <2>2. Proceeds(i, "claim", None)
    BY <1>2, <2>1 DEF Proceeds
  <2> QED
    BY <1>4, <2>2 DEF Moves, Edge
<1>5. CASE ~HeadMoved(i) /\ UNCHANGED outbox /\ ResolveClaim(i, i[1])
  BY <1>2, <1>5, ResolveClaimMoves
<1> QED
  BY <1>3, <1>4, <1>5 DEF LookupRequest

\* try_claim and record_no_work
LEMMA ClaimMoves ==
  ASSUME Rows, NEW i \in Callers, Claim(i)
  PROVE  Moves(i)
<1> DEFINE s == i[1]
<1>1. calls[i].stage = "claim" /\ UNCHANGED <<runner, faults, acked, ended>>
  BY DEF Claim
<1>2. CASE Refuse(i)
  BY <1>1, <1>2, RefuseMoves DEF PollStages
<1>3. CASE ~HeadMoved(i) /\ UNCHANGED outbox /\ claim[s] = None /\ SlotUnoccupied(s) /\ Grant(i, s)
  <2>1. Granted(i, "inspect", Len(leases) + 1)
    BY <1>1, <1>3 DEF Granted, Grant, HeadMoved
  <2> QED
    BY <1>3, <2>1 DEF Moves, Edge, Grant
<1>4. CASE ~HeadMoved(i) /\ UNCHANGED outbox /\ claim[s] = None /\ Decline(i, s)
  <2>1. Declines(i, "postPoll", 0)
    BY <1>1, <1>4 DEF Declines, Decline, HeadMoved
  <2> QED
    BY <1>4, <2>1 DEF Moves, Edge, Decline
<1>5. CASE ~HeadMoved(i) /\ UNCHANGED outbox /\ ResolveClaim(i, s)
  BY <1>1, <1>5, ResolveClaimMoves
<1> QED
  BY <1>2, <1>3, <1>4, <1>5 DEF Claim

\* An offer that exists, or can no longer be published, is judged the same way
\* by the inspection and by the publication.
LEMMA JudgedMoves ==
  ASSUME Rows, NEW i \in Callers, ~HeadMoved(i), UNCHANGED <<requestRows, acked>>,
         calls[i].stage \in LeaseStages,
         \/ \E q \in DOMAIN outbox : OfferExists(i, q)
         \/ Unpublishable(i, i[1])
  PROVE  Moves(i)
<1>1. StoreRows /\ Len(outbox) \in Nat
  BY CallFacts DEF Rows
<1>2. UNCHANGED outbox
  BY DEF OfferExists, Unpublishable
<1>3. Quiet
  BY <1>1, <1>2, UnchangedKeeps DEF Quiet, requestRows
<1>4. ASSUME NEW r \in 0 .. Len(outbox), Goto(i, "postPoll", r) PROVE Moves(i)
  <2>1. Proceeds(i, "postPoll", r)
    BY <1>3 DEF Proceeds, PollStages, LeaseStages
  <2> QED
    BY <1>4, <2>1 DEF Moves, Edge
<1>5. ASSUME NEW r \in 0 .. Len(outbox), Goto(i, "unavailable", r) PROVE Moves(i)
  <2>1. Falls(i, "unavailable", r)
    BY <1>3 DEF Falls, Running, LeaseStages
  <2> QED
    BY <1>5, <2>1 DEF Moves, Edge
<1>6. CASE claim[i[1]] # calls[i].resp /\ Goto(i, "conflict", None)
  <2>1. Refuses(i, "conflict", None)
    BY <1>3, <1>6 DEF Refuses
  <2> QED
    BY <1>6, <2>1 DEF Moves, Edge
<1>7. \A q \in DOMAIN outbox : q \in 0 .. Len(outbox)
  BY <1>1 DEF StoreRows
<1>8. 0 \in 0 .. Len(outbox)
  BY <1>1
<1> QED
  BY <1>4, <1>5, <1>6, <1>7, <1>8 DEF OfferExists, Unpublishable

\* inspect_lease_offer_claim
LEMMA InspectMoves ==
  ASSUME Rows, NEW i \in Callers, InspectClaim(i)
  PROVE  Moves(i)
<1>1. calls[i].stage = "inspect" /\ UNCHANGED <<requestRows, runner, faults, acked, ended>>
  BY DEF InspectClaim
<1>2. CASE Refuse(i)
  BY <1>1, <1>2, RefuseMoves DEF PollStages
<1>3. CASE /\ ~HeadMoved(i)
           /\ (\E q \in DOMAIN outbox : OfferExists(i, q)) \/ Unpublishable(i, i[1])
  BY <1>1, <1>3, JudgedMoves DEF LeaseStages
<1>4. CASE ~HeadMoved(i) /\ Goto(i, "publish", calls[i].resp) /\ UNCHANGED outbox
  <2>1. Quiet
    BY <1>1, <1>4, UnchangedKeeps DEF Quiet, requestRows, Rows
  <2>2. Looks(i, "publish", calls[i].resp)
    BY <1>1, <1>4, <2>1 DEF Looks, HeadMoved
  <2> QED
    BY <1>4, <2>2 DEF Moves, Edge
<1> QED
  BY <1>2, <1>3, <1>4 DEF InspectClaim, Publications

\* publish_lease_offer
LEMMA PublishMoves ==
  ASSUME Rows, NEW i \in Callers, PublishOffer(i)
  PROVE  Moves(i)
<1> DEFINE s == i[1]
           published == Publications([slot |-> i[1], op |-> calls[i].op])
<1>1. calls[i].stage = "publish" /\ UNCHANGED <<requestRows, runner, faults, acked, ended>>
  BY DEF PublishOffer
<1>2. CASE Refuse(i)
  BY <1>1, <1>2, RefuseMoves DEF PollStages
<1>3. CASE /\ ~HeadMoved(i)
           /\ (\E q \in DOMAIN outbox : OfferExists(i, q)) \/ Unpublishable(i, s)
  BY <1>1, <1>3, JudgedMoves DEF LeaseStages
<1>4. CASE /\ ~HeadMoved(i) /\ published = {} /\ Publishable(i, s)
           /\ outbox' = Append(outbox, [kind |-> "offer", lease |-> claim[s], revoked |-> FALSE])
           /\ Goto(i, "postPoll", Len(outbox) + 1)
  <2>1. Publishes(i, "postPoll", Len(outbox) + 1)
    BY <1>1, <1>4 DEF Publishes, HeadMoved, Publishable
  <2> QED
    BY <1>4, <2>1 DEF Moves, Edge
<1> QED
  BY <1>2, <1>3, <1>4 DEF PublishOffer, Publications

\* validate_lease_offer_response
LEMMA ValidateMoves ==
  ASSUME Rows, NEW i \in Callers, ValidateResponse(i)
  PROVE  Moves(i)
<1> DEFINE q == calls[i].resp
<1>1. StoreRows /\ CallRow(i) /\ Len(outbox) \in Nat
  BY CallFacts DEF Rows
<1>2. calls[i].stage = "validate" /\ UNCHANGED <<requestRows, runner, faults, acked, ended>>
  BY DEF ValidateResponse
<1>3. UNCHANGED leases /\ q \in 0 .. Len(outbox)
  BY <1>1, <1>2 DEF requestRows, CallRow, CommandStages
<1>4. Quiet
  BY <1>1, <1>2, <1>3, RevokeKeeps, UnchangedKeeps DEF Quiet, ValidateResponse
<1>5. CASE Goto(i, "complete", q)
  <2>1. Proceeds(i, "complete", q)
    BY <1>2, <1>3, <1>4 DEF Proceeds, PollStages
  <2> QED
    BY <1>5, <2>1 DEF Moves, Edge
<1>6. CASE Goto(i, "unavailable", q)
  <2>1. Falls(i, "unavailable", q)
    BY <1>2, <1>3, <1>4 DEF Falls, Running
  <2> QED
    BY <1>6, <2>1 DEF Moves, Edge
<1> QED
  BY <1>5, <1>6 DEF ValidateResponse

\* complete_lease_request stores the first response and answers every other
\* execution from it.
LEMMA CompleteMoves ==
  ASSUME Rows, NEW i \in Callers, CompleteRequest(i)
  PROVE  Moves(i)
<1> DEFINE s == i[1]
           q == calls[i].resp
           stored == receipt[i[1]]
<1>1. StoreRows /\ CallRow(i) /\ Len(outbox) \in Nat
  BY CallFacts DEF Rows
<1>2. calls[i].stage = "complete" /\ UNCHANGED <<runner, faults, acked, ended>>
  BY DEF CompleteRequest
<1>3. q \in 0 .. Len(outbox) /\ (Offer(q) => q \in 1 .. Len(outbox))
  BY <1>1, <1>2 DEF CallRow, CommandStages, Offer
<1>4. UNCHANGED <<requestRows, outbox>> => Quiet
  BY <1>1, <1>2, UnchangedKeeps DEF Quiet, requestRows
<1>5. CASE Refuse(i)
  BY <1>2, <1>5, RefuseMoves DEF PollStages
<1>6. CASE UNCHANGED <<requestRows, outbox>> /\ (Goto(i, "corrupt", q) \/ Goto(i, "unavailable", q))
  <2>1. Falls(i, "corrupt", q) /\ Falls(i, "unavailable", q)
    BY <1>2, <1>3, <1>4, <1>6 DEF Falls, Running
  <2> QED
    BY <1>6, <2>1 DEF Moves, Edge
<1>7. CASE ~HeadMoved(i) /\ stored # None /\ Completed(i, q, stored)
  <2>1. UNCHANGED requestRows /\ UNCHANGED leases
    BY <1>7 DEF Completed, requestRows
  <2>2. CASE stored = q /\ Resolution(q) = "revoked" /\ Revoke({q}) /\ Goto(i, "reply", 0)
    <3>1. Offer(q) /\ q \in 1 .. Len(outbox)
      BY <1>3, <2>2, ResolutionCases
    <3>2. SameCommands /\ outbox'[q].revoked
      BY <1>1, <2>1, <2>2, <3>1, RevokeKeeps
    <3>3. Returns(i, "reply", 0)
      BY <1>2, <1>7, <2>1, <2>2, <3>1, <3>2 DEF Returns, Given, Quiet, HeadMoved
    <3> QED
      BY <2>2, <3>3 DEF Moves, Edge
  <2>3. CASE Goto(i, "resolve", stored) /\ UNCHANGED outbox
    <3>1. Returns(i, "resolve", stored)
      BY <1>2, <1>4, <1>7, <2>1, <2>3 DEF Returns, Given, HeadMoved
    <3> QED
      BY <2>3, <3>1 DEF Moves, Edge
  <2>4. CASE UNCHANGED outbox /\ (Goto(i, "corrupt", q) \/ Goto(i, "unavailable", q))
    BY <1>6, <2>1, <2>4
  <2> QED
    BY <1>7, <2>2, <2>3, <2>4 DEF Completed
<1>8. CASE ~HeadMoved(i) /\ stored = None /\ Complete(i, s, q)
  <2>1. CASE UNCHANGED <<requestRows, outbox>> /\ (Goto(i, "corrupt", q) \/ Goto(i, "unavailable", q))
    BY <1>6, <2>1
  <2>2. CASE /\ receipt' = [receipt EXCEPT ![s] = q]
             /\ IF Resolution(q) = "revoked"
                THEN Revoke({q}) /\ Goto(i, "reply", 0)
                ELSE UNCHANGED outbox /\ Goto(i, "resolve", q)
             /\ UNCHANGED <<head, claim, leases, live>>
    <3>1. CASE Resolution(q) = "revoked" /\ Revoke({q}) /\ Goto(i, "reply", 0)
      <4>1. Offer(q) /\ q \in 1 .. Len(outbox)
        BY <1>3, <3>1, ResolutionCases
      <4>2. SameCommands /\ outbox'[q].revoked
        BY <1>1, <2>2, <3>1, <4>1, RevokeKeeps
      <4>3. Stores(i, "reply", 0)
        BY <1>2, <1>8, <2>2, <4>1, <4>2 DEF Stores, Given, HeadMoved
      <4> QED
        BY <3>1, <4>3 DEF Moves, Edge
    <3>2. CASE UNCHANGED outbox /\ Goto(i, "resolve", q)
      <4>1. SameCommands
        BY <1>1, <2>2, <3>2, UnchangedKeeps
      <4>2. Stores(i, "resolve", q)
        BY <1>2, <1>8, <2>2, <4>1 DEF Stores, Given, HeadMoved
      <4> QED
        BY <3>2, <4>2 DEF Moves, Edge
    <3> QED
      BY <2>2, <3>1, <3>2
  <2> QED
    BY <1>8, <2>1, <2>2 DEF Complete
<1> QED
  BY <1>5, <1>7, <1>8 DEF CompleteRequest

\* resolve_lease_request_completion
LEMMA ResolveMoves ==
  ASSUME Rows, NEW i \in Callers, ResolveCompletion(i)
  PROVE  Moves(i)
<1> DEFINE q == calls[i].resp
<1>1. StoreRows /\ CallRow(i) /\ Len(outbox) \in Nat
  BY CallFacts DEF Rows
<1>2. calls[i].stage = "resolve" /\ UNCHANGED <<requestRows, runner, faults, acked, ended>>
  BY DEF ResolveCompletion
<1>3. UNCHANGED leases /\ q \in 0 .. Len(outbox) /\ (Offer(q) => q \in 1 .. Len(outbox))
  BY <1>1, <1>2 DEF requestRows, CallRow, CommandStages, Offer
<1>4. UNCHANGED outbox => Quiet
  BY <1>1, <1>2, <1>3, UnchangedKeeps DEF Quiet
<1>5. CASE Resolution(q) = "revoked" /\ Revoke({q}) /\ Goto(i, "reply", 0)
  <2>1. Offer(q) /\ q \in 1 .. Len(outbox)
    BY <1>3, <1>5, ResolutionCases
  <2>2. SameCommands /\ outbox'[q].revoked
    BY <1>1, <1>3, <1>5, <2>1, RevokeKeeps
  <2>3. Returns(i, "reply", 0)
    BY <1>2, <2>1, <2>2 DEF Returns, Given, Quiet
  <2> QED
    BY <1>5, <2>3 DEF Moves, Edge
<1>6. CASE Goto(i, "unavailable", q) /\ UNCHANGED outbox
  <2>1. Falls(i, "unavailable", q)
    BY <1>2, <1>3, <1>4, <1>6 DEF Falls, Running
  <2> QED
    BY <1>6, <2>1 DEF Moves, Edge
<1>7. CASE Goto(i, "reply", q) /\ UNCHANGED outbox
  <2>1. Returns(i, "reply", q)
    BY <1>2, <1>4, <1>7 DEF Returns, Given
  <2> QED
    BY <1>7, <2>1 DEF Moves, Edge
<1> QED
  BY <1>5, <1>6, <1>7 DEF ResolveCompletion

\* handle_command_ack
LEMMA AcknowledgeMoves ==
  ASSUME Rows, NEW i \in Callers, Acknowledge(i)
  PROVE  Moves(i)
<1>1. StoreRows /\ Len(outbox) \in Nat
  BY CallFacts DEF Rows
<1>2. SameCommands
  BY <1>1, UnchangedKeeps DEF Acknowledge, requestRows
<1>3. Syncs(i, "sync", 0)
  BY <1>1, <1>2 DEF Acknowledge, Syncs, SyncStages
<1> QED
  BY <1>3 DEF Acknowledge, Moves, Edge

\* Every transaction of a handler is one of these moves, and leaves the runner
\* and the clock alone.
LEMMA HandleMoves ==
  ASSUME Rows, NEW i \in Callers, Handle(i)
  PROVE  Moves(i) /\ UNCHANGED <<runner, ended>>
<1>1. Moves(i)
  BY BeginMoves, ReplayMoves, CheckMoves, LookupMoves, ClaimMoves, InspectMoves, PublishMoves,
     ValidateMoves, CompleteMoves, ResolveMoves, AcknowledgeMoves DEF Handle
<1>2. UNCHANGED <<runner, ended>>
  BY DEF Handle, Begin, ReplayCommands, CheckCommand, LookupRequest, Claim, InspectClaim,
         PublishOffer, ValidateResponse, CompleteRequest, ResolveCompletion, Acknowledge
<1> QED
  BY <1>1, <1>2

-----------------------------------------------------------------------------
(* Every row keeps its type.                                               *)

\* An execution that moves keeps its request; the others keep everything.
LEMMA GotoFacts ==
  ASSUME CallRows, NEW i \in Callers, NEW st, NEW r, Goto(i, st, r)
  PROVE  /\ calls'[i].stage = st /\ calls'[i].resp = r
         /\ calls'[i].kind = calls[i].kind /\ calls'[i].op = calls[i].op
         /\ calls'[i].heard = calls[i].heard
         /\ \A j \in Callers : j # i => calls'[j] = calls[j]
         /\ st \in Running \cup Ended \cup {"idle"} /\ r \in Int =>
              calls' \in [Callers -> [kind : {"none", "poll", "ack", "beat"}, op : Nat,
                                      stage : Running \cup Ended \cup {"idle"}, resp : Int,
                                      heard : BOOLEAN]]
<1>1. calls[i] \in [kind : {"none", "poll", "ack", "beat"}, op : Nat,
                    stage : Running \cup Ended \cup {"idle"}, resp : Int, heard : BOOLEAN]
  BY DEF CallRows
<1>2. calls' = [calls EXCEPT ![i] = [calls[i] EXCEPT !.stage = st, !.resp = r]]
  BY <1>1 DEF CallRows, Goto
<1> DEFINE c == [calls[i] EXCEPT !.stage = st, !.resp = r]
<1>3. /\ c.stage = st /\ c.resp = r /\ c.kind = calls[i].kind /\ c.op = calls[i].op
      /\ c.heard = calls[i].heard
  BY <1>1, Zenon
<1>4. st \in Running \cup Ended \cup {"idle"} /\ r \in Int =>
        c \in [kind : {"none", "poll", "ack", "beat"}, op : Nat,
               stage : Running \cup Ended \cup {"idle"}, resp : Int, heard : BOOLEAN]
  BY <1>1, Zenon
<1> HIDE DEF c
<1> DEFINE C == [kind : {"none", "poll", "ack", "beat"}, op : Nat,
                 stage : Running \cup Ended \cup {"idle"}, resp : Int, heard : BOOLEAN]
<1>5. calls \in [Callers -> C] /\ calls' = [calls EXCEPT ![i] = c]
      /\ (st \in Running \cup Ended \cup {"idle"} /\ r \in Int => c \in C)
  BY <1>2, <1>4 DEF CallRows, c
<1> HIDE DEF C
<1>6. /\ calls'[i] = c
      /\ \A j \in Callers : j # i => calls'[j] = calls[j]
      /\ st \in Running \cup Ended \cup {"idle"} /\ r \in Int => calls' \in [Callers -> C]
  BY <1>5
<1> QED
  BY <1>3, <1>6 DEF C

\* The outbox and the leases only grow, in length and in what a lease is.
Growing ==
    /\ Len(leases') \in Nat /\ Len(outbox') \in Nat
    /\ Len(leases) <= Len(leases') /\ Len(outbox) <= Len(outbox')
    /\ \A l \in 1 .. Len(leases) : leases'[l] = leases[l]
    /\ \A q \in 1 .. Len(outbox) :
          /\ outbox'[q].kind = outbox[q].kind
          /\ outbox'[q].lease = outbox[q].lease
          /\ outbox[q].revoked => outbox'[q].revoked

\* What an execution carries stays right as the rows grow.
LEMMA CallRowKept ==
  ASSUME Rows, NEW j \in Callers, calls'[j] = calls[j], Growing,
         jcursor' \in Nat, jcursor <= jcursor'
  PROVE  CallRow(j)'
<1>1. /\ CallRow(j) /\ Len(leases) \in Nat /\ Len(outbox) \in Nat
      /\ jcursor \in Nat /\ calls[j].op \in Nat
  BY CallFacts DEF Rows, RunnerRows
<1> QED
  BY <1>1 DEF CallRow, Growing

\* The rows grow at every move.
LEMMA MoveGrows ==
  ASSUME Rows, NEW i \in Callers, NEW st, NEW r, Edge(i, st, r)
  PROVE  Growing
<1>1. Len(leases) \in Nat /\ Len(outbox) \in Nat /\ outbox \in Seq(Commands)
      /\ leases \in Seq(Requests)
  BY DEF Rows, StoreRows
<1>2. CASE SameCommands /\ UNCHANGED leases
  BY <1>1, <1>2 DEF Growing, SameCommands
<1>3. CASE Granted(i, st, r)
  BY <1>1, <1>3 DEF Growing, Granted
<1>4. CASE Publishes(i, st, r)
  BY <1>1, <1>4 DEF Growing, Publishes, requestRows
<1>5. CASE Declines(i, st, r)
  BY <1>1, <1>5 DEF Growing, Declines
<1> QED
  BY <1>2, <1>3, <1>4, <1>5
     DEF Edge, Falls, Proceeds, Syncs, Refuses, Returns, Succeeds, Looks, Stores, Quiet, requestRows

\* What a move leaves in the execution.
LEMMA MoveFits ==
  ASSUME Rows, NEW i \in Callers, NEW st, NEW r, Edge(i, st, r)
  PROVE  /\ st \in Running \cup Ended /\ st \notin {"begin", "ack"} /\ r \in Int
         /\ calls[i].stage \in Running
         /\ st \in PollStages => calls[i].kind = "poll"
         /\ st \in SyncStages => calls[i].kind \in {"ack", "beat"}
         /\ st \in LeaseStages => r \in 1 .. Len(leases')
         /\ st \in CommandStages => r \in 0 .. Len(outbox')
         /\ st \notin LeaseStages => r \in {None} \cup (0 .. Len(outbox'))
<1> USE DEF Running, Ended, Retryable, PollStages, SyncStages, LeaseStages, CommandStages, None
<1>1. CallRow(i) /\ Len(outbox) \in Nat /\ Len(leases) \in Nat /\ acked \in Nat
      /\ claim[i[1]] \in {None} \cup (0 .. Len(leases))
      /\ receipt[i[1]] \in {None} \cup (0 .. Len(outbox))
      /\ Len(outbox') \in Nat /\ Len(leases') \in Nat
      /\ Len(outbox) <= Len(outbox') /\ Len(leases) <= Len(leases')
  BY CallFacts, MoveGrows DEF Growing
<1>2. CASE Falls(i, st, r)
  BY <1>1, <1>2 DEF Falls, CallRow
<1>3. CASE Proceeds(i, st, r)
  BY <1>1, <1>3 DEF Proceeds, CallRow
<1>4. CASE Syncs(i, st, r)
  BY <1>1, <1>4 DEF Syncs, CallRow
<1>5. CASE Refuses(i, st, r)
  BY <1>1, <1>5 DEF Refuses, CallRow
<1>6. CASE Returns(i, st, r)
  BY <1>1, <1>6 DEF Returns, Given, CallRow
<1>7. CASE Succeeds(i, st, r)
  BY <1>1, <1>7 DEF Succeeds, CallRow
<1>8. CASE Looks(i, st, r)
  BY <1>1, <1>8 DEF Looks, CallRow
<1>9. CASE Declines(i, st, r)
  BY <1>1, <1>9 DEF Declines, CallRow
<1>10. CASE Granted(i, st, r)
  <2>1. Len(leases') = Len(leases) + 1
    BY <1>10 DEF Granted, Rows, StoreRows
  <2> QED
    BY <1>1, <1>10, <2>1 DEF Granted, CallRow
<1>11. CASE Publishes(i, st, r)
  <2>1. Len(outbox') = Len(outbox) + 1
    BY <1>11 DEF Publishes, Rows, StoreRows
  <2> QED
    BY <1>1, <1>11, <2>1 DEF Publishes, CallRow
<1>12. CASE Stores(i, st, r)
  BY <1>1, <1>12 DEF Stores, Given, CallRow
<1> QED
  BY <1>2, <1>3, <1>4, <1>5, <1>6, <1>7, <1>8, <1>9, <1>10, <1>11, <1>12 DEF Edge

\* A command stays a command as leases are granted.
LEMMA CommandsGrow ==
  ASSUME StoreRows, leases' \in Seq(Requests), Len(leases) <= Len(leases')
  PROVE  Commands \subseteq Commands' /\ outbox \in Seq(Commands')
<1>1. Len(leases) \in Nat /\ Len(leases') \in Nat /\ outbox \in Seq(Commands)
  BY DEF StoreRows
<1>2. Commands \subseteq Commands'
  BY <1>1 DEF Commands
<1> HIDE DEF Commands
<1> QED
  BY <1>1, <1>2

\* The store's rows keep their types at every move.
LEMMA MoveStoreRows ==
  ASSUME Rows, NEW i \in Callers, NEW st, NEW r, Edge(i, st, r), UNCHANGED <<runner, ended>>
  PROVE  StoreRows'
<1>1. StoreRows /\ CallRow(i) /\ i[1] \in Slots /\ calls[i].op \in Nat
      /\ Len(outbox) \in Nat /\ Len(leases) \in Nat
  BY CallFacts DEF Rows
<1>2. Growing
  BY MoveGrows
<1>3. CASE SameCommands /\ UNCHANGED requestRows
  BY <1>1, <1>3 DEF StoreRows, SameCommands, Commands, requestRows, ended
<1>4. CASE Succeeds(i, st, r)
  <2>1. calls[i].op \in 0 .. MaxOp
    BY <1>1, <1>4 DEF Succeeds, CallRow, PollStages
  <2> QED
    BY <1>1, <1>4, <2>1 DEF Succeeds, StoreRows, SameCommands, Commands, ended
<1>5. CASE Declines(i, st, r)
  BY <1>1, <1>5 DEF Declines, StoreRows, Commands, ended
<1>6. CASE Granted(i, st, r)
  <2>1. calls[i].op \in 1 .. MaxOp
    BY <1>1, <1>6 DEF Granted, CallRow, PollStages
  <2>2. leases' \in Seq(Requests) /\ Len(leases') = Len(leases) + 1
    <3>1. [slot |-> i[1], op |-> calls[i].op] \in Requests
      BY <1>1, <2>1 DEF Requests
    <3> QED
      BY <1>1, <1>6, <3>1 DEF Granted, StoreRows
  <2>3. outbox' \in Seq(Commands')
    BY <1>1, <1>6, <2>2, CommandsGrow DEF Granted
  <2>4. Len(leases') <= MaxLease
    BY <1>1, <1>6, <2>2, PollAssumption DEF Granted
  <2>5. claim' \in [Slots -> {None} \cup (0 .. Len(leases'))]
    BY <1>1, <1>6, <2>2 DEF Granted, StoreRows
  <2>6. live' \subseteq 1 .. Len(leases') /\ live' \cap concluded' = {}
    <3>1. live' = live \cup {Len(leases) + 1} /\ concluded' = concluded
      BY <1>6 DEF Granted, ended
    <3>2. live \subseteq 1 .. Len(leases) /\ concluded \subseteq 1 .. Len(leases) /\ live \cap concluded = {}
      BY <1>1 DEF StoreRows
    <3>3. Len(leases) + 1 \notin concluded
      BY <1>1, <3>2
    <3>4. live' \cap concluded' = {}
      BY <3>1, <3>2, <3>3
    <3>5. \A l \in 1 .. Len(leases) : l \in 1 .. Len(leases')
      BY <1>1, <2>2
    <3>6. Len(leases) + 1 \in 1 .. Len(leases')
      BY <1>1, <2>2
    <3> QED
      BY <3>1, <3>2, <3>4, <3>5, <3>6
  <2>7. overdue' \subseteq 1 .. Len(leases') /\ concluded' \subseteq 1 .. Len(leases')
    BY <1>1, <2>2 DEF StoreRows, ended
  <2>8. UNCHANGED <<head, receipt, outbox>>
    BY <1>6 DEF Granted
  <2> QED
    BY <1>1, <2>2, <2>3, <2>4, <2>5, <2>6, <2>7, <2>8 DEF StoreRows
<1>7. CASE Publishes(i, st, r)
  <2>1. claim[i[1]] \in 1 .. Len(leases)
    BY <1>1, <1>7 DEF Publishes, CallRow, LeaseStages
  <2>2. outbox' \in Seq(Commands') /\ Len(outbox') = Len(outbox) + 1
    BY <1>1, <1>7, <2>1 DEF Publishes, StoreRows, Commands, requestRows
  <2> QED
    BY <1>1, <1>7, <2>2 DEF Publishes, StoreRows, requestRows, ended
<1>8. CASE Stores(i, st, r)
  <2>1. calls[i].resp \in 0 .. Len(outbox)
    BY <1>1, <1>8 DEF Stores, CallRow, CommandStages
  <2> QED
    BY <1>1, <1>8, <2>1 DEF Stores, StoreRows, SameCommands, Commands, ended
<1> QED
  BY <1>3, <1>4, <1>5, <1>6, <1>7, <1>8
     DEF Edge, Falls, Proceeds, Syncs, Refuses, Returns, Looks, Quiet

\* All rows keep their types at every move.
LEMMA MoveRows ==
  ASSUME Rows, NEW i \in Callers, Moves(i), UNCHANGED <<runner, ended>>
  PROVE  Rows'
<1>1. PICK st, r : Goto(i, st, r) /\ Edge(i, st, r)
  BY DEF Moves
<1>2. Growing
  BY <1>1, MoveGrows
<1>3. StoreRows'
  BY <1>1, MoveStoreRows
<1>4. RunnerRows /\ StoreRows /\ CallRows /\ CallRow(i) /\ calls[i].op \in Nat
  BY CallFacts DEF Rows
<1>5. acked' \in Nat /\ acked' <= jcursor
  BY <1>1, <1>4 DEF RunnerRows, CallRow, Edge, Falls, Proceeds, Syncs, Refuses, Returns, Succeeds, Looks,
                    Declines, Granted, Publishes, Stores, Quiet
<1>6. RunnerRows'
  <2>1. Len(leases) \in Nat /\ Len(outbox) \in Nat
    BY <1>4 DEF StoreRows
  <2> QED
    BY <1>2, <1>4, <1>5, <2>1 DEF RunnerRows, Growing, runner, journal
<1>7. ASSUME NEW j \in Callers PROVE CallRow(j)'
  <2>1. jcursor' = jcursor /\ jcursor \in Nat
    BY <1>4 DEF runner, journal, RunnerRows
  <2>2. CASE j # i
    <3>1. calls'[j] = calls[j]
      BY <1>1, <1>4, <2>2, GotoFacts
    <3> QED
      BY <1>2, <2>1, <3>1, CallRowKept
  <2>3. CASE j = i
    <3>1. /\ calls'[i].stage = st /\ calls'[i].resp = r
          /\ calls'[i].kind = calls[i].kind /\ calls'[i].op = calls[i].op
      BY <1>1, <1>4, GotoFacts
    <3>2. /\ st \in Running \cup Ended /\ st \notin {"begin", "ack"}
          /\ calls[i].stage \in Running
          /\ st \in PollStages => calls[i].kind = "poll"
          /\ st \in SyncStages => calls[i].kind \in {"ack", "beat"}
          /\ st \in LeaseStages => r \in 1 .. Len(leases')
          /\ st \in CommandStages => r \in 0 .. Len(outbox')
          /\ st \notin LeaseStages => r \in {None} \cup (0 .. Len(outbox'))
      BY <1>1, MoveFits
    <3>3. st # "idle" /\ calls[i].stage # "idle"
      BY <3>2 DEF Running, Ended, Retryable
    <3> QED
      BY <1>4, <2>1, <2>3, <3>1, <3>2, <3>3 DEF CallRow
  <2> QED
    BY <2>2, <2>3
<1>8. CallRows'
  BY <1>1, <1>4, <1>7, GotoFacts, MoveFits DEF CallRows
<1> QED
  BY <1>3, <1>6, <1>8 DEF Rows

\* An execution goes on, is gone, or is no longer waited for.
Ending(j) == calls'[j] \in {calls[j], Idle, [calls[j] EXCEPT !.heard = FALSE]}

\* What an execution is after such a step.
LEMMA EndingFacts ==
  ASSUME CallRows, NEW j \in Callers, Ending(j)
  PROVE  /\ calls'[j] \in [kind : {"none", "poll", "ack", "beat"}, op : Nat,
                           stage : Running \cup Ended \cup {"idle"}, resp : Int, heard : BOOLEAN]
         /\ calls'[j].heard => calls'[j] = calls[j]
         /\ \/ calls'[j] = Idle
            \/ /\ calls'[j].kind = calls[j].kind /\ calls'[j].op = calls[j].op
               /\ calls'[j].stage = calls[j].stage /\ calls'[j].resp = calls[j].resp
<1>1. calls[j] \in [kind : {"none", "poll", "ack", "beat"}, op : Nat,
                    stage : Running \cup Ended \cup {"idle"}, resp : Int, heard : BOOLEAN]
  BY DEF CallRows
<1>2. CASE calls'[j] = calls[j]
  BY <1>1, <1>2
<1>3. CASE calls'[j] = Idle
  BY <1>3 DEF Idle, None
<1>4. CASE calls'[j] = [calls[j] EXCEPT !.heard = FALSE]
  BY <1>1, <1>4, Zenon
<1> QED
  BY <1>2, <1>3, <1>4 DEF Ending

\* Executions that end or are given up keep their types.
LEMMA EndingRows ==
  ASSUME Rows, Growing, jcursor' \in Nat, jcursor <= jcursor',
         calls' = [i \in Callers |-> calls'[i]], \A j \in Callers : Ending(j)
  PROVE  CallRows'
<1>1. CallRows
  BY DEF Rows
<1>2. calls' \in [Callers -> [kind : {"none", "poll", "ack", "beat"}, op : Nat,
                              stage : Running \cup Ended \cup {"idle"}, resp : Int, heard : BOOLEAN]]
  BY <1>1, EndingFacts
<1>3. ASSUME NEW j \in Callers PROVE CallRow(j)'
  <2>1. CASE calls'[j] = Idle
    BY <2>1 DEF Idle, CallRow, PollStages, SyncStages, LeaseStages, CommandStages
  <2>2. CASE /\ calls'[j].kind = calls[j].kind /\ calls'[j].op = calls[j].op
             /\ calls'[j].stage = calls[j].stage /\ calls'[j].resp = calls[j].resp
    <3>1. CallRow(j) /\ calls[j].op \in Nat /\ jcursor \in Nat
          /\ Len(leases) \in Nat /\ Len(outbox) \in Nat
      BY CallFacts DEF Rows, RunnerRows
    <3>2. calls'[j].heard => calls[j].heard
      BY <1>1, EndingFacts
    <3> QED
      BY <2>2, <3>1, <3>2 DEF CallRow, Growing
  <2> QED
    BY <1>1, <2>1, <2>2, EndingFacts
<1> QED
  BY <1>2, <1>3 DEF CallRows

\* Nothing grows when the outbox and the leases do not change.
LEMMA StillGrowing ==
  ASSUME Rows, UNCHANGED <<outbox, leases>>
  PROVE  Growing
BY DEF Rows, StoreRows, Growing

\* An execution that is gone, and the others.
LEMMA GoneEnding ==
  ASSUME CallRows, NEW i \in Callers,
         \/ calls' = [calls EXCEPT ![i] = Idle]
         \/ calls' = [calls EXCEPT ![i].heard = FALSE]
         \/ calls' = [j \in Callers |-> [calls[j] EXCEPT !.heard = FALSE]]
         \/ UNCHANGED calls
  PROVE  calls' = [j \in Callers |-> calls'[j]] /\ \A j \in Callers : Ending(j)
BY DEF CallRows, Ending

\* The executions of a step that sends a message.
LEMMA SendFacts ==
  ASSUME CallRows, NEW s \in Slots, NEW kind, NEW op, NEW stage, NEW resp,
         Send(s, kind, op, stage, resp)
  PROVE  \E i \in Callers :
            /\ i[1] = s
            /\ calls' = [calls EXCEPT ![i] =
                  [kind |-> kind, op |-> op, stage |-> stage, resp |-> resp, heard |-> TRUE]]
<1>1. PICK n \in 1 .. MaxCalls : calls' = [calls EXCEPT ![<<s, n>>] =
                 [kind |-> kind, op |-> op, stage |-> stage, resp |-> resp, heard |-> TRUE]]
  BY DEF Send
<1>2. <<s, n>> \in Callers /\ <<s, n>>[1] = s
  BY DEF Callers
<1> QED
  BY <1>1, <1>2

\* A message carries what its kind calls for.
LEMMA SendRows ==
  ASSUME Rows, Growing, UNCHANGED jcursor, NEW s \in Slots, NEW kind, NEW op, NEW stage, NEW resp,
         Send(s, kind, op, stage, resp), op \in Nat,
         \/ kind = "poll" /\ stage = "begin" /\ resp = None /\ op \in 1 .. MaxOp
         \/ kind = "beat" /\ stage = "preSync" /\ resp = 0 /\ op = 0
         \/ kind = "ack" /\ stage = "ack" /\ resp = 0 /\ op <= jcursor
  PROVE  CallRows'
<1> DEFINE new == [kind |-> kind, op |-> op, stage |-> stage, resp |-> resp, heard |-> TRUE]
<1>1. CallRows
  BY DEF Rows
<1>2. PICK i \in Callers : i[1] = s /\ calls' = [calls EXCEPT ![i] = new]
  BY <1>1, SendFacts
<1>3. new \in [kind : {"none", "poll", "ack", "beat"}, op : Nat,
               stage : Running \cup Ended \cup {"idle"}, resp : Int, heard : BOOLEAN]
  BY DEF Running, None
<1>4. calls'[i] = new /\ \A j \in Callers : j # i => calls'[j] = calls[j]
  BY <1>1, <1>2 DEF CallRows
<1>5. calls' \in [Callers -> [kind : {"none", "poll", "ack", "beat"}, op : Nat,
                              stage : Running \cup Ended \cup {"idle"}, resp : Int, heard : BOOLEAN]]
  BY <1>1, <1>2, <1>3 DEF CallRows
<1>6. ASSUME NEW j \in Callers PROVE CallRow(j)'
  <2>1. jcursor \in Nat /\ jcursor' = jcursor /\ Len(outbox') \in Nat
    BY DEF Rows, RunnerRows, Growing
  <2>2. CASE j # i
    BY <1>4, <2>1, <2>2, CallRowKept
  <2>3. CASE j = i
    BY <1>4, <2>1, <2>3 DEF CallRow, PollStages, SyncStages, LeaseStages, CommandStages, None
  <2> QED
    BY <2>2, <2>3
<1> QED
  BY <1>5, <1>6 DEF CallRows

\* The rows keep their types when executions end or are given up, the runner
\* applies what it received, and the control plane does its other work.
LEMMA OtherRows ==
  ASSUME Rows,
         \/ \E i \in Callers : Deliver(i) \/ RetryLater(i) \/ Discard(i) \/ Timeout(i) \/ Drop(i)
                               \/ Abort(i)
         \/ \E s \in Slots : \/ SendPoll(s) \/ SendBeat(s) \/ SendAck(s) \/ FlushDone(s)
                             \/ TakeNothing(s) \/ TakeCommand(s) \/ Conclude(s) \/ Release(s)
         \/ \E l \in DOMAIN leases : EnqueueCancel(l) \/ Expire(l) \/ Reap(l)
         \/ Restart
  PROVE  Rows' /\ Growing
<1>1. /\ StoreRows /\ RunnerRows /\ CallRows
      /\ Len(outbox) \in Nat /\ Len(leases) \in Nat /\ DOMAIN leases = 1 .. Len(leases)
      /\ jcursor \in Nat
  <2>1. StoreRows /\ RunnerRows /\ CallRows
    BY DEF Rows
  <2>2. outbox \in Seq(Commands) /\ leases \in Seq(Requests)
    BY <2>1 DEF StoreRows
  <2>3. Len(outbox) \in Nat /\ Len(leases) \in Nat /\ DOMAIN leases = 1 .. Len(leases)
    BY <2>2
  <2> QED
    BY <2>1, <2>3 DEF RunnerRows
<1>2. UNCHANGED store => StoreRows' /\ Growing
  BY <1>1, StillGrowing DEF StoreRows, Commands, store, ended
<1>3. ASSUME Growing, jcursor' = jcursor, NEW i \in Callers,
             \/ calls' = [calls EXCEPT ![i] = Idle]
             \/ calls' = [calls EXCEPT ![i].heard = FALSE]
             \/ calls' = [j \in Callers |-> [calls[j] EXCEPT !.heard = FALSE]]
             \/ UNCHANGED calls
      PROVE  CallRows'
  BY <1>1, <1>3, GoneEnding, EndingRows
<1>4. ASSUME UNCHANGED calls, Growing, jcursor' \in Nat, jcursor <= jcursor' PROVE CallRows'
  <2>1. calls' = [j \in Callers |-> calls'[j]] /\ \A j \in Callers : Ending(j)
    BY <1>1, <1>4 DEF CallRows, Ending
  <2> QED
    BY <1>4, <2>1, EndingRows
<1>5. ASSUME NEW i \in Callers, Deliver(i) PROVE Rows' /\ Growing
  <2>1. StoreRows' /\ Growing /\ UNCHANGED <<store, journal>>
    BY <1>2, <1>5 DEF Deliver
  <2>2. CallRow(i) /\ i[1] \in Slots /\ calls[i].op \in Nat
    BY CallFacts
  <2>3. calls[i].resp \in 0 .. Len(outbox)
    BY <1>5, <2>2 DEF Deliver, CallRow, CommandStages
  <2>4. sent' \in Nat /\ sent' <= jcursor
    BY <1>1, <1>5, <2>2 DEF Deliver, RunnerRows, CallRow
  <2>5. reply' \in [Slots -> {None} \cup (0 .. Len(outbox))]
    BY <1>1, <1>5, <2>2, <2>3 DEF Deliver, RunnerRows
  <2>6. RunnerRows'
    BY <1>1, <1>5, <2>1, <2>4, <2>5 DEF Deliver, RunnerRows, store, journal
  <2>7. CallRows'
    BY <1>3, <1>5, <2>1 DEF Deliver, journal
  <2> QED
    BY <2>1, <2>6, <2>7 DEF Rows
<1>6. ASSUME NEW i \in Callers, RetryLater(i) \/ Discard(i) \/ Timeout(i) \/ Drop(i) PROVE Rows' /\ Growing
  <2>1. UNCHANGED <<store, runner>>
    BY <1>6 DEF RetryLater, Discard, Timeout, Drop
  <2>2. StoreRows' /\ Growing
    BY <1>2, <2>1
  <2>3. RunnerRows'
    BY <1>1, <2>1 DEF RunnerRows, store, runner, journal
  <2>4. jcursor' = jcursor
    BY <2>1 DEF runner, journal
  <2>5. CallRows'
    BY <1>3, <1>6, <2>2, <2>4 DEF RetryLater, Discard, Timeout, Drop
  <2> QED
    BY <2>2, <2>3, <2>5 DEF Rows
<1>7. ASSUME Resume PROVE Rows' /\ Growing
  <2>1. StoreRows' /\ UNCHANGED <<outbox, leases, journal>>
    BY <1>1, <1>7 DEF StoreRows, Commands, Resume, ended
  <2>2. Growing /\ jcursor' = jcursor
    BY <2>1, StillGrowing DEF journal
  <2>3. phase' \in [Slots -> {"poll", "flush", "run"}] /\ reply' \in [Slots -> {None} \cup (0 .. Len(outbox))]
    BY <1>7 DEF Resume, AfterExchange
  <2>4. RunnerRows'
    BY <1>1, <1>7, <2>1, <2>3 DEF RunnerRows, Resume, journal
  <2>5. \A j \in Callers : Ending(j)
    BY <1>7 DEF Resume, Ending
  <2>6. calls' = [j \in Callers |-> calls'[j]]
    BY <1>7 DEF Resume
  <2>7. CallRows'
    BY <1>1, <2>2, <2>5, <2>6, EndingRows
  <2> QED
    BY <2>1, <2>2, <2>4, <2>7 DEF Rows
<1>8. ASSUME NEW s \in Slots, SendPoll(s) \/ SendBeat(s) \/ SendAck(s) PROVE Rows' /\ Growing
  <2>1. UNCHANGED <<store, journal, phase, reply, sent>>
    BY <1>8 DEF SendPoll, SendBeat, SendAck, runner
  <2>2. flusher' \in Slots \cup {NoSlot}
    BY <1>1, <1>8 DEF SendPoll, SendBeat, SendAck, runner, RunnerRows
  <2>3. StoreRows' /\ Growing /\ jcursor' = jcursor
    BY <1>2, <2>1 DEF journal
  <2>4. RunnerRows'
    BY <1>1, <2>1, <2>2 DEF RunnerRows, store, journal
  <2>5. CASE SendPoll(s)
    <3>1. jop[s] \in 1 .. MaxOp
      BY <1>1, <2>5, PollAssumption DEF SendPoll, RunnerRows
    <3>2. CallRows'
      BY <2>3, <2>5, <3>1, SendRows DEF SendPoll
    <3> QED
      BY <2>3, <2>4, <3>2 DEF Rows
  <2>6. CASE SendBeat(s)
    <3>1. CallRows'
      BY <2>3, <2>6, SendRows DEF SendBeat
    <3> QED
      BY <2>3, <2>4, <3>1 DEF Rows
  <2>7. CASE SendAck(s)
    <3>1. CallRows'
      BY <1>1, <2>3, <2>7, SendRows DEF SendAck
    <3> QED
      BY <2>3, <2>4, <3>1 DEF Rows
  <2> QED
    BY <1>8, <2>5, <2>6, <2>7
<1>9. ASSUME NEW s \in Slots, FlushDone(s) \/ TakeNothing(s) \/ Release(s) PROVE Rows' /\ Growing
  <2>1. UNCHANGED <<store, jcursor, ignored, sent, calls>>
    BY <1>9 DEF FlushDone, TakeNothing, Release, journal
  <2>2. StoreRows' /\ Growing
    BY <1>2, <2>1
  <2>3. /\ phase' \in [Slots -> {"poll", "flush", "run"}]
        /\ jop' \in [Slots -> Nat \ {0}]
        /\ jslot' \in [Slots -> 0 .. Len(leases)]
        /\ reply' \in [Slots -> {None} \cup (0 .. Len(outbox))]
        /\ flusher' \in Slots \cup {NoSlot}
    <3>1. CASE FlushDone(s)
      BY <1>1, <3>1 DEF FlushDone, RunnerRows, journal, AfterExchange
    <3>2. CASE TakeNothing(s)
      <4>1. AfterExchange(s, jslot) \in {"poll", "flush", "run"} /\ jop[s] + 1 \in Nat \ {0}
        BY <1>1 DEF AfterExchange, RunnerRows
      <4> QED
        BY <1>1, <3>2, <4>1 DEF TakeNothing, RunnerRows
    <3>3. CASE Release(s)
      BY <1>1, <3>3 DEF Release, RunnerRows
    <3> QED
      BY <1>9, <3>1, <3>2, <3>3
  <2>4. RunnerRows'
    BY <1>1, <2>1, <2>3 DEF RunnerRows, store
  <2>5. CallRows'
    BY <1>1, <1>4, <2>1, <2>2
  <2> QED
    BY <2>2, <2>4, <2>5 DEF Rows
<1>10. ASSUME NEW s \in Slots, TakeCommand(s) PROVE Rows' /\ Growing
  <2> DEFINE q == reply[s]
  <2>1. UNCHANGED <<store, sent, calls, flusher>>
    BY <1>10 DEF TakeCommand
  <2>2. StoreRows' /\ Growing
    BY <1>2, <2>1
  <2>3. q \in 1 .. Len(outbox) /\ q <= jcursor + 1
    BY <1>1, <1>10 DEF TakeCommand, RunnerRows, None
  <2>4. jcursor' \in Nat /\ jcursor <= jcursor' /\ jcursor' <= Len(outbox) /\ q <= jcursor'
    BY <1>1, <1>10, <2>3 DEF TakeCommand, RunnerRows
  <2>5. outbox[q].lease \in 1 .. Len(leases)
    <3>1. outbox[q] \in Commands
      BY <1>1, <2>3 DEF StoreRows
    <3> QED
      BY <3>1 DEF Commands
  <2>6. jslot' \in [Slots -> 0 .. Len(leases)]
    <3>1. jslot' = jslot \/ jslot' = [jslot EXCEPT ![RequestOf(q).slot] = outbox[q].lease]
      BY <1>10 DEF TakeCommand, RecordedSlots
    <3>2. jslot \in [Slots -> 0 .. Len(leases)] /\ outbox[q].lease \in 0 .. Len(leases)
      BY <1>1, <2>5 DEF RunnerRows
    <3> QED
      BY <3>1, <3>2
  <2>7. ignored' \subseteq 1 .. jcursor'
    <3>1. ignored' \subseteq ignored \cup {q}
      BY <1>10 DEF TakeCommand, IgnoredOffers
    <3>2. ignored \subseteq 1 .. jcursor
      BY <1>1 DEF RunnerRows
    <3>3. q \in 1 .. jcursor'
      BY <2>3, <2>4
    <3>4. \A p \in 1 .. jcursor : p \in 1 .. jcursor'
      BY <1>1, <2>4
    <3> QED
      BY <3>1, <3>2, <3>3, <3>4
  <2>8. /\ phase' \in [Slots -> {"poll", "flush", "run"}]
        /\ jop' \in [Slots -> Nat \ {0}]
        /\ reply' \in [Slots -> {None} \cup (0 .. Len(outbox))]
    BY <1>1, <1>10 DEF TakeCommand, RunnerRows
  <2>9. acked' = acked /\ outbox' = outbox /\ leases' = leases
    BY <2>1 DEF store
  <2>10. RunnerRows'
    BY <1>1, <2>1, <2>4, <2>6, <2>7, <2>8, <2>9 DEF RunnerRows
  <2>11. CallRows'
    BY <1>4, <2>1, <2>2, <2>4
  <2> QED
    BY <2>2, <2>10, <2>11 DEF Rows
<1>11. ASSUME UNCHANGED <<outbox, acked, leases, runner, calls, head, claim, receipt>>,
              live' \subseteq live, overdue' \subseteq 1 .. Len(leases),
              concluded' \subseteq concluded \cup (live \ live')
       PROVE  Rows' /\ Growing
  <2>1. StoreRows'
    BY <1>1, <1>11 DEF StoreRows, Commands
  <2>2. Growing
    BY <1>11, StillGrowing
  <2>3. RunnerRows' /\ jcursor' = jcursor
    BY <1>1, <1>11 DEF RunnerRows, runner, journal
  <2>4. CallRows'
    BY <1>1, <1>4, <1>11, <2>2, <2>3
  <2> QED
    BY <2>1, <2>2, <2>3, <2>4 DEF Rows
<1>12. ASSUME NEW s \in Slots, Conclude(s) PROVE Rows' /\ Growing
  <2>1. live' \subseteq live /\ overdue' \subseteq 1 .. Len(leases)
    BY <1>1, <1>12 DEF Conclude, StoreRows
  <2>2. concluded' \subseteq concluded \cup (live \ live')
    BY <1>12 DEF Conclude
  <2> QED
    BY <1>11, <1>12, <2>1, <2>2 DEF Conclude
<1>13. ASSUME NEW l \in DOMAIN leases, Expire(l) \/ Reap(l) PROVE Rows' /\ Growing
  <2>1. live' \subseteq live /\ overdue' \subseteq 1 .. Len(leases) /\ concluded' = concluded
    BY <1>1, <1>13 DEF Expire, Reap, StoreRows, requestRows, ended
  <2> QED
    BY <1>11, <1>13, <2>1 DEF Expire, Reap, requestRows
<1>14. ASSUME NEW l \in DOMAIN leases, EnqueueCancel(l) PROVE Rows' /\ Growing
  <2>1. /\ outbox' = Append(outbox, [kind |-> "cancel", lease |-> l, revoked |-> FALSE])
        /\ UNCHANGED <<head, claim, receipt, leases, live, acked, overdue, concluded, runner, calls>>
    BY <1>14 DEF EnqueueCancel, requestRows, ended
  <2>2. Commands' = Commands
    BY <2>1 DEF Commands
  <2>3. [kind |-> "cancel", lease |-> l, revoked |-> FALSE] \in Commands
    BY <1>1 DEF Commands
  <2>4. outbox \in Seq(Commands)
    BY <1>1 DEF StoreRows
  <2>5. /\ outbox' \in Seq(Commands) /\ Len(outbox') = Len(outbox) + 1
        /\ \A q \in 1 .. Len(outbox) : outbox'[q] = outbox[q]
    BY <2>1, <2>3, <2>4
  <2>6. StoreRows'
    BY <1>1, <2>1, <2>2, <2>5 DEF StoreRows
  <2>7. Growing
    BY <1>1, <2>1, <2>5 DEF Growing
  <2>8. RunnerRows' /\ jcursor' = jcursor
    BY <1>1, <2>1, <2>5 DEF RunnerRows, runner, journal
  <2>9. CallRows'
    BY <1>1, <1>4, <2>1, <2>7, <2>8
  <2> QED
    BY <2>6, <2>7, <2>8, <2>9 DEF Rows
<1> QED
  BY <1>5, <1>6, <1>7, <1>8, <1>9, <1>10, <1>12, <1>13, <1>14 DEF Abort, Restart

-----------------------------------------------------------------------------
(* Exchanges and checkpoints.                                              *)

\* Only begin_lease_request moves a head, and only by one.
LEMMA HeadGrows ==
  ASSUME Rows, NEW i \in Callers, NEW st, NEW r, Edge(i, st, r)
  PROVE  /\ \A s \in Slots : head[s] \in Nat /\ head'[s] \in Nat /\ head[s] <= head'[s]
         /\ \A s \in Slots : s # i[1] => head'[s] = head[s]
         /\ ~Succeeds(i, st, r) => head' = head
<1>1. head \in [Slots -> 0 .. MaxOp] /\ i[1] \in Slots
  BY CallFacts DEF Rows, StoreRows
<1>2. CASE Succeeds(i, st, r)
  <2>1. calls[i].op = head[i[1]] + 1 /\ head' = [head EXCEPT ![i[1]] = calls[i].op]
    BY <1>2 DEF Succeeds
  <2> QED
    BY <1>1, <1>2, <2>1
<1>3. CASE head' = head
  BY <1>1, <1>3
<1>4. ~Succeeds(i, st, r) => head' = head
  BY DEF Edge, Falls, Proceeds, Syncs, Refuses, Returns, Looks, Declines, Granted, Publishes, Stores,
         Quiet, requestRows
<1> QED
  BY <1>2, <1>3, <1>4

\* A move of a handler keeps the exchanges: it leaves begin only with its
\* request at the head, and moves the head only to the checkpoint.
LEMMA MoveExchanges ==
  ASSUME Rows, Exchanges, NEW i \in Callers, Moves(i), UNCHANGED <<runner, ended>>
  PROVE  Exchanges'
<1>1. PICK st, r : Goto(i, st, r) /\ Edge(i, st, r)
  BY DEF Moves
<1>2. /\ CallRows /\ CallRow(i) /\ i[1] \in Slots /\ calls[i].op \in Nat
      /\ calls[i].stage \in Running
  BY <1>1, CallFacts, MoveFits DEF Rows
<1>3. /\ calls'[i].stage = st /\ calls'[i].kind = calls[i].kind /\ calls'[i].op = calls[i].op
      /\ calls'[i].heard = calls[i].heard
      /\ \A j \in Callers : j # i => calls'[j] = calls[j]
  BY <1>1, <1>2, GotoFacts
<1>4. /\ \A s \in Slots : head[s] \in Nat /\ head'[s] \in Nat /\ head[s] <= head'[s]
      /\ \A s \in Slots : s # i[1] => head'[s] = head[s]
      /\ ~Succeeds(i, st, r) => head' = head
  BY <1>1, HeadGrows
<1>5. jop' = jop /\ reply' = reply /\ phase' = phase
  BY DEF runner, journal
<1>6. ASSUME NEW j \in Callers PROVE Fits(j)'
  <2>1. Fits(j) /\ j[1] \in Slots /\ calls[j].op \in Nat
    BY CallFacts DEF Exchanges
  <2>2. CASE j # i
    BY <1>3, <1>4, <1>5, <2>1, <2>2 DEF Fits
  <2>3. CASE j = i
    <3>1. CASE calls[i].stage # "begin"
      <4>1. calls[i].stage # "unavailable"
        BY <1>2 DEF Running
      <4> QED
        BY <1>3, <1>4, <1>5, <2>1, <2>3, <3>1, <4>1 DEF Fits
    <3>2. CASE calls[i].stage = "begin"
      <4>1. st = "unavailable" \/ calls[i].op <= head'[i[1]]
        <5>1. CASE Succeeds(i, st, r)
          <6>1. head' = [head EXCEPT ![i[1]] = calls[i].op] /\ head \in [Slots -> 0 .. MaxOp]
            BY <5>1 DEF Succeeds, Rows, StoreRows
          <6> QED
            BY <1>2, <6>1
        <5>2. CASE ~Succeeds(i, st, r)
          <6>1. st = "unavailable" \/ calls[i].op <= head[i[1]]
            BY <1>1, <1>2, <1>4, <3>2, <5>2
               DEF Edge, Falls, Proceeds, Syncs, Refuses, Returns, Looks, Declines, Granted, Publishes,
                   Stores, PollStages, SyncStages, LeaseStages
          <6> QED
            BY <1>4, <5>2, <6>1
        <5> QED
          BY <5>1, <5>2
      <4> QED
        BY <1>3, <1>5, <2>1, <2>3, <4>1 DEF Fits
    <3> QED
      BY <3>1, <3>2
  <2> QED
    BY <2>2, <2>3
<1>7. ASSUME NEW j \in Callers PROVE Waits(j)'
  <2>1. Waits(j)
    BY DEF Exchanges
  <2>2. \A k \in Callers : /\ calls'[k].heard = calls[k].heard
                           /\ calls'[k].kind = calls[k].kind /\ calls'[k].op = calls[k].op
    BY <1>3
  <2> QED
    BY <1>5, <2>1, <2>2 DEF Waits
<1>8. ASSUME NEW s \in Slots PROVE Checkpoint(s)'
  <2>1. Checkpoint(s)
    BY DEF Exchanges
  <2>2. CASE head'[s] = head[s]
    BY <1>5, <2>1, <2>2 DEF Checkpoint
  <2>3. CASE s = i[1] /\ Succeeds(i, st, r)
    <3>1. head'[s] = calls[i].op /\ calls[i].op = head[s] + 1 /\ calls[i].stage = "begin"
      BY <1>2, <2>3 DEF Succeeds, Rows, StoreRows
    <3>2. calls[i].kind = "poll"
      BY <1>2, <3>1 DEF CallRow, PollStages
    <3>3. calls[i].op <= jop[s]
      BY <2>3, <3>2 DEF Exchanges, Fits
    <3> QED
      BY <1>4, <1>5, <2>1, <3>1, <3>3 DEF Checkpoint
  <2> QED
    BY <1>4, <2>2, <2>3
<1> QED
  BY <1>6, <1>7, <1>8 DEF Exchanges

\* When no head moves and executions only end, a slot whose checkpoint, phase
\* or answer changes must not be waiting for an exchange.
LEMMA EndingExchanges ==
  ASSUME Rows, Exchanges, UNCHANGED head, \A j \in Callers : Ending(j),
         \A s \in Slots :
            /\ jop'[s] \in Nat /\ jop[s] <= jop'[s] /\ Checkpoint(s)'
            /\ \/ reply'[s] = reply[s] /\ phase'[s] = phase[s] /\ jop'[s] = jop[s]
               \/ \A j \in Callers : j[1] = s => ~calls'[j].heard
  PROVE  Exchanges'
<1>1. CallRows
  BY DEF Rows
<1>2. ASSUME NEW j \in Callers PROVE Fits(j)'
  <2>1. Fits(j) /\ j[1] \in Slots /\ calls[j].op \in Nat /\ head[j[1]] \in Nat /\ jop[j[1]] \in Nat
    BY CallFacts DEF Exchanges, Rows, RunnerRows
  <2>2. jop'[j[1]] \in Nat /\ jop[j[1]] <= jop'[j[1]]
    BY <2>1
  <2>3. CASE calls'[j] = Idle
    BY <2>3 DEF Fits, Idle
  <2>4. CASE /\ calls'[j].kind = calls[j].kind /\ calls'[j].op = calls[j].op
             /\ calls'[j].stage = calls[j].stage
    BY <2>1, <2>2, <2>4 DEF Fits
  <2> QED
    BY <1>1, <2>3, <2>4, EndingFacts
<1>3. ASSUME NEW j \in Callers, calls'[j].heard PROVE Waits(j)'
  <2>1. \A k \in Callers : calls'[k].heard => calls'[k] = calls[k]
    BY <1>1, EndingFacts
  <2>2. Waits(j) /\ j[1] \in Slots
    BY CallFacts DEF Exchanges
  <2>3. calls'[j] = calls[j]
    BY <1>3, <2>1
  <2>4. reply'[j[1]] = reply[j[1]] /\ phase'[j[1]] = phase[j[1]] /\ jop'[j[1]] = jop[j[1]]
    BY <1>3, <2>2
  <2> QED
    BY <1>3, <2>1, <2>2, <2>3, <2>4 DEF Waits
<1>4. \A j \in Callers : Waits(j)'
  BY <1>3 DEF Waits
<1> QED
  BY <1>2, <1>4 DEF Exchanges

\* A slot that sends waits for nothing else.
LEMMA SendExchanges ==
  ASSUME Rows, Exchanges, NEW s \in Slots, NEW kind, NEW op, NEW stage, NEW resp,
         Send(s, kind, op, stage, resp), UNCHANGED <<head, jop, phase, reply>>,
         \/ kind = "poll" /\ stage = "begin" /\ phase[s] = "poll" /\ op = jop[s]
         \/ kind = "beat" /\ phase[s] = "run"
         \/ kind = "ack" /\ phase[s] = "flush"
  PROVE  Exchanges'
<1> DEFINE new == [kind |-> kind, op |-> op, stage |-> stage, resp |-> resp, heard |-> TRUE]
<1>1. CallRows /\ jop[s] \in Nat
  BY DEF Rows, RunnerRows
<1>2. PICK i \in Callers : i[1] = s /\ calls' = [calls EXCEPT ![i] = new]
  BY <1>1, SendFacts
<1>3. calls'[i] = new /\ \A j \in Callers : j # i => calls'[j] = calls[j]
  BY <1>1, <1>2 DEF CallRows
<1>4. reply[s] = None /\ \A j \in Callers : j[1] = s => ~calls[j].heard
  BY DEF Send, Exchanging
<1>5. ASSUME NEW j \in Callers PROVE Fits(j)'
  <2>1. Fits(j)
    BY DEF Exchanges
  <2>2. CASE j # i
    BY <1>3, <2>1, <2>2 DEF Fits
  <2>3. CASE j = i
    BY <1>1, <1>2, <1>3, <2>3 DEF Fits
  <2> QED
    BY <2>2, <2>3
<1>6. ASSUME NEW j \in Callers PROVE Waits(j)'
  <2>1. Waits(j)
    BY DEF Exchanges
  <2>2. CASE j # i
    <3>1. calls'[j] = calls[j] /\ \A k \in Callers : k # i => calls'[k] = calls[k]
      BY <1>3, <2>2
    <3>2. calls[j].heard => j[1] # s
      BY <1>4
    <3> QED
      BY <1>2, <2>1, <3>1, <3>2 DEF Waits
  <2>3. CASE j = i
    <3>1. \A k \in Callers : k[1] = s /\ calls'[k].heard => k = i
      BY <1>3, <1>4
    <3>2. calls'[i].kind = kind /\ calls'[i].op = op
      BY <1>3
    <3> QED
      BY <1>2, <1>4, <2>3, <3>1, <3>2 DEF Waits
  <2> QED
    BY <2>2, <2>3
<1>7. \A t \in Slots : Checkpoint(t)'
  BY DEF Exchanges, Checkpoint
<1> QED
  BY <1>5, <1>6, <1>7 DEF Exchanges

\* The exchanges are kept by every other step.
LEMMA OtherExchanges ==
  ASSUME Rows, Exchanges,
         \/ \E i \in Callers : Deliver(i) \/ RetryLater(i) \/ Discard(i) \/ Timeout(i) \/ Drop(i)
                               \/ Abort(i)
         \/ \E s \in Slots : \/ SendPoll(s) \/ SendBeat(s) \/ SendAck(s) \/ FlushDone(s)
                             \/ TakeNothing(s) \/ TakeCommand(s) \/ Conclude(s) \/ Release(s)
         \/ \E l \in DOMAIN leases : EnqueueCancel(l) \/ Expire(l) \/ Reap(l)
         \/ Restart
  PROVE  Exchanges'
<1>1. /\ CallRows /\ RunnerRows /\ StoreRows
      /\ \A s \in Slots : jop[s] \in Nat /\ head[s] \in Nat /\ Checkpoint(s)
  <2>1. CallRows /\ RunnerRows /\ StoreRows /\ \A s \in Slots : Checkpoint(s)
    BY DEF Rows, Exchanges
  <2>2. jop \in [Slots -> Nat \ {0}] /\ head \in [Slots -> 0 .. MaxOp]
    BY <2>1 DEF RunnerRows, StoreRows
  <2> QED
    BY <2>1, <2>2
<1>2. ASSUME UNCHANGED <<head, jop, reply, phase>>, \A j \in Callers : Ending(j) PROVE Exchanges'
  <2>1. \A s \in Slots : Checkpoint(s)'
    BY <1>1, <1>2 DEF Checkpoint
  <2> QED
    BY <1>1, <1>2, <2>1, EndingExchanges
<1>3. UNCHANGED calls => \A j \in Callers : Ending(j)
  BY DEF Ending
<1>4. ASSUME NEW i \in Callers, Deliver(i) PROVE Exchanges'
  <2>1. i[1] \in Slots /\ Waits(i) /\ Fits(i) /\ calls[i].op \in Nat
    BY CallFacts DEF Exchanges
  <2>2. \A j \in Callers : Ending(j)
    BY <1>1, <1>4, GoneEnding DEF Deliver
  <2>3. /\ calls'[i] = Idle
        /\ reply' = [reply EXCEPT ![i[1]] = calls[i].resp]
        /\ UNCHANGED <<head, jop, phase>>
    BY <1>1, <1>4 DEF Deliver, CallRows, store, journal
  <2>4. \A j \in Callers : j[1] = i[1] => ~calls'[j].heard
    <3> SUFFICES ASSUME NEW j \in Callers, j[1] = i[1], calls'[j].heard PROVE FALSE
      OBVIOUS
    <3>1. calls'[j] = calls[j]
      BY <1>1, <2>2, EndingFacts
    <3>2. j = i
      BY <1>4, <2>1, <3>1 DEF Waits, Deliver
    <3> QED
      BY <2>3, <3>2 DEF Idle
  <2>5. \A s \in Slots : s # i[1] => reply'[s] = reply[s]
    BY <1>1, <2>3 DEF RunnerRows
  <2>6. phase[i[1]] = "poll" => jop[i[1]] = head[i[1]]
    <3>1. calls[i].kind \in {"poll", "ack", "beat"}
      BY <1>1, <1>4, CallFacts DEF Deliver, CallRows, CallRow
    <3> QED
      BY <1>1, <1>4, <2>1, <3>1 DEF Deliver, Waits, Fits, Checkpoint
  <2>7. \A s \in Slots : Checkpoint(s)'
    BY <1>1, <2>3, <2>5, <2>6 DEF Checkpoint
  <2> QED
    BY <1>1, <2>2, <2>3, <2>4, <2>5, <2>7, EndingExchanges
<1>5. ASSUME NEW i \in Callers, RetryLater(i) \/ Discard(i) \/ Timeout(i) \/ Drop(i) PROVE Exchanges'
  <2>1. \A j \in Callers : Ending(j)
    BY <1>1, <1>5, GoneEnding DEF RetryLater, Discard, Timeout, Drop
  <2>2. UNCHANGED <<head, jop, reply, phase>>
    BY <1>5 DEF RetryLater, Discard, Timeout, Drop, store, runner, journal
  <2> QED
    BY <1>2, <2>1, <2>2
<1>6. ASSUME Resume PROVE Exchanges'
  <2>1. \A j \in Callers : Ending(j)
    BY <1>6 DEF Resume, Ending
  <2>2. \A j \in Callers : ~calls'[j].heard
    <3> SUFFICES ASSUME NEW j \in Callers PROVE ~calls'[j].heard
      OBVIOUS
    <3>1. calls'[j] = [calls[j] EXCEPT !.heard = FALSE]
      BY <1>6 DEF Resume
    <3>2. calls[j] \in [kind : {"none", "poll", "ack", "beat"}, op : Nat,
                        stage : Running \cup Ended \cup {"idle"}, resp : Int, heard : BOOLEAN]
      BY <1>1 DEF CallRows
    <3> QED
      BY <3>1, <3>2, Zenon
  <2>3. UNCHANGED <<head, jop>> /\ reply' = [s \in Slots |-> None]
    BY <1>6 DEF Resume, journal
  <2>4. \A s \in Slots : Checkpoint(s)'
    BY <1>1, <2>3 DEF Checkpoint
  <2> QED
    BY <1>1, <2>1, <2>2, <2>3, <2>4, EndingExchanges
<1>7. ASSUME NEW s \in Slots, SendPoll(s) PROVE Exchanges'
  BY <1>7, SendExchanges DEF SendPoll, store, runner, journal
<1>8. ASSUME NEW s \in Slots, SendBeat(s) PROVE Exchanges'
  BY <1>8, SendExchanges DEF SendBeat, store, runner, journal
<1>9. ASSUME NEW s \in Slots, SendAck(s) PROVE Exchanges'
  BY <1>9, SendExchanges DEF SendAck, store, journal
<1>10. ASSUME NEW s \in Slots, FlushDone(s) \/ Release(s) PROVE Exchanges'
  <2>1. /\ UNCHANGED <<head, jop, reply, calls>>
        /\ \A t \in Slots : t # s => phase'[t] = phase[t]
    BY <1>1, <1>10 DEF FlushDone, Release, store, journal, RunnerRows
  <2>2. reply[s] = None /\ \A j \in Callers : j[1] = s => ~calls[j].heard
    BY <1>10 DEF FlushDone, Release, Exchanging
  <2>3. \A t \in Slots : Checkpoint(t)'
    BY <1>1, <2>1, <2>2 DEF Checkpoint
  <2> QED
    BY <1>1, <1>3, <2>1, <2>2, <2>3, EndingExchanges
<1>11. ASSUME NEW s \in Slots, TakeNothing(s) \/ TakeCommand(s) PROVE Exchanges'
  <2>1. /\ UNCHANGED <<head, calls>>
        /\ reply' = [reply EXCEPT ![s] = None]
        /\ reply[s] # None
        /\ \/ phase[s] = "poll" /\ jop' = [jop EXCEPT ![s] = jop[s] + 1]
           \/ phase[s] # "poll" /\ jop' = jop
        /\ \A t \in Slots : t # s => phase'[t] = phase[t]
    <3>1. DOMAIN phase = Slots
      BY <1>1 DEF RunnerRows
    <3>2. CASE TakeNothing(s)
      BY <3>1, <3>2 DEF TakeNothing, store, None
    <3>3. CASE TakeCommand(s)
      BY <3>1, <3>3 DEF TakeCommand, store, None
    <3> QED
      BY <1>11, <3>2, <3>3
  <2>2. \A j \in Callers : j[1] = s => ~calls[j].heard
    BY <2>1 DEF Exchanges, Waits
  <2>3. \A t \in Slots : t # s => jop'[t] = jop[t] /\ reply'[t] = reply[t] /\ phase'[t] = phase[t]
    BY <1>1, <2>1 DEF RunnerRows
  <2>4. reply'[s] = None /\ jop'[s] \in {head[s], head[s] + 1} /\ jop[s] <= jop'[s] /\ jop'[s] \in Nat
    BY <1>1, <2>1 DEF RunnerRows, Checkpoint
  <2>5. \A t \in Slots : Checkpoint(t)'
    BY <1>1, <2>1, <2>3, <2>4 DEF Checkpoint
  <2> QED
    BY <1>1, <1>3, <2>1, <2>2, <2>3, <2>4, <2>5, EndingExchanges
<1>12. ASSUME NEW s \in Slots, Conclude(s) PROVE Exchanges'
  BY <1>2, <1>3, <1>12 DEF Conclude, runner, journal
<1>13. ASSUME NEW l \in DOMAIN leases, EnqueueCancel(l) \/ Expire(l) \/ Reap(l) PROVE Exchanges'
  BY <1>2, <1>3, <1>13 DEF EnqueueCancel, Expire, Reap, requestRows, runner, journal
<1> QED
  BY <1>4, <1>5, <1>6, <1>7, <1>8, <1>9, <1>10, <1>11, <1>12, <1>13 DEF Abort, Restart

-----------------------------------------------------------------------------
(* Leases, slot records and commands.                                      *)

\* A lease is granted to a request that has none and to a slot without an
\* active attempt, so a request has one lease and a slot one active attempt.
LEMMA GrantKeeps ==
  ASSUME Rows, LeaseRows, NEW i \in Callers, NEW st, NEW r, Granted(i, st, r)
  PROVE  LeaseRows'
<1> DEFINE s == i[1]
           n == Len(leases) + 1
           request == [slot |-> s, op |-> calls[i].op]
<1>1. /\ s \in Slots /\ Len(leases) \in Nat /\ calls[i].op \in Nat
      /\ leases \in Seq(Requests)
      /\ head \in [Slots -> 0 .. MaxOp] /\ claim \in [Slots -> {None} \cup (0 .. Len(leases))]
      /\ live \subseteq 1 .. Len(leases)
  BY CallFacts DEF Rows, StoreRows
<1>2. /\ calls[i].op = head[s] /\ claim[s] = None /\ leases' = Append(leases, request)
      /\ live' = live \cup {n} /\ claim' = [claim EXCEPT ![s] = n] /\ head' = head
      /\ SlotUnoccupied(s)
  BY DEF Granted
<1>3. /\ Len(leases') = n /\ leases'[n] = request
      /\ \A l \in 1 .. Len(leases) : leases'[l] = leases[l]
      /\ \A l \in 1 .. Len(leases') : l = n \/ l \in 1 .. Len(leases)
      /\ n \notin 1 .. Len(leases)
  BY <1>1, <1>2
<1>4. /\ \A l \in 1 .. Len(leases) : leases[l] # request
      /\ \A l \in 1 .. Len(leases) : leases[l].op <= head[leases[l].slot]
  BY <1>1, <1>2 DEF LeaseRows
<1>5. request.slot = s /\ request.op = calls[i].op
  OBVIOUS
<1> HIDE DEF request
<1>6. \A l \in 1 .. Len(leases') : leases'[l].op <= head'[leases'[l].slot]
  BY <1>1, <1>2, <1>3, <1>4, <1>5
<1>7. ASSUME NEW t \in Slots, claim'[t] = None, NEW l \in 1 .. Len(leases')
      PROVE  leases'[l] # [slot |-> t, op |-> head'[t]]
  <2>1. t # s /\ claim[t] = None
    BY <1>1, <1>2, <1>7 DEF None
  <2>2. CASE l \in 1 .. Len(leases)
    BY <1>2, <1>3, <2>1, <2>2 DEF LeaseRows
  <2>3. CASE l = n
    BY <1>3, <1>5, <2>1, <2>3
  <2> QED
    BY <1>3, <2>2, <2>3
<1>8. ASSUME NEW t \in Slots, claim'[t] > 0
      PROVE  leases'[claim'[t]] = [slot |-> t, op |-> head'[t]]
  <2>1. CASE t = s
    BY <1>1, <1>2, <1>3, <2>1 DEF request
  <2>2. CASE t # s
    <3>1. claim'[t] = claim[t] /\ claim[t] \in 1 .. Len(leases)
      BY <1>1, <1>2, <1>8, <2>2 DEF None
    <3> QED
      BY <1>2, <1>3, <3>1 DEF LeaseRows
  <2> QED
    BY <2>1, <2>2
<1>9. ASSUME NEW l \in 1 .. Len(leases'), NEW m \in 1 .. Len(leases'), leases'[l] = leases'[m]
      PROVE  l = m
  <2>1. CASE l \in 1 .. Len(leases) /\ m \in 1 .. Len(leases)
    BY <1>3, <1>9, <2>1 DEF LeaseRows
  <2>2. CASE l = n \/ m = n
    BY <1>3, <1>4, <1>9, <2>2
  <2> QED
    BY <1>3, <2>1, <2>2
<1>10. ASSUME NEW l \in live', NEW m \in live', leases'[l].slot = leases'[m].slot PROVE l = m
  <2>1. \A k \in live : k \in 1 .. Len(leases) /\ leases'[k] = leases[k] /\ leases[k].slot # s
    BY <1>1, <1>2, <1>3 DEF SlotUnoccupied
  <2>2. CASE l \in live /\ m \in live
    BY <1>10, <2>1, <2>2 DEF LeaseRows
  <2>3. CASE l = n \/ m = n
    BY <1>2, <1>3, <1>5, <1>10, <2>1, <2>3
  <2> QED
    BY <1>2, <2>2, <2>3
<1> QED
  BY <1>6, <1>7, <1>8, <1>9, <1>10 DEF LeaseRows

\* A head that moves has no lease yet.
LEMMA SucceedKeeps ==
  ASSUME Rows, LeaseRows, NEW i \in Callers, NEW st, NEW r, Succeeds(i, st, r)
  PROVE  LeaseRows'
<1> DEFINE s == i[1]
<1>1. /\ s \in Slots /\ Len(leases) \in Nat
      /\ leases \in Seq(Requests)
      /\ head \in [Slots -> 0 .. MaxOp] /\ claim \in [Slots -> {None} \cup (0 .. Len(leases))]
  BY CallFacts DEF Rows, StoreRows
<1>2. /\ head' = [head EXCEPT ![s] = head[s] + 1] /\ claim' = [claim EXCEPT ![s] = None]
      /\ UNCHANGED <<leases, live>>
  BY DEF Succeeds
<1>3. /\ \A l \in 1 .. Len(leases) : leases[l] \in Requests
      /\ \A l \in 1 .. Len(leases) : leases[l].op <= head[leases[l].slot]
  <2>1. \A l \in 1 .. Len(leases) : leases[l].op <= head[leases[l].slot]
    BY DEF LeaseRows
  <2>2. leases \in Seq(Requests) /\ Len(leases) \in Nat
    BY <1>1
  <2>3. \A l \in 1 .. Len(leases) : leases[l] \in Requests
    BY <2>2
  <2> QED
    BY <2>1, <2>3
<1>4. head'[s] = head[s] + 1 /\ \A t \in Slots : t # s => head'[t] = head[t] /\ claim'[t] = claim[t]
  BY <1>1, <1>2
<1>5. \A t \in Slots : head[t] \in Nat /\ head[t] <= head'[t]
  BY <1>1, <1>4
<1>6. ASSUME NEW l \in 1 .. Len(leases) PROVE leases[l].op <= head'[leases[l].slot]
  <2>1. leases[l].slot \in Slots /\ leases[l].op \in Nat /\ leases[l].op <= head[leases[l].slot]
    BY <1>3 DEF Requests
  <2>2. head[leases[l].slot] \in Nat /\ head'[leases[l].slot] \in Nat
        /\ head[leases[l].slot] <= head'[leases[l].slot]
    BY <1>4, <1>5, <2>1
  <2> QED
    BY <2>1, <2>2
<1>7. \A l \in 1 .. Len(leases) : leases[l] # [slot |-> s, op |-> head'[s]]
  <2> SUFFICES ASSUME NEW l \in 1 .. Len(leases), leases[l] = [slot |-> s, op |-> head'[s]] PROVE FALSE
    OBVIOUS
  <2>1. leases[l].slot = s /\ leases[l].op = head[s] + 1
    BY <1>4
  <2>2. leases[l].op <= head[leases[l].slot] /\ head[s] \in Nat
    BY <1>1, <1>3, <1>5
  <2> QED
    BY <2>1, <2>2
<1>8. claim'[s] = None
  BY <1>1, <1>2
<1> QED
  BY <1>2, <1>4, <1>6, <1>7, <1>8 DEF LeaseRows, None

\* Leases, slot records and commands at the moves of a handler.
LEMMA MoveGrants ==
  ASSUME Rows, Grants, NEW i \in Callers, NEW st, NEW r, Edge(i, st, r), UNCHANGED <<runner, ended>>
  PROVE  Grants'
<1>1. /\ StoreRows /\ RunnerRows /\ CallRow(i) /\ i[1] \in Slots /\ LeaseRows /\ SlotRows /\ OutboxRows
      /\ Len(outbox) \in Nat /\ Len(leases) \in Nat
  BY CallFacts DEF Rows, Grants
<1>2. Growing
  BY MoveGrows
<1>3. LeaseRows'
  <2>1. CASE UNCHANGED <<head, claim, leases, live>>
    BY <1>1, <2>1 DEF LeaseRows
  <2>2. CASE Succeeds(i, st, r)
    BY <1>1, <2>2, SucceedKeeps
  <2>3. CASE Declines(i, st, r)
    <3>1. claim' = [claim EXCEPT ![i[1]] = 0] /\ UNCHANGED <<head, leases, live>>
      BY <2>3 DEF Declines
    <3>2. claim'[i[1]] = 0 /\ \A t \in Slots : t # i[1] => claim'[t] = claim[t]
      BY <1>1, <3>1 DEF StoreRows
    <3> QED
      BY <1>1, <3>1, <3>2 DEF LeaseRows, None
  <2>4. CASE Granted(i, st, r)
    BY <1>1, <2>4, GrantKeeps
  <2> QED
    BY <2>1, <2>2, <2>3, <2>4
       DEF Edge, Falls, Proceeds, Syncs, Refuses, Returns, Looks, Publishes, Stores, Quiet, requestRows
<1>4. SlotRows'
  <2>1. jslot' = jslot
    BY DEF runner, journal
  <2>2. \A s \in Slots : jslot[s] > 0 => jslot[s] \in 1 .. Len(leases)
    BY <1>1 DEF RunnerRows
  <2> QED
    BY <1>1, <1>2, <2>1, <2>2 DEF SlotRows, Growing
<1>5. OutboxRows'
  <2>1. CASE Len(outbox') = Len(outbox)
    BY <1>1, <1>2, <2>1 DEF OutboxRows, Growing
  <2>2. CASE Publishes(i, st, r)
    <3> DEFINE n == Len(outbox) + 1
               s == i[1]
    <3>1. /\ calls[i].op = head[s] /\ claim[s] = calls[i].resp /\ calls[i].stage = "publish"
          /\ Publications([slot |-> s, op |-> calls[i].op]) = {}
          /\ outbox' = Append(outbox, [kind |-> "offer", lease |-> claim[s], revoked |-> FALSE])
      BY <2>2 DEF Publishes
    <3>2. claim[s] \in 1 .. Len(leases)
      BY <1>1, <3>1 DEF CallRow, LeaseStages
    <3>3. leases[claim[s]] = [slot |-> s, op |-> calls[i].op]
      BY <1>1, <3>1, <3>2 DEF LeaseRows
    <3>4. \A q \in 1 .. Len(outbox) : ~(outbox[q].kind = "offer" /\ outbox[q].lease = claim[s])
      BY <1>1, <3>1, <3>3 DEF Publications, Offer, RequestOf, StoreRows
    <3>5. /\ Len(outbox') = n /\ outbox'[n].kind = "offer" /\ outbox'[n].lease = claim[s]
          /\ \A q \in 1 .. Len(outbox) : outbox'[q] = outbox[q]
      BY <1>1, <3>1 DEF StoreRows
    <3>6. \A q \in 1 .. n : q = n \/ q \in 1 .. Len(outbox)
      BY <1>1
    <3> QED
      BY <1>1, <3>4, <3>5, <3>6 DEF OutboxRows
  <2> QED
    BY <2>1, <2>2
       DEF Edge, Falls, Proceeds, Syncs, Refuses, Returns, Succeeds, Looks, Declines, Granted, Stores,
           Quiet, SameCommands
<1> QED
  BY <1>3, <1>4, <1>5 DEF Grants

\* Leases, slot records and commands at every other step.
LEMMA OtherGrants ==
  ASSUME Rows, Grants, Growing,
         \/ \E i \in Callers : Deliver(i) \/ RetryLater(i) \/ Discard(i) \/ Timeout(i) \/ Drop(i)
                               \/ Abort(i)
         \/ \E s \in Slots : \/ SendPoll(s) \/ SendBeat(s) \/ SendAck(s) \/ FlushDone(s)
                             \/ TakeNothing(s) \/ TakeCommand(s) \/ Conclude(s) \/ Release(s)
         \/ \E l \in DOMAIN leases : EnqueueCancel(l) \/ Expire(l) \/ Reap(l)
         \/ Restart
  PROVE  Grants'
<1>1. StoreRows /\ RunnerRows /\ LeaseRows /\ SlotRows /\ OutboxRows /\ Len(outbox) \in Nat
  BY DEF Rows, Grants, StoreRows
<1>2. LeaseRows'
  <2>1. UNCHANGED <<head, claim, leases>> /\ live' \subseteq live
    BY DEF Deliver, RetryLater, Discard, Timeout, Drop, Abort, SendPoll, SendBeat, SendAck, FlushDone,
           TakeNothing, TakeCommand, Conclude, Release, EnqueueCancel, Expire, Reap, Restart, Resume,
           store, requestRows
  <2> QED
    BY <1>1, <2>1 DEF LeaseRows
<1>3. SlotRows'
  <2>1. CASE jslot' = jslot /\ UNCHANGED leases
    BY <1>1, <2>1 DEF SlotRows
  <2>2. ASSUME NEW s \in Slots, TakeCommand(s) PROVE SlotRows'
    <3> DEFINE q == reply[s]
    <3>1. UNCHANGED leases /\ jslot \in [Slots -> 0 .. Len(leases)]
      BY <1>1, <2>2 DEF TakeCommand, store, RunnerRows
    <3>2. jslot' = jslot \/ jslot' = [jslot EXCEPT ![RequestOf(q).slot] = outbox[q].lease]
      BY <2>2 DEF TakeCommand, RecordedSlots
    <3>3. leases[outbox[q].lease].slot = RequestOf(q).slot
      BY DEF RequestOf
    <3> QED
      BY <1>1, <3>1, <3>2, <3>3 DEF SlotRows
  <2>3. ASSUME NEW s \in Slots, Release(s) PROVE SlotRows'
    <3>1. UNCHANGED leases /\ jslot' = [jslot EXCEPT ![s] = 0] /\ jslot \in [Slots -> 0 .. Len(leases)]
      BY <1>1, <2>3 DEF Release, store, RunnerRows
    <3> QED
      BY <1>1, <3>1 DEF SlotRows
  <2> QED
    BY <2>1, <2>2, <2>3
       DEF Deliver, RetryLater, Discard, Timeout, Drop, Abort, SendPoll, SendBeat, SendAck, FlushDone,
           TakeNothing, Conclude, EnqueueCancel, Expire, Reap, Restart, Resume, store, requestRows,
           runner, journal
<1>4. OutboxRows'
  <2>1. CASE UNCHANGED outbox
    BY <1>1, <2>1 DEF OutboxRows
  <2>2. ASSUME NEW l \in DOMAIN leases, EnqueueCancel(l) PROVE OutboxRows'
    <3> DEFINE n == Len(outbox) + 1
    <3>1. /\ outbox' = Append(outbox, [kind |-> "cancel", lease |-> l, revoked |-> FALSE])
          /\ \A q \in DOMAIN outbox : outbox[q].kind = "cancel" => outbox[q].lease # l
      BY <2>2 DEF EnqueueCancel
    <3>2. outbox \in Seq(Commands) /\ DOMAIN outbox = 1 .. Len(outbox)
      BY <1>1 DEF StoreRows
    <3>3. /\ Len(outbox') = n /\ outbox'[n].kind = "cancel" /\ outbox'[n].lease = l
          /\ \A q \in 1 .. Len(outbox) : outbox'[q] = outbox[q]
      BY <3>1, <3>2
    <3>4. \A q \in 1 .. n : q = n \/ q \in 1 .. Len(outbox)
      BY <1>1
    <3> QED
      BY <1>1, <3>1, <3>2, <3>3, <3>4 DEF OutboxRows
  <2> QED
    BY <2>1, <2>2
       DEF Deliver, RetryLater, Discard, Timeout, Drop, Abort, SendPoll, SendBeat, SendAck, FlushDone,
           TakeNothing, TakeCommand, Conclude, Release, Expire, Reap, Restart, Resume, store, requestRows
<1> QED
  BY <1>2, <1>3, <1>4 DEF Grants

-----------------------------------------------------------------------------
(* What the executions come to.                                            *)

\* An execution that does not move keeps what it carries, answers and was
\* refused for, while claims are only rejected when their lease has gone, heads
\* move past it, and receipts stay with their head.
LEMMA OutcomeKept ==
  ASSUME Rows, NEW j \in Callers, Carries(j), Answers(j), Refusal(j), Fits(j), Growing,
         head'[j[1]] \in Nat,
         \/ head'[j[1]] = head[j[1]] /\ (receipt[j[1]] # None => receipt'[j[1]] = receipt[j[1]])
         \/ head'[j[1]] > head[j[1]],
         \/ head'[j[1]] > head[j[1]]
         \/ claim'[j[1]] = claim[j[1]]
         \/ claim[j[1]] = None
         \/ claim[j[1]] > 0 /\ claim'[j[1]] = 0 /\ ~Current(claim[j[1]]),
         overdue \subseteq overdue',
         live' \subseteq live \cup {Len(leases) + 1},
         calls[j].stage \in LeaseStages /\ calls'[j].heard /\ calls[j].resp \in live =>
            calls[j].resp \in live' \cup overdue',
         calls'[j].heard => calls[j].heard,
         \/ calls'[j] = Idle
         \/ /\ calls'[j].kind = calls[j].kind /\ calls'[j].op = calls[j].op
            /\ calls'[j].stage = calls[j].stage /\ calls'[j].resp = calls[j].resp
  PROVE  Carries(j)' /\ Answers(j)' /\ Refusal(j)'
<1> DEFINE s == j[1]
           c == calls[j]
<1>1. CASE calls'[j] = Idle
  BY <1>1 DEF Carries, Answers, Refusal, Idle, LeaseStages
<1>2. CASE /\ calls'[j].kind = c.kind /\ calls'[j].op = c.op
           /\ calls'[j].stage = c.stage /\ calls'[j].resp = c.resp
  <2>1. /\ s \in Slots /\ CallRow(j) /\ c.op \in Nat /\ head[s] \in Nat
        /\ Len(leases) \in Nat /\ Len(outbox) \in Nat
        /\ receipt[s] \in {None} \cup (0 .. Len(outbox))
        /\ claim[s] \in {None} \cup (0 .. Len(leases))
    BY CallFacts
  <2>2. c.stage \in LeaseStages \cup {"resolve"} \/ (c.kind = "poll" /\ c.stage = "reply") =>
          c.op <= head[s]
    BY <2>1 DEF Fits, CallRow, LeaseStages, PollStages
  <2>3. Carries(j)'
    <3> SUFFICES ASSUME c.stage \in LeaseStages PROVE Carries(j)'
      BY <1>2 DEF Carries
    <3>1. c.resp \in 1 .. Len(leases) /\ leases[c.resp] = [slot |-> s, op |-> c.op]
      BY <2>1 DEF Carries, CallRow
    <3>2. leases'[c.resp] = [slot |-> s, op |-> c.op]
      BY <3>1 DEF Growing
    <3>3. calls'[j].heard => c.resp \in live' \cup overdue'
      BY DEF Carries
    <3>4. ~Current(c.resp) => ~(c.resp \in live' /\ c.resp \notin overdue')
      <4>1. c.resp # Len(leases) + 1
        BY <2>1, <3>1
      <4>2. c.resp \notin live => c.resp \notin live'
        BY <4>1
      <4> QED
        BY <4>2 DEF Current
    <3>5. ASSUME c.op = head'[s]
          PROVE  claim'[s] = c.resp \/ (claim'[s] = 0 /\ ~(c.resp \in live' /\ c.resp \notin overdue'))
      <4>1. head'[s] = head[s]
        BY <1>2, <2>1, <2>2, <3>5
      <4>2. claim[s] = c.resp \/ (claim[s] = 0 /\ ~Current(c.resp))
        BY <3>5, <4>1 DEF Carries
      <4>3. claim[s] # None
        BY <3>1, <4>2 DEF None
      <4>4. claim'[s] = claim[s] \/ (claim[s] > 0 /\ claim'[s] = 0 /\ ~Current(claim[s]))
        BY <2>1, <4>1, <4>3
      <4> QED
        BY <3>4, <4>2, <4>4
    <3> QED
      BY <1>2, <3>2, <3>3, <3>5 DEF Carries, Current
  <2>4. Answers(j)'
    <3> SUFFICES ASSUME c.kind = "poll", c.stage \in {"resolve", "reply"}, c.op = head'[s]
                 PROVE  Answers(j)'
      BY <1>2 DEF Answers
    <3>1. head'[s] = head[s]
      BY <2>1, <2>2
    <3>2. /\ receipt[s] # None
          /\ \/ c.resp = receipt[s]
             \/ c.stage = "reply" /\ c.resp = 0 /\ Offer(receipt[s]) /\ outbox[receipt[s]].revoked
      BY <3>1 DEF Answers
    <3>3. receipt'[s] = receipt[s] /\ receipt[s] \in 0 .. Len(outbox)
      BY <2>1, <3>1, <3>2
    <3>4. Offer(receipt[s]) => receipt[s] \in 1 .. Len(outbox)
      BY <2>1, <3>3 DEF Offer
    <3>5. Offer(receipt[s]) /\ outbox[receipt[s]].revoked =>
            /\ receipt'[s] > 0 /\ outbox'[receipt'[s]].kind = "offer" /\ outbox'[receipt'[s]].revoked
      BY <3>3, <3>4 DEF Offer, Growing
    <3> QED
      BY <1>2, <3>2, <3>3, <3>5 DEF Answers, Offer
  <2>5. Refusal(j)'
    <3> SUFFICES ASSUME c.heard, c.stage = "conflict" PROVE Refusal(j)'
      BY <1>2 DEF Refusal
    <3>1. PICK l \in overdue : leases[l] = [slot |-> s, op |-> c.op]
      BY DEF Refusal
    <3>2. l \in 1 .. Len(leases)
      BY DEF Rows, StoreRows
    <3>3. leases'[l] = leases[l] /\ l \in overdue'
      BY <3>2 DEF Growing
    <3> QED
      BY <1>2, <3>1, <3>3 DEF Refusal
  <2> QED
    BY <2>3, <2>4, <2>5
<1> QED
  BY <1>1, <1>2

\* What a move does to the rows of its request, for the executions that do not move.
LEMMA MoveRequests ==
  ASSUME Rows, NEW i \in Callers, NEW st, NEW r, Edge(i, st, r), NEW s \in Slots
  PROVE  /\ \/ head'[s] = head[s] /\ (receipt[s] # None => receipt'[s] = receipt[s])
            \/ head'[s] > head[s]
         /\ \/ head'[s] > head[s]
            \/ claim'[s] = claim[s]
            \/ claim[s] = None
            \/ claim[s] > 0 /\ claim'[s] = 0 /\ ~Current(claim[s])
         /\ live \subseteq live' /\ live' \subseteq live \cup {Len(leases) + 1}
<1>1. i[1] \in Slots /\ head \in [Slots -> 0 .. MaxOp] /\ DOMAIN claim = Slots /\ DOMAIN receipt = Slots
      /\ claim[s] \in Int
  BY CallFacts DEF Rows, StoreRows, None
<1>2. CASE UNCHANGED <<head, claim, receipt, live>>
  BY <1>1, <1>2
<1>3. CASE Succeeds(i, st, r)
  <2>1. calls[i].op = head[i[1]] + 1 /\ head' = [head EXCEPT ![i[1]] = calls[i].op]
        /\ claim' = [claim EXCEPT ![i[1]] = None] /\ receipt' = [receipt EXCEPT ![i[1]] = None]
        /\ live' = live
    BY <1>3 DEF Succeeds
  <2>2. CASE s = i[1]
    BY <1>1, <2>1, <2>2
  <2>3. CASE s # i[1]
    BY <1>1, <2>1, <2>3
  <2> QED
    BY <2>2, <2>3
<1>4. CASE Declines(i, st, r)
  <2>1. claim' = [claim EXCEPT ![i[1]] = 0] /\ UNCHANGED <<head, receipt, live>>
        /\ (claim[i[1]] = None \/ (claim[i[1]] > 0 /\ ~Current(claim[i[1]])))
    BY <1>4 DEF Declines
  <2>2. CASE s = i[1]
    BY <1>1, <2>1, <2>2
  <2>3. CASE s # i[1]
    BY <1>1, <2>1, <2>3
  <2> QED
    BY <2>2, <2>3
<1>5. CASE Granted(i, st, r)
  <2>1. claim' = [claim EXCEPT ![i[1]] = Len(leases) + 1] /\ UNCHANGED <<head, receipt>>
        /\ claim[i[1]] = None /\ live' = live \cup {Len(leases) + 1}
    BY <1>5 DEF Granted
  <2> QED
    BY <1>1, <2>1
<1>6. CASE Stores(i, st, r)
  <2>1. receipt' = [receipt EXCEPT ![i[1]] = calls[i].resp] /\ UNCHANGED <<head, claim, live>>
        /\ receipt[i[1]] = None
    BY <1>6 DEF Stores
  <2> QED
    BY <1>1, <2>1
<1> QED
  BY <1>2, <1>3, <1>4, <1>5, <1>6
     DEF Edge, Falls, Proceeds, Syncs, Refuses, Returns, Looks, Publishes, Quiet, requestRows

\* An execution that comes to carry a lease carries the one of its request.
LEMMA MoveCarries ==
  ASSUME Rows, LeaseRows, NEW i \in Callers, NEW st, NEW r, Goto(i, st, r), Edge(i, st, r), Carries(i),
         UNCHANGED ended
  PROVE  Carries(i)'
<1> DEFINE s == i[1]
<1>1. /\ CallRows /\ CallRow(i) /\ s \in Slots /\ claim[s] \in {None} \cup (0 .. Len(leases))
      /\ Len(leases) \in Nat
  BY CallFacts DEF Rows
<1>2. /\ calls'[i].stage = st /\ calls'[i].resp = r /\ calls'[i].op = calls[i].op
      /\ calls'[i].heard = calls[i].heard
  BY <1>1, GotoFacts
<1>3. CASE st \notin LeaseStages
  BY <1>2, <1>3 DEF Carries
<1>4. CASE Granted(i, st, r)
  <2>1. /\ leases' = Append(leases, [slot |-> s, op |-> calls[i].op]) /\ r = Len(leases) + 1
        /\ claim' = [claim EXCEPT ![s] = r] /\ live' = live \cup {r}
    BY <1>4 DEF Granted
  <2>2. leases'[r] = [slot |-> s, op |-> calls[i].op]
    BY <1>1, <2>1 DEF Rows, StoreRows
  <2>3. claim'[s] = r
    BY <1>1, <2>1 DEF Rows, StoreRows
  <2> QED
    BY <1>2, <2>1, <2>2, <2>3 DEF Carries
<1>5. CASE Looks(i, st, r)
  <2>1. UNCHANGED <<head, claim, leases, live, overdue>> /\ calls[i].op = head[s]
    BY <1>5 DEF Looks, Quiet, requestRows, ended
  <2>2. CASE st = "inspect" /\ claim[s] > 0 /\ Current(claim[s]) /\ r = claim[s]
    <3>1. leases[r] = [slot |-> s, op |-> calls[i].op] /\ r \in live
      BY <1>1, <2>1, <2>2 DEF LeaseRows, Current
    <3> QED
      BY <1>2, <2>1, <2>2, <3>1 DEF Carries
  <2>3. CASE calls[i].stage = "inspect" /\ r = calls[i].resp
    BY <1>2, <2>1, <2>3 DEF Carries, LeaseStages, Current
  <2> QED
    BY <1>5, <2>2, <2>3 DEF Looks
<1>6. st \in LeaseStages => Granted(i, st, r) \/ Looks(i, st, r)
  BY DEF Edge, Falls, Proceeds, Syncs, Refuses, Returns, Given, Succeeds, Declines, Publishes, Stores,
         LeaseStages
<1> QED
  BY <1>3, <1>4, <1>5, <1>6

\* An answer comes from the receipt, or becomes the receipt.
LEMMA MoveAnswers ==
  ASSUME Rows, NEW i \in Callers, NEW st, NEW r, Goto(i, st, r), Edge(i, st, r), Answers(i)
  PROVE  Answers(i)'
<1> DEFINE s == i[1]
<1>1. /\ CallRows /\ CallRow(i) /\ s \in Slots /\ receipt[s] \in {None} \cup (0 .. Len(outbox))
      /\ Len(outbox) \in Nat /\ DOMAIN receipt = Slots
  BY CallFacts DEF Rows, StoreRows
<1>2. /\ calls'[i].stage = st /\ calls'[i].resp = r /\ calls'[i].op = calls[i].op
      /\ calls'[i].kind = calls[i].kind
  BY <1>1, GotoFacts
<1>3. CASE st \notin {"resolve", "reply"} \/ calls[i].kind # "poll"
  BY <1>2, <1>3 DEF Answers
<1>4. ASSUME NEW q \in 0 .. Len(outbox), Given(st, r, q), receipt'[s] = q
      PROVE  Answers(i)'
  <2>1. Growing
    BY MoveGrows
  <2>2. ASSUME Offer(q) PROVE q > 0 /\ outbox'[q].kind = "offer"
    BY <1>1, <2>1, <2>2 DEF Offer, Growing
  <2>3. receipt'[s] # None
    BY <1>1, <1>4 DEF None
  <2> QED
    BY <1>2, <1>4, <2>2, <2>3 DEF Answers, Given, Offer
<1>5. CASE Returns(i, st, r)
  <2>1. UNCHANGED <<head, receipt>>
    BY <1>5 DEF Returns, Quiet, requestRows
  <2>2. CASE receipt[s] # None /\ Given(st, r, receipt[s])
    BY <1>1, <1>4, <2>1, <2>2
  <2>3. CASE calls[i].stage = "resolve" /\ Given(st, r, calls[i].resp)
    <3>1. calls[i].kind = "poll"
      BY <1>1, <2>3 DEF CallRow, PollStages
    <3>2. CASE calls[i].op = head[s]
      <4>1. receipt[s] # None /\ calls[i].resp = receipt[s]
        BY <2>3, <3>1, <3>2 DEF Answers
      <4> QED
        BY <1>1, <1>4, <2>1, <2>3, <4>1
    <3>3. CASE calls[i].op # head[s]
      BY <1>2, <2>1, <3>3 DEF Answers
    <3> QED
      BY <3>2, <3>3
  <2> QED
    BY <1>5, <2>2, <2>3 DEF Returns
<1>6. CASE Stores(i, st, r)
  <2>1. calls[i].resp \in 0 .. Len(outbox)
    BY <1>1, <1>6 DEF Stores, CallRow, CommandStages
  <2>2. receipt'[s] = calls[i].resp /\ Given(st, r, calls[i].resp)
    BY <1>1, <1>6 DEF Stores
  <2> QED
    BY <1>4, <2>1, <2>2
<1>7. st \in {"resolve", "reply"} /\ calls[i].kind = "poll" => Returns(i, st, r) \/ Stores(i, st, r)
  BY <1>1 DEF Edge, Falls, Proceeds, Syncs, Refuses, Succeeds, Looks, Declines, Granted, Publishes, CallRow
<1> QED
  BY <1>3, <1>5, <1>6, <1>7

\* A request that the runner waits for is at its checkpoint, so it is refused
\* only for a lease that is no longer its claim.
LEMMA MoveRefusal ==
  ASSUME Rows, Exchanges, NEW i \in Callers, NEW st, NEW r, Goto(i, st, r), Edge(i, st, r), Carries(i),
         UNCHANGED ended
  PROVE  Refusal(i)'
<1> DEFINE s == i[1]
<1>1. /\ CallRows /\ CallRow(i) /\ s \in Slots /\ calls[i].op \in Nat /\ head[s] \in Nat
  BY CallFacts DEF Rows
<1>2. calls'[i].stage = st /\ calls'[i].op = calls[i].op /\ calls'[i].heard = calls[i].heard
  BY <1>1, GotoFacts
<1>3. CASE st # "conflict" \/ ~calls[i].heard
  BY <1>2, <1>3 DEF Refusal
<1>4. CASE st = "conflict" /\ calls[i].heard
  <2>1. Refuses(i, st, r)
    BY <1>4 DEF Edge, Falls, Proceeds, Syncs, Returns, Given, Succeeds, Looks, Declines, Granted,
                Publishes, Stores
  <2>2. calls[i].kind = "poll"
    BY <1>1, <2>1 DEF Refuses, CallRow, PollStages, LeaseStages
  <2>3. calls[i].op = jop[s] /\ jop[s] \in {head[s], head[s] + 1}
    BY <1>1, <1>4, <2>2 DEF Exchanges, Waits, Checkpoint
  <2>4. calls[i].stage \notin {"begin", "unavailable"} => calls[i].op <= head[s]
    BY <2>2 DEF Exchanges, Fits
  <2>5. calls[i].stage \in LeaseStages /\ ~HeadMoved(i) /\ claim[s] # calls[i].resp
    BY <1>1, <2>1, <2>3, <2>4 DEF Refuses, HeadMoved, PollStages
  <2>6. /\ leases[calls[i].resp] = [slot |-> s, op |-> calls[i].op]
        /\ calls[i].resp \in overdue
    BY <1>4, <2>5 DEF Carries, HeadMoved, Current
  <2>7. UNCHANGED <<leases, overdue>>
    BY <2>1 DEF Refuses, Quiet, requestRows, ended
  <2> QED
    BY <1>2, <2>6, <2>7 DEF Refusal
<1> QED
  BY <1>3, <1>4

\* What the executions come to, at the moves of a handler.
LEMMA MoveOutcomes ==
  ASSUME Rows, Exchanges, LeaseRows, Outcomes, NEW i \in Callers, NEW st, NEW r,
         Goto(i, st, r), Edge(i, st, r), UNCHANGED <<runner, ended>>
  PROVE  Outcomes'
<1>1. CallRows /\ Growing
  BY MoveGrows DEF Rows
<1>2. \A j \in Callers : j # i => calls'[j] = calls[j]
  BY <1>1, GotoFacts
<1>3. ASSUME NEW j \in Callers, j # i PROVE Carries(j)' /\ Answers(j)' /\ Refusal(j)'
  <2>1. Carries(j) /\ Answers(j) /\ Refusal(j) /\ Fits(j) /\ j[1] \in Slots
    BY CallFacts DEF Outcomes, Exchanges
  <2>2. calls'[j] = calls[j] /\ overdue' = overdue
    BY <1>2, <1>3 DEF ended
  <2>3. head'[j[1]] \in Nat
    BY <2>1, HeadGrows
  <2>4. /\ \/ head'[j[1]] = head[j[1]] /\ (receipt[j[1]] # None => receipt'[j[1]] = receipt[j[1]])
           \/ head'[j[1]] > head[j[1]]
        /\ \/ head'[j[1]] > head[j[1]]
           \/ claim'[j[1]] = claim[j[1]]
           \/ claim[j[1]] = None
           \/ claim[j[1]] > 0 /\ claim'[j[1]] = 0 /\ ~Current(claim[j[1]])
        /\ live \subseteq live' /\ live' \subseteq live \cup {Len(leases) + 1}
    BY <2>1, MoveRequests
  <2> QED
    BY <1>1, <2>1, <2>2, <2>3, <2>4, OutcomeKept
<1>4. Carries(i)' /\ Answers(i)' /\ Refusal(i)'
  BY MoveCarries, MoveAnswers, MoveRefusal DEF Outcomes
<1> QED
  BY <1>3, <1>4 DEF Outcomes

\* What the executions come to, when requests stay as they are and a lease
\* that an execution still waited for carries only leaves with its expiry.
LEMMA OutcomesStay ==
  ASSUME Rows, Exchanges, Outcomes, Growing, UNCHANGED <<head, claim, receipt>>,
         overdue \subseteq overdue', live' \subseteq live, NEW j \in Callers, Ending(j),
         calls[j].stage \in LeaseStages /\ calls'[j].heard /\ calls[j].resp \in live =>
            calls[j].resp \in live' \cup overdue'
  PROVE  Carries(j)' /\ Answers(j)' /\ Refusal(j)'
<1>1. Carries(j) /\ Answers(j) /\ Refusal(j) /\ Fits(j) /\ head'[j[1]] \in Nat
  BY CallFacts DEF Outcomes, Exchanges
<1>2. /\ calls'[j].heard => calls[j].heard
      /\ \/ calls'[j] = Idle
         \/ /\ calls'[j].kind = calls[j].kind /\ calls'[j].op = calls[j].op
            /\ calls'[j].stage = calls[j].stage /\ calls'[j].resp = calls[j].resp
  BY EndingFacts DEF Rows
<1>3. /\ head'[j[1]] = head[j[1]] /\ receipt'[j[1]] = receipt[j[1]] /\ claim'[j[1]] = claim[j[1]]
      /\ live' \subseteq live \cup {Len(leases) + 1}
  OBVIOUS
<1> QED
  BY <1>1, <1>2, <1>3, OutcomeKept

\* A message just sent carries, answers and was refused nothing.
LEMMA SendOutcomes ==
  ASSUME Rows, Exchanges, Outcomes, UNCHANGED store, NEW s \in Slots, NEW kind, NEW op, NEW stage,
         NEW resp, Send(s, kind, op, stage, resp), stage \in {"begin", "preSync", "ack"}
  PROVE  Outcomes'
<1>1. CallRows /\ Growing /\ UNCHANGED <<head, claim, receipt, live, overdue>>
  BY StillGrowing DEF Rows, store, ended
<1>2. PICK i \in Callers :
        calls' = [calls EXCEPT ![i] =
                    [kind |-> kind, op |-> op, stage |-> stage, resp |-> resp, heard |-> TRUE]]
  BY <1>1, SendFacts
<1>3. calls'[i].stage = stage /\ \A j \in Callers : j # i => calls'[j] = calls[j]
  BY <1>1, <1>2 DEF CallRows
<1>4. ASSUME NEW j \in Callers, j # i PROVE Carries(j)' /\ Answers(j)' /\ Refusal(j)'
  BY <1>1, <1>3, <1>4, OutcomesStay DEF Ending
<1>5. Carries(i)' /\ Answers(i)' /\ Refusal(i)'
  BY <1>3 DEF Carries, Answers, Refusal, LeaseStages
<1> QED
  BY <1>4, <1>5 DEF Outcomes

\* What the executions come to, at every other step.
LEMMA OtherOutcomes ==
  ASSUME Rows, Exchanges, SlotRows, Outcomes, Growing,
         \/ \E i \in Callers : Deliver(i) \/ RetryLater(i) \/ Discard(i) \/ Timeout(i) \/ Drop(i)
                               \/ Abort(i)
         \/ \E s \in Slots : \/ SendPoll(s) \/ SendBeat(s) \/ SendAck(s) \/ FlushDone(s)
                             \/ TakeNothing(s) \/ TakeCommand(s) \/ Conclude(s) \/ Release(s)
         \/ \E l \in DOMAIN leases : EnqueueCancel(l) \/ Expire(l) \/ Reap(l)
         \/ Restart
  PROVE  Outcomes'
<1>1. CallRows /\ DOMAIN calls = Callers
  BY DEF Rows, CallRows
<1>2. ASSUME UNCHANGED <<head, claim, receipt, live, overdue>>, \A j \in Callers : Ending(j)
      PROVE  Outcomes'
  BY <1>2, OutcomesStay DEF Outcomes
<1>3. ASSUME NEW i \in Callers, Deliver(i) \/ RetryLater(i) \/ Discard(i) \/ Timeout(i) \/ Drop(i)
      PROVE  Outcomes'
  <2>1. \A j \in Callers : Ending(j)
    BY <1>1, <1>3, GoneEnding DEF Deliver, RetryLater, Discard, Timeout, Drop
  <2>2. UNCHANGED <<head, claim, receipt, live, overdue>>
    BY <1>3 DEF Deliver, RetryLater, Discard, Timeout, Drop, store, ended
  <2> QED
    BY <1>2, <2>1, <2>2
<1>4. ASSUME Resume PROVE Outcomes'
  <2>1. \A j \in Callers : Ending(j)
    BY <1>4 DEF Resume, Ending
  <2>2. UNCHANGED <<head, claim, receipt, live, overdue>>
    BY <1>4 DEF Resume, ended
  <2> QED
    BY <1>2, <2>1, <2>2
<1>5. ASSUME NEW s \in Slots, SendPoll(s) \/ SendBeat(s) \/ SendAck(s) PROVE Outcomes'
  BY <1>5, SendOutcomes DEF SendPoll, SendBeat, SendAck
<1>6. ASSUME NEW s \in Slots, FlushDone(s) \/ TakeNothing(s) \/ TakeCommand(s) \/ Release(s)
      PROVE  Outcomes'
  <2>1. UNCHANGED <<store, calls>>
    BY <1>6 DEF FlushDone, TakeNothing, TakeCommand, Release
  <2> QED
    BY <1>2, <2>1 DEF store, ended, Ending
<1>7. ASSUME NEW s \in Slots, Conclude(s) PROVE Outcomes'
  <2>1. /\ UNCHANGED <<head, claim, receipt, overdue, calls>>
        /\ live' = live \ {jslot[s]} /\ jslot[s] \in live
    BY <1>7 DEF Conclude
  <2>2. leases[jslot[s]].slot = s
    <3>1. jslot[s] \in 1 .. Len(leases)
      BY <2>1 DEF Rows, StoreRows
    <3> QED
      BY <3>1 DEF SlotRows
  <2>3. ASSUME NEW j \in Callers, calls[j].stage \in LeaseStages, calls[j].heard,
               calls[j].resp \in live
        PROVE  calls[j].resp \in live'
    <3>1. j[1] # s
      BY <1>7, <2>3 DEF Conclude, Exchanging
    <3>2. leases[calls[j].resp] = [slot |-> j[1], op |-> calls[j].op]
      BY <2>3 DEF Outcomes, Carries
    <3> QED
      BY <2>1, <2>2, <2>3, <3>1, <3>2
  <2>4. ASSUME NEW j \in Callers PROVE Carries(j)' /\ Answers(j)' /\ Refusal(j)'
    BY <2>1, <2>3, OutcomesStay DEF Ending
  <2> QED
    BY <2>4 DEF Outcomes
<1>8. ASSUME NEW l \in DOMAIN leases, EnqueueCancel(l) \/ Expire(l) \/ Reap(l) PROVE Outcomes'
  <2>1. /\ UNCHANGED <<head, claim, receipt, calls>>
        /\ overdue \subseteq overdue' /\ live' \subseteq live
        /\ \A m \in live : m \in live' \cup overdue'
    BY <1>8 DEF EnqueueCancel, Expire, Reap, requestRows, ended
  <2>2. ASSUME NEW j \in Callers PROVE Carries(j)' /\ Answers(j)' /\ Refusal(j)'
    BY <2>1, OutcomesStay DEF Ending
  <2> QED
    BY <2>2 DEF Outcomes
<1> QED
  BY <1>3, <1>4, <1>5, <1>6, <1>7, <1>8 DEF Abort, Restart

-----------------------------------------------------------------------------
(* What the journal has recorded.                                          *)

\* The lease and the slot of a command stay the same as the rows grow.
LEMMA CommandKept ==
  ASSUME Rows, Growing, NEW q \in 1 .. Len(outbox)
  PROVE  /\ outbox[q].lease \in 1 .. Len(leases)
         /\ outbox'[q].lease = outbox[q].lease
         /\ Offer(q)' <=> Offer(q)
         /\ RequestOf(q)' = RequestOf(q)
         /\ RequestOf(q).slot \in Slots
<1>1. outbox[q] \in Commands
  BY DEF Rows, StoreRows
<1>2. outbox[q].lease \in 1 .. Len(leases)
  BY <1>1 DEF Commands
<1>3. leases[outbox[q].lease] \in Requests
  BY <1>2 DEF Rows, StoreRows
<1>4. outbox'[q].lease = outbox[q].lease /\ outbox'[q].kind = outbox[q].kind
  BY DEF Growing
<1>5. leases'[outbox[q].lease] = leases[outbox[q].lease]
  BY <1>2 DEF Growing
<1>6. Offer(q)' <=> Offer(q)
  BY <1>4 DEF Offer
<1>7. RequestOf(q)' = RequestOf(q)
  BY <1>4, <1>5 DEF RequestOf
<1>8. RequestOf(q).slot \in Slots
  BY <1>3 DEF RequestOf, Requests
<1> QED
  BY <1>2, <1>4, <1>6, <1>7, <1>8

\* Recorded offers stay held while slots lose only what is not active.
LEMMA HeldKept ==
  ASSUME Rows, RecordedIsHeld, Growing, UNCHANGED <<jcursor, ignored>>,
         live' \subseteq live \cup {Len(leases) + 1},
         \A s \in Slots : jslot'[s] = jslot[s] \/ jslot[s] \notin live'
  PROVE  RecordedIsHeld'
<1> SUFFICES ASSUME NEW q \in 1 .. jcursor, Offer(q)', outbox'[q].lease \in live', q \notin ignored
             PROVE  jslot'[RequestOf(q)'.slot] = outbox'[q].lease
  BY DEF RecordedIsHeld
<1>1. q \in 1 .. Len(outbox) /\ Len(leases) \in Nat
  BY DEF Rows, RunnerRows, StoreRows
<1>2. /\ outbox[q].lease \in 1 .. Len(leases)
      /\ outbox'[q].lease = outbox[q].lease
      /\ Offer(q) /\ RequestOf(q)' = RequestOf(q) /\ RequestOf(q).slot \in Slots
  BY <1>1, CommandKept
<1>3. outbox[q].lease # Len(leases) + 1
  BY <1>1, <1>2
<1>4. outbox[q].lease \in live
  BY <1>2, <1>3
<1>5. jslot[RequestOf(q).slot] = outbox[q].lease
  BY <1>2, <1>4 DEF RecordedIsHeld
<1> QED
  BY <1>2, <1>5

\* The next command is recorded, or ignored, and takes nothing from a slot.
LEMMA TakeHolds ==
  ASSUME Rows, RecordedIsHeld, Growing, NEW s \in Slots, TakeCommand(s)
  PROVE  RecordedIsHeld'
<1> DEFINE n == reply[s]
<1>1. /\ n > 0 /\ n <= jcursor + 1
      /\ jslot' = RecordedSlots(n) /\ ignored' = IgnoredOffers(n)
      /\ jcursor' = IF n > jcursor THEN n ELSE jcursor
      /\ UNCHANGED <<outbox, leases, live>>
  BY DEF TakeCommand, store
<1>2. /\ n \in 1 .. Len(outbox) /\ jcursor \in Nat /\ jcursor <= Len(outbox)
      /\ jslot \in [Slots -> 0 .. Len(leases)]
  BY <1>1 DEF Rows, RunnerRows, None
<1>3. CASE n <= jcursor
  <2>1. jslot' = jslot /\ jcursor' = jcursor /\ ignored' = ignored
    BY <1>1, <1>2, <1>3 DEF RecordedSlots, IgnoredOffers
  <2>2. live' \subseteq live \cup {Len(leases) + 1}
    BY <1>1
  <2> QED
    BY <2>1, <2>2, HeldKept
<1>4. CASE n > jcursor
  <2>1. n = jcursor + 1 /\ jcursor' = n
    BY <1>1, <1>2, <1>4
  <2>2. SUFFICES ASSUME NEW q \in 1 .. n, Offer(q), outbox[q].lease \in live
                 PROVE  jslot'[RequestOf(q).slot] = outbox[q].lease \/ q \in ignored'
    BY <1>1, <2>1 DEF RecordedIsHeld, Offer, RequestOf
  <2>3. q \in 1 .. Len(outbox)
    BY <1>2, <2>1
  <2>4. outbox[q].lease \in 1 .. Len(leases) /\ RequestOf(q).slot \in Slots
    BY <2>3, CommandKept
  <2>5. CASE q = n
    <3>1. CASE Taken(q)
      BY <1>1, <1>4, <2>2, <2>5, <3>1 DEF IgnoredOffers
    <3>2. CASE ~Taken(q)
      BY <1>1, <1>2, <1>4, <2>2, <2>4, <2>5, <3>2 DEF RecordedSlots
    <3> QED
      BY <3>1, <3>2
  <2>6. CASE q # n
    <3>1. q \in 1 .. jcursor
      BY <1>2, <2>1, <2>6
    <3>2. jslot[RequestOf(q).slot] = outbox[q].lease \/ q \in ignored
      BY <2>2, <3>1 DEF RecordedIsHeld
    <3>3. q \in ignored => q \in ignored'
      BY <1>1 DEF IgnoredOffers
    <3>4. ASSUME jslot[RequestOf(q).slot] = outbox[q].lease
          PROVE  jslot'[RequestOf(q).slot] = outbox[q].lease
      <4>1. jslot[RequestOf(q).slot] # 0
        BY <2>4, <3>4
      <4>2. CASE jslot' = jslot
        BY <3>4, <4>2
      <4>3. CASE ~Taken(n) /\ jslot' = [jslot EXCEPT ![RequestOf(n).slot] = outbox[n].lease]
        BY <1>2, <3>4, <4>1, <4>3 DEF Taken
      <4> QED
        BY <1>1, <4>2, <4>3 DEF RecordedSlots
    <3> QED
      BY <3>2, <3>3, <3>4
  <2> QED
    BY <2>5, <2>6
<1> QED
  BY <1>2, <1>3, <1>4

\* Recorded offers stay held at the steps that no handler takes.
LEMMA OtherHolds ==
  ASSUME Rows, RecordedIsHeld, Growing,
         \/ \E i \in Callers : Deliver(i) \/ RetryLater(i) \/ Discard(i) \/ Timeout(i) \/ Drop(i)
                               \/ Abort(i)
         \/ \E s \in Slots : \/ SendPoll(s) \/ SendBeat(s) \/ SendAck(s) \/ FlushDone(s)
                             \/ TakeNothing(s) \/ TakeCommand(s) \/ Conclude(s) \/ Release(s)
         \/ \E l \in DOMAIN leases : EnqueueCancel(l) \/ Expire(l) \/ Reap(l)
         \/ Restart
  PROVE  RecordedIsHeld'
<1>1. ASSUME UNCHANGED <<jcursor, jslot, ignored>>, live' \subseteq live PROVE RecordedIsHeld'
  BY <1>1, HeldKept
<1>2. ASSUME NEW i \in Callers, Deliver(i) \/ RetryLater(i) \/ Discard(i) \/ Timeout(i) \/ Drop(i)
      PROVE  RecordedIsHeld'
  BY <1>1, <1>2 DEF Deliver, RetryLater, Discard, Timeout, Drop, store, runner, journal
<1>3. ASSUME Resume PROVE RecordedIsHeld'
  BY <1>1, <1>3 DEF Resume, journal
<1>4. ASSUME NEW s \in Slots, SendPoll(s) \/ SendBeat(s) \/ SendAck(s) \/ FlushDone(s)
      PROVE  RecordedIsHeld'
  BY <1>1, <1>4 DEF SendPoll, SendBeat, SendAck, FlushDone, store, runner, journal
<1>5. ASSUME NEW s \in Slots, TakeNothing(s) \/ Conclude(s) PROVE RecordedIsHeld'
  BY <1>1, <1>5 DEF TakeNothing, Conclude, store, runner, journal
<1>6. ASSUME NEW s \in Slots, Release(s) PROVE RecordedIsHeld'
  <2>1. /\ jslot' = [jslot EXCEPT ![s] = 0] /\ jslot[s] \in concluded
        /\ UNCHANGED <<jcursor, ignored, live>>
    BY <1>6 DEF Release, store
  <2>2. live \cap concluded = {} /\ DOMAIN jslot = Slots
    BY DEF Rows, StoreRows, RunnerRows
  <2>3. \A t \in Slots : jslot'[t] = jslot[t] \/ jslot[t] \notin live'
    BY <2>1, <2>2
  <2> QED
    BY <2>1, <2>3, HeldKept
<1>7. ASSUME NEW l \in DOMAIN leases, EnqueueCancel(l) \/ Expire(l) \/ Reap(l) PROVE RecordedIsHeld'
  BY <1>1, <1>7 DEF EnqueueCancel, Expire, Reap, requestRows, runner, journal
<1> QED
  BY <1>2, <1>3, <1>4, <1>5, <1>6, <1>7, TakeHolds DEF Abort, Restart

-----------------------------------------------------------------------------
(* The invariant, and what it says of the exchange.                        *)

\* The invariant holds before the first request.
LEMMA PollStart == PollInit => PollInv
<1> SUFFICES ASSUME PollInit PROVE PollInv
  OBVIOUS
<1>1. StoreRows
  BY PollAssumption DEF PollInit, StoreRows, None
<1>2. RunnerRows
  BY DEF PollInit, RunnerRows, None
<1>3. \A i \in Callers : calls[i] = Idle /\ i[1] \in Slots
  BY DEF PollInit, Callers
<1>4. Idle \in [kind : {"none", "poll", "ack", "beat"}, op : Nat,
                stage : Running \cup Ended \cup {"idle"}, resp : Int, heard : BOOLEAN]
  BY DEF Idle, None
<1>5. CallRows
  <2>1. ASSUME NEW i \in Callers PROVE CallRow(i)
    BY <1>3 DEF Idle, CallRow, PollStages, SyncStages, LeaseStages, CommandStages
  <2> QED
    BY <1>4, <2>1 DEF PollInit, CallRows
<1>6. Exchanges
  BY <1>3 DEF PollInit, Exchanges, Fits, Waits, Checkpoint, Idle, None
<1>7. Grants
  BY DEF PollInit, Grants, LeaseRows, SlotRows, OutboxRows, None
<1>8. Outcomes
  BY <1>3 DEF Outcomes, Carries, Answers, Refusal, Idle, LeaseStages
<1>9. RecordedIsHeld
  BY DEF PollInit, RecordedIsHeld
<1> QED
  BY <1>1, <1>2, <1>5, <1>6, <1>7, <1>8, <1>9 DEF PollInv, Rows

\* The invariant at a transaction of a handler.
LEMMA HandleStep ==
  ASSUME PollInv, NEW i \in Callers, Handle(i)
  PROVE  PollInv'
<1>1. Rows /\ Exchanges /\ Grants /\ LeaseRows /\ Outcomes /\ RecordedIsHeld
  BY DEF PollInv, Grants
<1>2. Moves(i) /\ UNCHANGED <<runner, ended>>
  BY <1>1, HandleMoves
<1>3. PICK st, r : Goto(i, st, r) /\ Edge(i, st, r)
  BY <1>2 DEF Moves
<1>4. Rows' /\ Exchanges'
  BY <1>1, <1>2, MoveRows, MoveExchanges
<1>5. Grants' /\ Outcomes' /\ Growing
  BY <1>1, <1>2, <1>3, MoveGrants, MoveOutcomes, MoveGrows
<1>6. RecordedIsHeld'
  <2>1. \A s \in Slots : live' \subseteq live \cup {Len(leases) + 1}
    BY <1>1, <1>3, MoveRequests
  <2>2. live' \subseteq live \cup {Len(leases) + 1}
    BY <1>1, <2>1, CallFacts
  <2> QED
    BY <1>1, <1>2, <1>5, <2>2, HeldKept DEF runner, journal
<1> QED
  BY <1>4, <1>5, <1>6 DEF PollInv

\* Every step keeps the invariant.
LEMMA PollStep == PollInv /\ [PollNext]_pollVars => PollInv'
<1> SUFFICES ASSUME PollInv, [PollNext]_pollVars PROVE PollInv'
  OBVIOUS
<1>1. CASE \E i \in Callers : Handle(i)
  BY <1>1, HandleStep
<1>2. CASE \/ \E i \in Callers : Deliver(i) \/ RetryLater(i) \/ Discard(i) \/ Timeout(i) \/ Drop(i)
                               \/ Abort(i)
           \/ \E s \in Slots : \/ SendPoll(s) \/ SendBeat(s) \/ SendAck(s) \/ FlushDone(s)
                               \/ TakeNothing(s) \/ TakeCommand(s) \/ Conclude(s) \/ Release(s)
           \/ \E l \in DOMAIN leases : EnqueueCancel(l) \/ Expire(l) \/ Reap(l)
           \/ Restart
  <2>1. Rows /\ Exchanges /\ Grants /\ SlotRows /\ Outcomes /\ RecordedIsHeld
    BY DEF PollInv, Grants
  <2>2. Rows' /\ Growing
    BY <1>2, <2>1, OtherRows
  <2>3. Exchanges'
    BY <1>2, <2>1, OtherExchanges
  <2>4. Grants'
    BY <1>2, <2>1, <2>2, OtherGrants
  <2>5. Outcomes'
    BY <1>2, <2>1, <2>2, OtherOutcomes
  <2>6. RecordedIsHeld'
    BY <1>2, <2>1, <2>2, OtherHolds
  <2> QED
    BY <2>2, <2>3, <2>4, <2>5, <2>6 DEF PollInv
<1>3. CASE UNCHANGED pollVars
  <2>1. /\ UNCHANGED <<head, claim, receipt, outbox, acked, leases, live, overdue, concluded>>
        /\ UNCHANGED <<jop, jcursor, jslot, ignored, phase, reply, sent, flusher, calls>>
    BY <1>3 DEF pollVars, store, runner, journal, ended
  <2>2. Rows' = Rows
    BY <2>1 DEF Rows, StoreRows, Commands, RunnerRows, CallRows, CallRow
  <2>3. Exchanges' = Exchanges
    BY <2>1 DEF Exchanges, Fits, Waits, Checkpoint
  <2>4. Grants' = Grants
    BY <2>1 DEF Grants, LeaseRows, SlotRows, OutboxRows
  <2>5. Outcomes' = Outcomes
    BY <2>1 DEF Outcomes, Carries, Answers, Refusal, Current, Offer
  <2>6. RecordedIsHeld' = RecordedIsHeld
    BY <2>1 DEF RecordedIsHeld, Offer, RequestOf
  <2> QED
    BY <2>2, <2>3, <2>4, <2>5, <2>6 DEF PollInv
<1> QED
  BY <1>1, <1>2, <1>3 DEF PollNext

\* The rows of the store and of the journal, the executions between two
\* transactions and the outcomes they prepare fit together in every state.
THEOREM PollInvariant == PollSpec => []PollInv
BY PollStart, PollStep, PTL DEF PollSpec

\* A lease request is granted at most one lease and publishes at most one
\* offer, whatever executions of it and of its neighbours run at once
\* (runner_operation_receipts and the publication's primary key).
THEOREM OneLease == PollSpec => []OneLeasePerRequest
<1>1. PollInv => OneLeasePerRequest
  <2> SUFFICES ASSUME PollInv PROVE OneLeasePerRequest
    OBVIOUS
  <2>1. DOMAIN leases = 1 .. Len(leases) /\ DOMAIN outbox = 1 .. Len(outbox)
    BY DEF PollInv, Rows, StoreRows
  <2>2. \A l, m \in DOMAIN leases : leases[l] = leases[m] => l = m
    BY <2>1 DEF PollInv, Grants, LeaseRows
  <2>3. \A p, q \in DOMAIN outbox :
          Offer(p) /\ Offer(q) /\ outbox[p].lease = outbox[q].lease => p = q
    BY <2>1 DEF PollInv, Grants, OutboxRows, Offer
  <2> QED
    BY <2>2, <2>3 DEF OneLeasePerRequest
<1> QED
  BY <1>1, PollInvariant, PTL

\* Every answer to the current request is the stored one, or no work once the
\* stored offer was revoked: two executions of a request never answer with
\* different commands (complete_lease_request, load_generic_receipt).
THEOREM AnswersAlike == PollSpec => []AnswersAgree
<1>1. PollInv => AnswersAgree
  BY DEF PollInv, Outcomes, Answers, AnswersAgree
<1> QED
  BY <1>1, PollInvariant, PTL

\* A retry that the runner still waits for is refused with a conflict only
\* after the lease of that very request has passed its expiry
\* (begin_lease_request, require_current_lease_offer_claim).
THEOREM RefusalsExpired == PollSpec => []RefusedAfterExpiry
<1>1. PollInv => RefusedAfterExpiry
  BY DEF PollInv, Outcomes, Refusal, RefusedAfterExpiry
<1> QED
  BY <1>1, PollInvariant, PTL

\* The outbox holds at most one offer and one cancellation of each lease.
LEMMA OutboxBounded ==
  ASSUME Rows, OutboxRows
  PROVE  Len(outbox) <= 2 * MaxLease
<1>1. /\ outbox \in Seq(Commands) /\ Len(outbox) \in Nat /\ Len(leases) \in Nat
      /\ Len(leases) <= MaxLease /\ MaxLease \in Nat
  BY PollAssumption DEF Rows, StoreRows
<1>2. \A q \in 1 .. Len(outbox) :
        /\ outbox[q].kind \in {"offer", "cancel"}
        /\ outbox[q].lease \in 1 .. Len(leases)
  <2> SUFFICES ASSUME NEW q \in 1 .. Len(outbox)
               PROVE  outbox[q].kind \in {"offer", "cancel"} /\ outbox[q].lease \in 1 .. Len(leases)
    OBVIOUS
  <2>1. outbox[q] \in Commands
    BY <1>1
  <2> QED
    BY <2>1 DEF Commands
<1> DEFINE code(q) == IF outbox[q].kind = "offer" THEN outbox[q].lease ELSE MaxLease + outbox[q].lease
           f == [q \in 1 .. Len(outbox) |-> code(q)]
<1>3. \A q \in 1 .. Len(outbox) : code(q) \in 1 .. (2 * MaxLease)
  BY <1>1, <1>2
<1>4. \A p, q \in 1 .. Len(outbox) : code(p) = code(q) => p = q
  <2> SUFFICES ASSUME NEW p \in 1 .. Len(outbox), NEW q \in 1 .. Len(outbox), code(p) = code(q)
               PROVE  p = q
    OBVIOUS
  <2>1. outbox[p].kind = outbox[q].kind /\ outbox[p].lease = outbox[q].lease
    BY <1>1, <1>2
  <2> QED
    BY <2>1 DEF OutboxRows
<1> HIDE DEF code
<1>5. f \in [1 .. Len(outbox) -> 1 .. (2 * MaxLease)]
  BY <1>3
<1>6. \A p, q \in 1 .. Len(outbox) : f[p] = f[q] => p = q
  BY <1>4
<1> HIDE DEF f
<1>7. /\ IsFiniteSet(1 .. Len(outbox)) /\ Cardinality(1 .. Len(outbox)) = Len(outbox)
      /\ IsFiniteSet(1 .. (2 * MaxLease)) /\ Cardinality(1 .. (2 * MaxLease)) = 2 * MaxLease
  <2>1. 2 * MaxLease \in Nat
    BY <1>1
  <2>2. \A n \in Nat : IsFiniteSet(1 .. n) /\ Cardinality(1 .. n) = n
    BY FS_Interval
  <2> QED
    BY <1>1, <2>1, <2>2
<1>8. ~(Cardinality(1 .. (2 * MaxLease)) < Cardinality(1 .. Len(outbox)))
  <2> DEFINE S == 1 .. Len(outbox)
             T == 1 .. (2 * MaxLease)
  <2>1. IsFiniteSet(S) /\ IsFiniteSet(T) /\ f \in [S -> T] /\ \A p, q \in S : f[p] = f[q] => p = q
    BY <1>5, <1>6, <1>7
  <2> HIDE DEF S, T
  <2>2. ASSUME Cardinality(T) < Cardinality(S) PROVE FALSE
    <3>1. \E p, q \in S : p # q /\ f[p] = f[q]
      BY <2>1, <2>2, FS_PigeonHole
    <3> QED
      BY <2>1, <3>1
  <2> QED
    BY <2>2 DEF S, T
<1> QED
  BY <1>1, <1>7, <1>8

\* The journal and the store agree on what was requested and delivered, and
\* rows, journal and executions stay within their types: the checkpoint is at
\* most one request ahead of the head, a live offer meets no other live lease
\* in its slot, a recorded one is held or was ignored, and the store's
\* cursor is never ahead of the journal's (prepare_lease_poll,
\* record_lease_offer, acknowledge_commands).
THEOREM JournalKept == PollSpec => []JournalAgrees
<1>1. ASSUME PollInv PROVE PollTypeOK
  <2>1. StoreRows /\ RunnerRows /\ CallRows /\ Rows /\ OutboxRows /\ Exchanges
    BY <1>1 DEF PollInv, Rows, Grants
  <2>2. /\ Len(outbox) \in Nat /\ Len(outbox) <= 2 * MaxLease
        /\ Len(leases) \in Nat /\ Len(leases) <= MaxLease /\ MaxLease \in Nat /\ MaxOp \in Nat
        /\ DOMAIN outbox = 1 .. Len(outbox) /\ DOMAIN leases = 1 .. Len(leases)
    BY <2>1, OutboxBounded, PollAssumption DEF StoreRows
  <2>3. 0 .. Len(outbox) \subseteq Cursors /\ 0 .. Len(leases) \subseteq Cursors
        /\ 0 .. Len(leases) \subseteq 0 .. MaxLease
    BY <2>2 DEF Cursors
  <2>4. /\ head \in [Slots -> 0 .. MaxOp]
        /\ claim \in [Slots -> {None} \cup (0 .. MaxLease)]
        /\ receipt \in [Slots -> {None} \cup Cursors]
    BY <2>1, <2>3 DEF StoreRows
  <2>5. DOMAIN outbox \subseteq Cursors
    BY <2>2 DEF Cursors
  <2>6. ASSUME NEW q \in DOMAIN outbox
        PROVE  outbox[q] \in [kind : {"offer", "cancel"}, lease : DOMAIN leases, revoked : BOOLEAN]
    <3>1. outbox[q] \in Commands
      BY <2>1 DEF StoreRows
    <3> QED
      BY <2>2, <3>1 DEF Commands
  <2>7. ASSUME NEW l \in DOMAIN leases PROVE leases[l] \in [slot : Slots, op : 1 .. MaxOp]
    <3>1. leases[l] \in Requests
      BY <2>1 DEF StoreRows
    <3> QED
      BY <3>1 DEF Requests
  <2>8. /\ live \subseteq DOMAIN leases /\ overdue \subseteq DOMAIN leases
        /\ concluded \subseteq DOMAIN leases \ live
    BY <2>1, <2>2 DEF StoreRows
  <2>9. acked <= Len(outbox) /\ jcursor <= Len(outbox) /\ sent <= jcursor
    BY <2>1, <2>2 DEF RunnerRows
  <2>10. \A s \in Slots : jop[s] \in {head[s], head[s] + 1}
    BY <2>1 DEF Exchanges, Checkpoint
  <2>11. /\ ignored \subseteq 1 .. jcursor
         /\ phase \in [Slots -> {"poll", "flush", "run"}]
         /\ flusher \in Slots \cup {NoSlot}
    BY <2>1 DEF RunnerRows
  <2>12. jslot \in [Slots -> {0} \cup DOMAIN leases]
    <3>1. 0 .. Len(leases) = {0} \cup (1 .. Len(leases))
      BY <2>2
    <3> QED
      BY <2>1, <2>2, <3>1 DEF RunnerRows
  <2>13. reply \in [Slots -> {None} \cup Cursors]
    BY <2>1, <2>3 DEF RunnerRows
  <2>14. calls \in [Callers -> Calls]
    <3>1. ASSUME NEW i \in Callers
          PROVE  calls[i].op \in 0 .. (2 * MaxLease + MaxOp) /\ calls[i].resp \in Cursors \cup {None}
      <4>1. /\ CallRow(i) /\ calls[i].op \in Nat /\ jcursor \in Nat
            /\ calls[i].kind \in {"none", "poll", "ack", "beat"}
        BY <2>1 DEF CallRows, RunnerRows
      <4>2. calls[i].op <= 2 * MaxLease + MaxOp
        <5>1. CASE calls[i].kind = "poll"
          BY <2>2, <4>1, <5>1 DEF CallRow
        <5>2. CASE calls[i].kind = "ack"
          BY <2>2, <2>9, <4>1, <5>2 DEF CallRow
        <5>3. CASE calls[i].kind \in {"none", "beat"}
          BY <2>2, <4>1, <5>3 DEF CallRow
        <5> QED
          BY <4>1, <5>1, <5>2, <5>3
      <4>3. calls[i].resp \in Cursors \cup {None}
        BY <2>2, <2>3, <4>1 DEF CallRow
      <4> QED
        BY <2>2, <4>1, <4>2, <4>3
    <3>2. \A i \in Callers : calls[i] \in Calls
      BY <2>1, <3>1 DEF CallRows, Calls
    <3> QED
      BY <2>1, <3>2 DEF CallRows
  <2> QED
    BY <2>4, <2>5, <2>6, <2>7, <2>8, <2>9, <2>10, <2>11, <2>12, <2>13, <2>14 DEF PollTypeOK
<1>2. ASSUME PollInv PROVE OffersFindTheirSlot
  <2> SUFFICES ASSUME NEW q \in DOMAIN outbox, outbox[q].lease \in live,
                      jslot[RequestOf(q).slot] \in live
               PROVE  jslot[RequestOf(q).slot] = outbox[q].lease
    BY DEF OffersFindTheirSlot
  <2> DEFINE s == RequestOf(q).slot
  <2>1. StoreRows /\ LeaseRows /\ SlotRows
    BY <1>2 DEF PollInv, Rows, Grants
  <2>2. s \in Slots
    <3>1. outbox[q] \in Commands
      BY <2>1 DEF StoreRows
    <3>2. outbox[q].lease \in 1 .. Len(leases)
      BY <3>1 DEF Commands
    <3>3. leases[outbox[q].lease] \in Requests
      BY <2>1, <3>2 DEF StoreRows
    <3> QED
      BY <3>3 DEF RequestOf, Requests
  <2>3. jslot[s] \in 1 .. Len(leases)
    BY <2>1 DEF StoreRows
  <2>4. leases[jslot[s]].slot = s
    BY <2>1, <2>2, <2>3 DEF SlotRows
  <2>5. leases[outbox[q].lease].slot = s
    BY DEF RequestOf
  <2> QED
    BY <2>1, <2>4, <2>5 DEF LeaseRows
<1>3. PollInv => JournalAgrees
  BY <1>1, <1>2 DEF JournalAgrees, PollInv, Rows, RunnerRows
<1> QED
  BY <1>3, PollInvariant, PTL
=============================================================================
