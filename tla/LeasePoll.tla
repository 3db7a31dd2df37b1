------------------------------ MODULE LeasePoll ------------------------------
(***************************************************************************)
(* The exchange by which a runner slot asks for work and the commands of   *)
(* its session reach it: the handler of a LeaseRequest and the store       *)
(* transactions it makes one after the other, the handlers of CommandAck   *)
(* and of the other messages of a running slot (Heartbeat stands for       *)
(* them), and the runner's slot loops with their journal.                  *)
(*                                                                         *)
(* One runner session, which stays current.  A handler execution is a      *)
(* record of calls whose stage names the transaction it makes next, so     *)
(* executions of the same request, the first one and its retries, and of   *)
(* other slots interleave between any two transactions.  Operation n of a  *)
(* slot acknowledges operation n - 1.  Clock readings are abstracted to    *)
(* one fact per lease: overdue holds the leases whose original expiry,     *)
(* which is also offer_valid_until_ms, has passed.                         *)
(***************************************************************************)
EXTENDS Integers, Sequences, FiniteSets

CONSTANTS
    Slots,       \* the runner's stable slots
    NoSlot,      \* nobody holds the command_ack_receipt lock
    MaxOp,       \* bound: lease requests of a slot
    MaxLease,    \* bound: leases granted to the session
    MaxCalls,    \* bound: handler executions of a slot at one time
    MaxTimeouts, \* bound: exchanges the runner gives up
    MaxDrops,    \* bound: executions that end between two transactions
    MaxRestarts, \* bound: restarts of the runner process
    MaxExpired   \* bound: leases whose original expiry passes

ASSUME PollAssumption ==
    /\ NoSlot \notin Slots
    /\ \A n \in {MaxOp, MaxLease, MaxCalls, MaxTimeouts, MaxDrops, MaxRestarts, MaxExpired} : n \in Nat

VARIABLES
    head,      \* runner_lease_request_heads: the slot's current operation
    claim,     \* runner_operation_receipts of the head: None, 0 (no lease), or a lease
    receipt,   \* runner_rpc_receipts of the head: None, 0 (no work), or a command
    outbox,    \* runner_command_outbox with the publication of each offer
    acked,     \* runner_sessions.acknowledged_command_sequence
    leases,    \* the request each lease was granted to
    live,      \* leases still recorded on an active attempt
    overdue,   \* leases whose original expiry has passed
    concluded, \* leases whose attempt has the runner's terminal result
    jop,       \* journal: current_operation_id of the slot's poll checkpoint
    jcursor,   \* journal: the command cursor
    jslot,     \* journal: the lease recorded in the slot, or 0
    ignored,   \* journal: the commands with disposition Ignored(SlotUnavailable)
    phase,     \* what the slot loop is doing
    reply,     \* the reply the slot has received and not processed
    sent,      \* the cursor of the CommandAckReceipt
    flusher,   \* the slot that holds the command_ack_receipt lock
    calls,     \* the handler executions
    timeouts, drops, restarts

ended == <<overdue, concluded>>
store == <<head, claim, receipt, outbox, acked, leases, live, ended>>
journal == <<jop, jcursor, jslot, ignored>>
runner == <<journal, phase, reply, sent, flusher>>
faults == <<timeouts, drops, restarts>>
pollVars == <<store, runner, calls, faults>>

None == -1
Callers == Slots \X (1..MaxCalls)
Cursors == 0..(2 * MaxLease)

Running == {"begin", "prePoll", "preCheck", "poll", "claim", "inspect", "publish", "postPoll",
            "postCheck", "validate", "complete", "resolve", "ack", "preSync", "sync", "syncCheck"}
Retryable == {"unavailable", "corrupt"}          \* 5xx answers: RetrySameRequest
Ended == Retryable \cup {"conflict", "reply"}     \* conflict is a 409: never retried

Idle == [kind |-> "none", op |-> 0, stage |-> "idle", resp |-> None, heard |-> FALSE]

PollInit ==
    /\ head = [s \in Slots |-> 0]
    /\ claim = [s \in Slots |-> None]
    /\ receipt = [s \in Slots |-> None]
    /\ outbox = <<>>
    /\ acked = 0
    /\ leases = <<>>
    /\ live = {}
    /\ overdue = {}
    /\ concluded = {}
    /\ jop = [s \in Slots |-> 1]
    /\ jcursor = 0
    /\ jslot = [s \in Slots |-> 0]
    /\ ignored = {}
    /\ phase = [s \in Slots |-> "poll"]
    /\ reply = [s \in Slots |-> None]
    /\ sent = 0
    /\ flusher = NoSlot
    /\ calls = [i \in Callers |-> Idle]
    /\ timeouts = 0
    /\ drops = 0
    /\ restarts = 0

-----------------------------------------------------------------------------
(* The outbox and the publications of offers                               *)

Offer(q) == q > 0 /\ outbox[q].kind = "offer"

RequestOf(q) == leases[outbox[q].lease]

\* exact_active_attempt and offer_valid_until_ms in the future
Current(l) == l \in live /\ l \notin overdue

\* How resolve_lease_offer_command and load_generic_receipt find command q:
\* a revoked or outlived offer is recognised before its payload is read, and
\* the payload of an acknowledged command has been erased.
Resolution(q) ==
    CASE ~Offer(q) -> "plain"
      [] Offer(q) /\ (outbox[q].revoked \/ ~Current(outbox[q].lease)) -> "revoked"
      [] Offer(q) /\ ~outbox[q].revoked /\ Current(outbox[q].lease) /\ q <= acked -> "unavailable"
      [] OTHER -> "published"

\* mark_replay_publication_revoked for every command of Q
Revoke(Q) ==
    outbox' = [q \in DOMAIN outbox |->
                  IF q \in Q THEN [outbox[q] EXCEPT !.revoked = TRUE] ELSE outbox[q]]

Publications(request) == {q \in DOMAIN outbox : Offer(q) /\ RequestOf(q) = request}

Goto(i, stage, resp) == calls' = [calls EXCEPT ![i].stage = stage, ![i].resp = resp]

\* The rows that only the first half of the handler writes
requestRows == <<head, claim, receipt, leases, live>>

-----------------------------------------------------------------------------
(* handle_lease_request, one action per store transaction                  *)

\* begin_lease_request answers a retry of the request it already holds from
\* the stored receipt.
Replayed(i, s, q) ==
    /\ UNCHANGED requestRows
    /\ \/ q = None /\ Goto(i, "prePoll", None) /\ UNCHANGED outbox
       \/ q # None /\ Resolution(q) = "revoked" /\ Revoke({q}) /\ Goto(i, "reply", 0)
       \/ q # None /\ Resolution(q) = "unavailable" /\ Goto(i, "unavailable", q) /\ UNCHANGED outbox
       \/ q # None /\ Resolution(q) \in {"plain", "published"} /\ Goto(i, "resolve", q)
                   /\ UNCHANGED outbox

\* The successor of a completed request takes its place and deletes its rows.
\* The journal names a successor only after an answer, and so after a receipt:
\* the conflict for a predecessor without one does not arise.
Succeeded(i, s, q) ==
    \/ /\ head[s] = 0 \/ (q # None /\ Resolution(q) # "unavailable")
       /\ head' = [head EXCEPT ![s] = calls[i].op]
       /\ claim' = [claim EXCEPT ![s] = None]
       /\ receipt' = [receipt EXCEPT ![s] = None]
       /\ IF q # None /\ Resolution(q) = "revoked" THEN Revoke({q}) ELSE UNCHANGED outbox
       /\ Goto(i, "prePoll", None)
       /\ UNCHANGED <<leases, live>>
    \/ /\ head[s] # 0 /\ q # None /\ Resolution(q) = "unavailable"
       /\ Goto(i, "unavailable", q)
       /\ UNCHANGED <<requestRows, outbox>>

\* Mutant: a completed request is taken for a reused operation id.
BeginOnce(i) ==
    LET s == i[1] q == receipt[i[1]] IN
    /\ calls[i].stage = "begin"
    /\ \/ head[s] = calls[i].op /\ q = None /\ Replayed(i, s, q)
       \/ head[s] = calls[i].op - 1 /\ Succeeded(i, s, q)
       \/ /\ (head[s] = calls[i].op /\ q # None) \/ head[s] > calls[i].op
          /\ Goto(i, "conflict", None) /\ UNCHANGED <<requestRows, outbox>>
    /\ UNCHANGED <<runner, faults, acked, ended>>

Begin(i) ==
    LET s == i[1] q == receipt[i[1]] IN
    /\ calls[i].stage = "begin"
    /\ \/ head[s] = calls[i].op /\ Replayed(i, s, q)
       \/ head[s] = calls[i].op - 1 /\ Succeeded(i, s, q)
       \/ head[s] > calls[i].op /\ Goto(i, "conflict", None) /\ UNCHANGED <<requestRows, outbox>>
    /\ UNCHANGED <<runner, faults, acked, ended>>

AfterNothing == [prePoll |-> "poll", postPoll |-> "validate", preSync |-> "sync", sync |-> "reply"]
AfterCommand == [prePoll |-> "preCheck", postPoll |-> "postCheck",
                 preSync |-> "syncCheck", sync |-> "syncCheck"]
AfterCheck == [preCheck |-> "complete", postCheck |-> "validate", syncCheck |-> "reply"]

\* select_replay_candidate_sequences
Pending == {q \in DOMAIN outbox : q > acked /\ ~outbox[q].revoked}

\* replay_commands with a limit of one.  Outlived offers ahead of the first
\* deliverable command are marked; when marks were written, that command is
\* left for a later call, which the handler answers with Unavailable.
ReplayCommands(i) ==
    LET deliverable == {q \in Pending : Resolution(q) # "revoked"}
        stale == {q \in Pending : \A d \in deliverable : q < d}
    IN
    /\ calls[i].stage \in DOMAIN AfterNothing
    /\ \/ /\ deliverable = {}
          /\ Revoke(stale)
          /\ Goto(i, AfterNothing[calls[i].stage], calls[i].resp)
       \/ /\ stale = {}
          /\ \E q \in deliverable :
                /\ \A d \in deliverable : q <= d
                /\ Goto(i, AfterCommand[calls[i].stage], q)
          /\ UNCHANGED outbox
       \/ /\ deliverable # {} /\ stale # {}
          /\ Revoke(stale)
          /\ Goto(i, "unavailable", None)
    /\ UNCHANGED <<requestRows, runner, faults, acked, ended>>

\* next_pending_command resolves the command it was given once more.
CheckCommand(i) ==
    LET q == calls[i].resp IN
    /\ calls[i].stage \in DOMAIN AfterCheck
    /\ \/ Resolution(q) = "revoked" /\ Revoke({q}) /\ Goto(i, "unavailable", q)
       \/ Resolution(q) = "unavailable" /\ Goto(i, "unavailable", q) /\ UNCHANGED outbox
       \/ /\ Resolution(q) \in {"plain", "published"}
          /\ Goto(i, AfterCheck[calls[i].stage], q)
          /\ UNCHANGED outbox
    /\ UNCHANGED <<requestRows, runner, faults, acked, ended>>

\* lock_current_lease_request_head
HeadMoved(i) == head[i[1]] # calls[i].op

Refuse(i) ==
    /\ HeadMoved(i)
    /\ Goto(i, "conflict", None)
    /\ UNCHANGED <<requestRows, outbox>>

\* resolve_claim_receipt: a claim whose lease is gone becomes a rejection.
ResolveClaim(i, s) ==
    \/ claim[s] = 0 /\ Goto(i, "postPoll", 0) /\ UNCHANGED requestRows
    \/ claim[s] > 0 /\ Current(claim[s]) /\ Goto(i, "inspect", claim[s]) /\ UNCHANGED requestRows
    \/ /\ claim[s] > 0 /\ ~Current(claim[s])
       /\ claim' = [claim EXCEPT ![s] = 0]
       /\ Goto(i, "postPoll", 0)
       /\ UNCHANGED <<head, receipt, leases, live>>

\* poll_inner's lookup_lease_request
LookupRequest(i) ==
    LET s == i[1] IN
    /\ calls[i].stage = "poll"
    /\ \/ Refuse(i)
       \/ /\ ~HeadMoved(i)
          /\ UNCHANGED outbox
          /\ \/ claim[s] = None /\ Goto(i, "claim", None) /\ UNCHANGED requestRows
             \/ ResolveClaim(i, s)
    /\ UNCHANGED <<runner, faults, acked, ended>>

\* evaluate_claim finds the slot free of active attempts.
SlotUnoccupied(s) == \A l \in live : leases[l].slot # s

Grant(i, s) ==
    /\ Len(leases) < MaxLease
    /\ leases' = Append(leases, [slot |-> s, op |-> calls[i].op])
    /\ live' = live \cup {Len(leases) + 1}
    /\ claim' = [claim EXCEPT ![s] = Len(leases) + 1]
    /\ Goto(i, "inspect", Len(leases) + 1)
    /\ UNCHANGED <<head, receipt>>

\* record_no_work, and every rejection of try_claim
Decline(i, s) ==
    /\ claim' = [claim EXCEPT ![s] = 0]
    /\ Goto(i, "postPoll", 0)
    /\ UNCHANGED <<head, receipt, leases, live>>

\* Mutant: the claim of an earlier execution is not replayed.
ClaimAnew(i) ==
    LET s == i[1] IN
    /\ calls[i].stage = "claim"
    /\ \/ Refuse(i)
       \/ /\ ~HeadMoved(i)
          /\ UNCHANGED outbox
          /\ Grant(i, s) \/ Decline(i, s)
    /\ UNCHANGED <<runner, faults, acked, ended>>

\* try_claim or record_no_work, whichever the scheduler's decision calls for
Claim(i) ==
    LET s == i[1] IN
    /\ calls[i].stage = "claim"
    /\ \/ Refuse(i)
       \/ /\ ~HeadMoved(i)
          /\ UNCHANGED outbox
          /\ \/ claim[s] = None /\ SlotUnoccupied(s) /\ Grant(i, s)
             \/ claim[s] = None /\ Decline(i, s)
             \/ ResolveClaim(i, s)
    /\ UNCHANGED <<runner, faults, acked, ended>>

-----------------------------------------------------------------------------
(* build_lease_offer                                                       *)

\* The offer of this request exists: its payload is read before it is judged.
OfferExists(i, q) ==
    /\ UNCHANGED outbox
    /\ \/ q <= acked /\ Goto(i, "unavailable", q)
       \/ q > acked /\ Resolution(q) = "revoked" /\ Goto(i, "postPoll", 0)
       \/ q > acked /\ Resolution(q) = "published" /\ Goto(i, "postPoll", q)

\* require_current_lease_offer_claim, then lock_publishable_lease_offer_attempt
Unpublishable(i, s) ==
    /\ UNCHANGED outbox
    /\ \/ claim[s] # calls[i].resp /\ Goto(i, "conflict", None)
       \/ claim[s] = calls[i].resp /\ ~Current(claim[s]) /\ Goto(i, "postPoll", 0)

Publishable(i, s) == claim[s] = calls[i].resp /\ Current(claim[s])

\* inspect_lease_offer_claim
InspectClaim(i) ==
    LET s == i[1] published == Publications([slot |-> i[1], op |-> calls[i].op]) IN
    /\ calls[i].stage = "inspect"
    /\ \/ Refuse(i)
       \/ ~HeadMoved(i) /\ (\E q \in published : OfferExists(i, q))
       \/ ~HeadMoved(i) /\ published = {} /\ Unpublishable(i, s)
       \/ /\ ~HeadMoved(i) /\ published = {} /\ Publishable(i, s)
          /\ Goto(i, "publish", calls[i].resp)
          /\ UNCHANGED outbox
    /\ UNCHANGED <<requestRows, runner, faults, acked, ended>>

\* publish_lease_offer
PublishOffer(i) ==
    LET s == i[1] published == Publications([slot |-> i[1], op |-> calls[i].op]) IN
    /\ calls[i].stage = "publish"
    /\ \/ Refuse(i)
       \/ ~HeadMoved(i) /\ (\E q \in published : OfferExists(i, q))
       \/ ~HeadMoved(i) /\ published = {} /\ Unpublishable(i, s)
       \/ /\ ~HeadMoved(i) /\ published = {} /\ Publishable(i, s)
          /\ outbox' = Append(outbox, [kind |-> "offer", lease |-> claim[s], revoked |-> FALSE])
          /\ Goto(i, "postPoll", Len(outbox) + 1)
    /\ UNCHANGED <<requestRows, runner, faults, acked, ended>>

-----------------------------------------------------------------------------
(* The response is validated, stored and resolved                          *)

\* validate_lease_offer_response before completion: a revoked offer goes on,
\* so that the completion stores its fallback.
ValidateResponse(i) ==
    LET q == calls[i].resp IN
    /\ calls[i].stage = "validate"
    /\ \/ Resolution(q) = "revoked" /\ Revoke({q}) /\ Goto(i, "complete", q)
       \/ Resolution(q) = "unavailable" /\ Goto(i, "unavailable", q) /\ UNCHANGED outbox
       \/ Resolution(q) \in {"plain", "published"} /\ Goto(i, "complete", q) /\ UNCHANGED outbox
    /\ UNCHANGED <<requestRows, runner, faults, acked, ended>>

\* complete_lease_request with a receipt already stored
Completed(i, q, stored) ==
    /\ UNCHANGED requestRows
    /\ \/ /\ Offer(stored) # Offer(q) \/ (Offer(q) /\ stored # q)
          /\ Goto(i, "corrupt", q)
          /\ UNCHANGED outbox
       \/ /\ Offer(stored) /\ stored = q
          /\ \/ Resolution(q) = "revoked" /\ Revoke({q}) /\ Goto(i, "reply", 0)
             \/ Resolution(q) = "unavailable" /\ Goto(i, "unavailable", q) /\ UNCHANGED outbox
             \/ Resolution(q) = "published" /\ Goto(i, "resolve", q) /\ UNCHANGED outbox
       \/ ~Offer(stored) /\ ~Offer(q) /\ Goto(i, "resolve", stored) /\ UNCHANGED outbox

\* ... and the first completion: the offer must be this request's own.
Complete(i, s, q) ==
    \/ /\ Offer(q) /\ RequestOf(q) # [slot |-> s, op |-> calls[i].op]
       /\ Goto(i, "corrupt", q)
       /\ UNCHANGED <<requestRows, outbox>>
    \/ /\ Offer(q) => RequestOf(q) = [slot |-> s, op |-> calls[i].op]
       /\ \/ /\ Resolution(q) = "unavailable"
             /\ Goto(i, "unavailable", q)
             /\ UNCHANGED <<requestRows, outbox>>
          \/ /\ Resolution(q) # "unavailable"
             /\ receipt' = [receipt EXCEPT ![s] = q]
             /\ IF Resolution(q) = "revoked"
                THEN Revoke({q}) /\ Goto(i, "reply", 0)
                ELSE UNCHANGED outbox /\ Goto(i, "resolve", q)
             /\ UNCHANGED <<head, claim, leases, live>>

\* Mutant: the receipt of an earlier execution is overwritten.
CompleteRequestAgain(i) ==
    LET s == i[1] q == calls[i].resp IN
    /\ calls[i].stage = "complete"
    /\ Refuse(i) \/ (~HeadMoved(i) /\ Complete(i, s, q))
    /\ UNCHANGED <<runner, faults, acked, ended>>

CompleteRequest(i) ==
    LET s == i[1] q == calls[i].resp IN
    /\ calls[i].stage = "complete"
    /\ \/ Refuse(i)
       \/ ~HeadMoved(i) /\ receipt[s] # None /\ Completed(i, q, receipt[s])
       \/ ~HeadMoved(i) /\ receipt[s] = None /\ Complete(i, s, q)
    /\ UNCHANGED <<runner, faults, acked, ended>>

\* resolve_lease_request_completion
ResolveCompletion(i) ==
    LET q == calls[i].resp IN
    /\ calls[i].stage = "resolve"
    /\ \/ Resolution(q) = "revoked" /\ Revoke({q}) /\ Goto(i, "reply", 0)
       \/ Resolution(q) = "unavailable" /\ Goto(i, "unavailable", q) /\ UNCHANGED outbox
       \/ Resolution(q) \in {"plain", "published"} /\ Goto(i, "reply", q) /\ UNCHANGED outbox
    /\ UNCHANGED <<requestRows, runner, faults, acked, ended>>

\* handle_command_ack: the cursor never moves back, and the payloads it
\* covers are erased (Resolution reads acked).  A runner never acknowledges
\* a command that was not sent, so CommandCursorAhead does not arise.
Acknowledge(i) ==
    /\ calls[i].stage = "ack"
    /\ calls[i].op <= Len(outbox)
    /\ acked' = IF calls[i].op > acked THEN calls[i].op ELSE acked
    /\ Goto(i, "sync", 0)
    /\ UNCHANGED <<requestRows, outbox, runner, faults, ended>>

Handle(i) ==
    \/ Begin(i)
    \/ ReplayCommands(i)
    \/ CheckCommand(i)
    \/ LookupRequest(i)
    \/ Claim(i)
    \/ InspectClaim(i)
    \/ PublishOffer(i)
    \/ ValidateResponse(i)
    \/ CompleteRequest(i)
    \/ ResolveCompletion(i)
    \/ Acknowledge(i)

-----------------------------------------------------------------------------
(* Exchanges                                                               *)

Exchanging(s) == reply[s] # None \/ \E i \in Callers : i[1] = s /\ calls[i].heard

Send(s, kind, op, stage, resp) ==
    /\ ~Exchanging(s)
    /\ \E n \in 1..MaxCalls :
          /\ calls[<<s, n>>] = Idle
          /\ \A m \in 1..(n - 1) : calls[<<s, m>>] # Idle
          /\ calls' = [calls EXCEPT ![<<s, n>>] =
                 [kind |-> kind, op |-> op, stage |-> stage, resp |-> resp, heard |-> TRUE]]

\* poll_slot: prepare_lease_poll and the first or the next exchange
SendPoll(s) ==
    /\ phase[s] = "poll" /\ jop[s] <= MaxOp
    /\ Send(s, "poll", jop[s], "begin", None)
    /\ UNCHANGED <<store, runner, faults>>

\* A heartbeat, or another message, of a slot whose lease is held
SendBeat(s) ==
    /\ phase[s] = "run" /\ jslot[s] \in live
    /\ Send(s, "beat", 0, "preSync", 0)
    /\ UNCHANGED <<store, runner, faults>>

\* flush_command_ack under the command_ack_receipt lock
SendAck(s) ==
    /\ phase[s] = "flush" /\ flusher \in {NoSlot, s}
    /\ sent # jcursor
    /\ flusher' = s
    /\ Send(s, "ack", jcursor, "ack", 0)
    /\ UNCHANGED <<store, journal, phase, reply, sent, faults>>

AfterExchange(s, slots) == IF slots[s] # 0 THEN "run" ELSE "poll"

FlushDone(s) ==
    /\ phase[s] = "flush" /\ flusher \in {NoSlot, s}
    /\ sent = jcursor /\ ~Exchanging(s)
    /\ flusher' = NoSlot
    /\ phase' = [phase EXCEPT ![s] = AfterExchange(s, jslot)]
    /\ UNCHANGED <<store, journal, reply, sent, calls, faults>>

\* The awaited answer arrives.  A correlated answer to a CommandAck is the
\* evidence that its cursor was committed.
Deliver(i) ==
    /\ calls[i].heard /\ calls[i].stage = "reply"
    /\ reply' = [reply EXCEPT ![i[1]] = calls[i].resp]
    /\ sent' = IF calls[i].kind = "ack" THEN calls[i].op ELSE sent
    /\ calls' = [calls EXCEPT ![i] = Idle]
    /\ UNCHANGED <<store, journal, phase, flusher, faults>>

\* exchange_exact sends the same prepared request again.
RetryLater(i) ==
    /\ calls[i].heard /\ calls[i].stage \in Retryable
    /\ calls' = [calls EXCEPT ![i] = Idle]
    /\ UNCHANGED <<store, runner, faults>>

\* The answer to an exchange the runner has given up goes nowhere.
Discard(i) ==
    /\ ~calls[i].heard /\ calls[i].stage \in Ended
    /\ calls' = [calls EXCEPT ![i] = Idle]
    /\ UNCHANGED <<store, runner, faults>>

\* The runner gives up an exchange; its execution goes on.
Timeout(i) ==
    /\ calls[i].heard /\ timeouts < MaxTimeouts
    /\ calls' = [calls EXCEPT ![i].heard = FALSE]
    /\ timeouts' = timeouts + 1
    /\ UNCHANGED <<store, runner, drops, restarts>>

\* An execution ends between two transactions: the server stopped, or a
\* transaction failed.
Drop(i) ==
    /\ calls[i].stage \in Running /\ drops < MaxDrops
    /\ calls' = [calls EXCEPT ![i] = Idle]
    /\ drops' = drops + 1
    /\ UNCHANGED <<store, runner, timeouts, restarts>>

-----------------------------------------------------------------------------
(* The runner applies what it received                                     *)

\* NoWork completes the poll; an OperationAck or a renewal changes no journal
\* entry of this module.
TakeNothing(s) ==
    /\ reply[s] = 0
    /\ reply' = [reply EXCEPT ![s] = None]
    /\ IF phase[s] = "poll"
       THEN /\ jop' = [jop EXCEPT ![s] = jop[s] + 1]
            /\ phase' = [phase EXCEPT ![s] = AfterExchange(s, jslot)]
       ELSE UNCHANGED <<jop, phase>>
    /\ UNCHANGED <<store, jcursor, jslot, ignored, sent, flusher, calls, faults>>

\* The slot records after command q: an offer goes to the slot it names,
\* whichever exchange carried it, and is ignored if that slot is taken.
Taken(q) == jslot[RequestOf(q).slot] # 0

RecordedSlots(q) ==
    IF q > jcursor /\ Offer(q) /\ ~Taken(q)
    THEN [jslot EXCEPT ![RequestOf(q).slot] = outbox[q].lease]
    ELSE jslot

IgnoredOffers(q) == ignored \cup {p \in {q} : q > jcursor /\ Offer(q) /\ Taken(q)}

\* Mutant: a command beyond the next one is recorded without waiting.
TakeCommandAtOnce(s) ==
    LET q == reply[s] IN
    /\ q > 0
    /\ jslot' = RecordedSlots(q)
    /\ ignored' = IgnoredOffers(q)
    /\ jcursor' = IF q > jcursor THEN q ELSE jcursor
    /\ jop' = IF phase[s] = "poll" THEN [jop EXCEPT ![s] = jop[s] + 1] ELSE jop
    /\ phase' = [phase EXCEPT ![s] = "flush"]
    /\ reply' = [reply EXCEPT ![s] = None]
    /\ UNCHANGED <<store, sent, flusher, calls, faults>>

\* process_command and process_lease_poll_command: await_command_turn, then
\* one journal commit of the command, its effect and the poll's successor.
TakeCommand(s) ==
    LET q == reply[s] IN
    /\ q > 0
    /\ q <= jcursor + 1
    /\ jslot' = RecordedSlots(q)
    /\ ignored' = IgnoredOffers(q)
    /\ jcursor' = IF q > jcursor THEN q ELSE jcursor
    /\ jop' = IF phase[s] = "poll" THEN [jop EXCEPT ![s] = jop[s] + 1] ELSE jop
    /\ phase' = [phase EXCEPT ![s] = "flush"]
    /\ reply' = [reply EXCEPT ![s] = None]
    /\ UNCHANGED <<store, sent, flusher, calls, faults>>

\* deliver_terminal_result: the store commits the result of the slot's
\* attempt.  A slot whose lease was taken back stays isolated instead
\* (contain_expired_slot).
Conclude(s) ==
    /\ phase[s] = "run" /\ jslot[s] \in live /\ ~Exchanging(s)
    /\ live' = live \ {jslot[s]}
    /\ concluded' = concluded \cup {jslot[s]}
    /\ UNCHANGED <<head, claim, receipt, outbox, acked, leases, overdue, runner, calls, faults>>

\* release_slot, once the result is known to be committed; a result sent
\* again after a restart is answered from its receipt.
Release(s) ==
    /\ phase[s] = "run" /\ jslot[s] \in concluded /\ ~Exchanging(s)
    /\ jslot' = [jslot EXCEPT ![s] = 0]
    /\ phase' = [phase EXCEPT ![s] = "poll"]
    /\ UNCHANGED <<store, jop, jcursor, ignored, reply, sent, flusher, calls, faults>>

\* The process starts again from its journal and resumes its session with
\* the journal's cursor, which the store must not be ahead of.
Resume ==
    /\ jcursor >= acked
    /\ acked' = jcursor
    /\ sent' = jcursor
    /\ flusher' = NoSlot
    /\ reply' = [s \in Slots |-> None]
    /\ phase' = [s \in Slots |-> AfterExchange(s, jslot)]
    /\ calls' = [i \in Callers |-> [calls[i] EXCEPT !.heard = FALSE]]
    /\ UNCHANGED <<head, claim, receipt, outbox, leases, live, ended, journal>>

Restart ==
    /\ restarts < MaxRestarts
    /\ restarts' = restarts + 1
    /\ Resume
    /\ UNCHANGED <<timeouts, drops>>

\* A 409 is not retried: the session ends with an error and the process is
\* started again.
Abort(i) ==
    /\ calls[i].heard /\ calls[i].stage = "conflict"
    /\ Resume
    /\ UNCHANGED faults

-----------------------------------------------------------------------------
(* Other transactions of the control plane                                 *)

\* enqueue_cancellation_command_in_transaction for an active attempt
EnqueueCancel(l) ==
    /\ l \in live
    /\ \A q \in DOMAIN outbox : outbox[q].kind = "cancel" => outbox[q].lease # l
    /\ outbox' = Append(outbox, [kind |-> "cancel", lease |-> l, revoked |-> FALSE])
    /\ UNCHANGED <<requestRows, acked, ended, runner, calls, faults>>

\* The clock passes the expiry the lease was granted with.
Expire(l) ==
    /\ l \in DOMAIN leases /\ l \notin overdue /\ Cardinality(overdue) < MaxExpired
    /\ overdue' = overdue \cup {l}
    /\ UNCHANGED <<concluded, requestRows, outbox, acked, runner, calls, faults>>

\* The maintenance pass takes the lease back.
Reap(l) ==
    /\ l \in live \cap overdue
    /\ live' = live \ {l}
    /\ UNCHANGED <<head, claim, receipt, leases, outbox, acked, ended, runner, calls, faults>>

PollNext ==
    \/ \E i \in Callers : \/ Handle(i) \/ Deliver(i) \/ RetryLater(i) \/ Discard(i)
                          \/ Timeout(i) \/ Drop(i) \/ Abort(i)
    \/ \E s \in Slots : \/ SendPoll(s) \/ SendBeat(s) \/ SendAck(s) \/ FlushDone(s)
                        \/ TakeNothing(s) \/ TakeCommand(s) \/ Conclude(s) \/ Release(s)
    \/ \E l \in DOMAIN leases : EnqueueCancel(l) \/ Expire(l) \/ Reap(l)
    \/ Restart

\* Executions and slot loops keep running; timeouts, restarts, expiry, the
\* end of a job and cancellation are never required.
PollSpec ==
    /\ PollInit /\ [][PollNext]_pollVars
    /\ \A i \in Callers : WF_pollVars(Handle(i)) /\ WF_pollVars(Deliver(i))
                       /\ WF_pollVars(RetryLater(i)) /\ WF_pollVars(Discard(i))
    /\ \A s \in Slots : WF_pollVars(SendPoll(s)) /\ WF_pollVars(SendAck(s))
                     /\ WF_pollVars(FlushDone(s)) /\ WF_pollVars(TakeNothing(s))
                     /\ WF_pollVars(TakeCommand(s))

-----------------------------------------------------------------------------
(* Properties                                                              *)

Calls == [kind : {"none", "poll", "ack", "beat"}, op : 0..(2 * MaxLease + MaxOp),
          stage : Running \cup Ended \cup {"idle"}, resp : Cursors \cup {None}, heard : BOOLEAN]

PollTypeOK ==
    /\ head \in [Slots -> 0..MaxOp]
    /\ claim \in [Slots -> {None} \cup (0..MaxLease)]
    /\ receipt \in [Slots -> {None} \cup Cursors]
    /\ DOMAIN outbox \subseteq Cursors
    /\ \A q \in DOMAIN outbox :
          outbox[q] \in [kind : {"offer", "cancel"}, lease : DOMAIN leases, revoked : BOOLEAN]
    /\ \A l \in DOMAIN leases : leases[l] \in [slot : Slots, op : 1..MaxOp]
    /\ live \subseteq DOMAIN leases /\ overdue \subseteq DOMAIN leases
    /\ concluded \subseteq DOMAIN leases \ live
    /\ acked <= Len(outbox) /\ jcursor <= Len(outbox) /\ sent <= jcursor
    /\ \A s \in Slots : jop[s] \in {head[s], head[s] + 1}
    /\ jslot \in [Slots -> {0} \cup DOMAIN leases]
    /\ ignored \subseteq 1..jcursor
    /\ phase \in [Slots -> {"poll", "flush", "run"}]
    /\ reply \in [Slots -> {None} \cup Cursors]
    /\ flusher \in Slots \cup {NoSlot}
    /\ calls \in [Callers -> Calls]

\* A lease request is granted at most one lease and publishes at most one
\* offer, however many executions of it run at once (runner_operation_receipts
\* and the publication's primary key, read under the request's head).
OneLeasePerRequest ==
    /\ \A l, m \in DOMAIN leases : leases[l] = leases[m] => l = m
    /\ \A p, q \in DOMAIN outbox : Offer(p) /\ Offer(q) /\ outbox[p].lease = outbox[q].lease => p = q

\* Every answer to the current request agrees with its stored receipt: it is
\* the stored response, or no work once the stored offer has been revoked
\* (complete_lease_request and load_generic_receipt).  So two executions of
\* one request never answer with different commands.
AnswersAgree ==
    \A i \in Callers :
        calls[i].kind = "poll" /\ calls[i].stage = "reply" /\ calls[i].op = head[i[1]] =>
            LET stored == receipt[i[1]] IN
            /\ stored # None
            /\ \/ calls[i].resp = stored
               \/ calls[i].resp = 0 /\ Offer(stored) /\ outbox[stored].revoked

OffersFindTheirSlot ==
    \A q \in DOMAIN outbox :
        LET s == RequestOf(q).slot IN
        Offer(q) /\ outbox[q].lease \in live /\ jslot[s] \in live => jslot[s] = outbox[q].lease

RecordedIsHeld ==
    \A q \in 1..jcursor :
        Offer(q) /\ outbox[q].lease \in live =>
            jslot[RequestOf(q).slot] = outbox[q].lease \/ q \in ignored

\* The journal and the store agree on what was requested and delivered.  Every
\* row and journal field keeps its type, and the journal's checkpoint is at most
\* one request ahead of the head that the store holds (PollTypeOK).  The offer of
\* an active attempt never finds its slot taken by another active attempt: the
\* runner ignores it (record_lease_offer, SlotUnavailable) only where the slot's
\* own attempt has ended and the slot is not yet released.  A recorded offer
\* whose attempt is still active is in its slot unless it was ignored so.  The
\* store's cursor is never ahead of the journal's, which a resumed session would
\* be refused for, and with which the payloads of unrecorded commands would
\* be erased.
JournalAgrees ==
    /\ PollTypeOK
    /\ OffersFindTheirSlot
    /\ RecordedIsHeld
    /\ acked <= jcursor

\* A retry is refused with a conflict, which the runner does not repeat, only
\* when a lease ran out: whatever executions of a request and of its
\* predecessor are still under way, wherever they ended and however often the
\* request was sent, the lease of that very request has passed its expiry
\* (begin_lease_request and require_current_lease_offer_claim).
RefusedAfterExpiry ==
    \A i \in Callers :
        calls[i].heard /\ calls[i].stage = "conflict" =>
            \E l \in overdue : leases[l] = [slot |-> i[1], op |-> calls[i].op]

\* The offer of request n of slot s was carried to the runner by the exchange
\* of another slot and acknowledged there, which erased its payload.
AcknowledgedElsewhere(s, n) ==
    \E q \in 1..acked : Offer(q) /\ RequestOf(q) = [slot |-> s, op |-> n]

\* Every lease request is eventually answered and the slot's checkpoint moves
\* to its successor, with one exception: a request whose own offer reached the
\* runner through another slot's exchange is answered as unavailable while the
\* lease lasts (load_generic_receipt, OfferExists).
PollAnswered ==
    \A s \in Slots : \A n \in 1..MaxOp :
        (phase[s] = "poll" /\ jop[s] = n) ~> (jop[s] > n \/ AcknowledgedElsewhere(s, n))

\* A command the runner has received is eventually recorded.
CommandRecorded ==
    \A s \in Slots : (reply[s] > 0) ~> (reply[s] <= 0)
=============================================================================
