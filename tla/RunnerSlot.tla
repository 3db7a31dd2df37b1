------------------------------ MODULE RunnerSlot ------------------------------
(***************************************************************************)
(* One accepted slot of one runner, from its execution to its release: the *)
(* journal record of the slot, the content-addressed spool, the sandbox,   *)
(* the executor that writes the log, the tasks that send it, the terminal  *)
(* result, and the recovery of all of it after a crash or under the orphan *)
(* authority that a closed session gives.                                  *)
(*                                                                         *)
(* A log record is the number of its emission; a spool object is the       *)
(* sequence of the records in it.  End is the record that closes the       *)
(* stream and ResultObject the object of the terminal result.              *)
(***************************************************************************)
EXTENDS Integers, Sequences, SequencesExt, FiniteSets

CONSTANTS
  MaxRecords,   \* bound: records that the executor emits, over all its starts
  SegmentCap,   \* frames that fit one segment (max_log_frames_per_batch)
  MaxSegments,  \* MAX_LOG_SEGMENTS_PER_SLOT
  Calls,        \* bound: executions of a log batch that the server can hold
  MaxFaults     \* bound: crashes, timeouts and failures of the provider

ASSUME RunnerSlotAssumption ==
  /\ MaxRecords \in Nat
  /\ SegmentCap \in Nat \ {0}
  /\ MaxSegments \in Nat \ {0}
  /\ MaxFaults \in Nat
  /\ Calls \subseteq Nat \ {0}

VARIABLES
  slot,     \* the slot in the runner's journal (durable)
  spool,    \* the objects of the spool (durable)
  engine,   \* whether the sandbox exists at the provider
  proc,     \* the runner process: where the slot loop and the executor are
  emit,     \* the emission of a log record (a blocking call)
  flush,    \* the delivery of the head segment
  late,     \* a blocking task whose caller has gone
  server,   \* the control plane's rows for the attempt
  calls,    \* the executions of log batches at the control plane
  tally     \* emissions begun, records reported durable, faults used

vars == <<slot, spool, engine, proc, emit, flush, late, server, calls, tally>>

End == MaxRecords + 1
ResultObject == <<0>>

NoEmit == [at |-> "no", rec |-> 0, tail |-> <<>>, moved |-> FALSE]
NoFlush == [at |-> "no", obj |-> <<>>, first |-> 0, call |-> 0]
NoLate == [at |-> "no", obj |-> <<>>, first |-> 0]
IdleCall == [at |-> "idle", obj |-> <<>>, first |-> 0]
Restarted == [stage |-> "hello", signal |-> "none", exec |-> "off", clean |-> "no"]

-----------------------------------------------------------------------------
(* The journal's view of the slot.                                          *)

Terminal == {"Terminal", "Lost"}

Frames(segs) == FlattenSeq([i \in DOMAIN segs |-> segs[i].obj])

\* The segment that new frames may still join: the last one while unsealed.
HasOpen == slot.segs # <<>> /\ ~Last(slot.segs).sealed
OpenTail == IF HasOpen THEN Last(slot.segs).obj ELSE <<>>

FullyDelivered == slot.eos /\ slot.segs = <<>>

Seal(segs) ==
  [i \in DOMAIN segs |-> [segs[i] EXCEPT !.sealed = @ \/ i = Len(segs)]]

\* What the journal still refers to; nothing else may leave the spool.
References ==
  IF slot.held
  THEN {slot.segs[i].obj : i \in DOMAIN slot.segs}
       \cup (IF slot.result = "none" THEN {} ELSE {ResultObject})
  ELSE {}

\* The content gate: sections that publish, acknowledge or reconcile content
\* exclude each other.
GateFree ==
  /\ emit.at \notin {"persisted", "adopted"}
  /\ flush.at # "removing"
  /\ late.at # "removing"
  /\ proc.stage # "recording"

\* The deliveries that orphan recovery has to abandon.
PendingDeliveries ==
  (IF slot.result = "recorded" THEN {"result"} ELSE {})
  \cup (IF slot.opened /\ ~FullyDelivered THEN {"log"} ELSE {})

\* Mutant: a provider operation whose outcome is unknown does not hold the slot.
ReleaseUnresolved ==
  /\ slot.life \in Terminal
  /\ ~slot.box
  /\ (slot.opened /\ ~FullyDelivered) => "log" \in slot.abandoned
  /\ \/ slot.result = "acked"
     \/ slot.orphan /\ ("result" \in slot.abandoned \/ slot.result = "none")

ReleaseAllowed ==
  /\ slot.life \in Terminal
  /\ slot.op = "none"
  /\ ~slot.box
  /\ (slot.opened /\ ~FullyDelivered) => "log" \in slot.abandoned
  /\ \/ slot.result = "acked"
     \/ slot.orphan /\ ("result" \in slot.abandoned \/ slot.result = "none")

\* A create whose outcome nobody knows and that left no handle to destroy.
LostCustody == slot.op = "create" /\ ~slot.box

-----------------------------------------------------------------------------
(* The control plane's view of the attempt.                                 *)

SessionLive == server.session = "live"
AttemptActive == SessionLive /\ server.lease # "expired" /\ ~server.result

Through(b) == b.first + Len(b.obj) - 1
Span(b) == <<b.first, Through(b)>>

\* lock_runner_log_position: the stream is open and the batch comes next.
PositionOpen(b) ==
  /\ b.first = Len(server.stored) + 1
  /\ server.stored # <<>> => Last(server.stored) # End

-----------------------------------------------------------------------------
Init ==
  /\ slot = [held |-> TRUE, life |-> "Preparing", op |-> "none", box |-> FALSE,
             cancel |-> FALSE, opened |-> FALSE, segs |-> <<>>, acked |-> 0,
             eos |-> FALSE, result |-> "none", orphan |-> FALSE,
             abandoned |-> {}]
  /\ spool = {}
  /\ engine = FALSE
  /\ proc = Restarted
  /\ emit = NoEmit
  /\ flush = NoFlush
  /\ late = NoLate
  /\ server = [stored |-> <<>>, receipts |-> {}, result |-> FALSE,
               posted |-> FALSE, lease |-> "live", session |-> "live"]
  /\ calls = [c \in Calls |-> IdleCall]
  /\ tally = [made |-> 0, told |-> {}, faults |-> 0]

\* The process ends, by a crash or by an error that the supervisor returns, and
\* is started again.  Its blocking tasks end with it, and executions of its calls
\* go on unheard.
ProcessEnds ==
  /\ proc' = Restarted
  /\ emit' = NoEmit
  /\ flush' = NoFlush
  /\ late' = NoLate

\* The future that drives the delivery is dropped.  Its exchange is lost, but
\* a blocking task that it has started runs to its end.
DropDelivery ==
  /\ flush' = NoFlush
  /\ \/ /\ flush.at \in {"acking", "removing"}
        /\ late' = [at |-> flush.at, obj |-> flush.obj, first |-> flush.first]
     \/ /\ flush.at = "no" /\ HasOpen /\ late.at = "no"
        /\ late' = [NoLate EXCEPT !.at = "load"]
     \/ /\ flush.at \notin {"acking", "removing"}
        /\ late' = late

Faulty ==
  /\ tally.faults < MaxFaults
  /\ tally' = [tally EXCEPT !.faults = @ + 1]

-----------------------------------------------------------------------------
(* The handshake and what the slot loop does with the slot it finds.        *)

Stage(s) == [proc EXCEPT !.stage = s]

\* The executor takes up only a job that has not left Preparing.
ExecutorStart == IF slot.life = "Preparing" THEN "start" ELSE "failed"

\* finish_terminal_slot on a slot found terminal.
ResumeTerminal ==
  CASE slot.result # "acked" /\ server.lease # "live" -> Stage("contained")
    [] (slot.result = "acked" \/ server.lease = "live") /\ LostCustody -> Restarted
    [] OTHER -> Stage("backlog")

\* slot_loop: what a resumed session does with the slot it finds.
Dispatch ==
  CASE ~slot.held -> Stage("idle")
    [] slot.held /\ slot.life \in Terminal -> ResumeTerminal
    [] slot.held /\ slot.life \notin Terminal /\ slot.cancel -> Stage("commit")
    [] OTHER -> [Stage("run") EXCEPT !.exec = ExecutorStart]

\* handshake: the session is resumed and the spool keeps what is referred to.
Resume ==
  /\ proc.stage = "hello"
  /\ slot.held => ~slot.orphan
  /\ slot.held => SessionLive
  /\ GateFree
  /\ References \subseteq spool
  /\ spool' = References
  /\ proc' = Dispatch
  /\ UNCHANGED <<slot, engine, emit, flush, late, server, calls, tally>>

\* handshake: the session cannot be resumed, and the rejection authorizes the
\* runner to give the slot up.
AuthorizeOrphan ==
  /\ proc.stage = "hello"
  /\ slot.held /\ ~slot.orphan
  /\ ~SessionLive
  /\ slot' = [slot EXCEPT !.orphan = TRUE, !.cancel = FALSE,
                          !.life = IF @ \in Terminal THEN @ ELSE "Lost"]
  /\ proc' = Stage("orphan")
  /\ UNCHANGED <<spool, engine, emit, flush, late, server, calls, tally>>

\* reconcile_authorized: a slot that was given up before a restart.
ResumeOrphan ==
  /\ proc.stage = "hello"
  /\ slot.held /\ slot.orphan
  /\ proc' = Stage("orphan")
  /\ UNCHANGED <<slot, spool, engine, emit, flush, late, server, calls, tally>>

\* reconcile_slot abandons the result first, then the log.
AbandonDelivery ==
  /\ proc.stage = "orphan" /\ proc.clean = "no"
  /\ \E d \in PendingDeliveries \ slot.abandoned :
       /\ d = "log" => "result" \notin PendingDeliveries \ slot.abandoned
       /\ slot' = [slot EXCEPT !.abandoned = @ \cup {d}]
  /\ UNCHANGED <<spool, engine, proc, emit, flush, late, server, calls, tally>>

\* The last step of reconcile_slot; a refused release ends the process.
ReleaseOrphan ==
  /\ proc.stage = "orphan" /\ proc.clean = "no"
  /\ PendingDeliveries \subseteq slot.abandoned
  /\ ~slot.box
  /\ \/ /\ ReleaseAllowed
        /\ slot' = [slot EXCEPT !.held = FALSE, !.segs = <<>>]
        /\ proc' = Stage("hello")
        /\ UNCHANGED <<emit, flush, late>>
     \/ /\ ~ReleaseAllowed
        /\ ProcessEnds
        /\ UNCHANGED slot
  /\ UNCHANGED <<spool, engine, server, calls, tally>>

-----------------------------------------------------------------------------
(* The executor and the sandbox.                                            *)

Executing == proc.stage = "run" /\ emit.at = "no"

\* obtain_endpoint, the intent: a pending create keeps its operation id.
CreateIntent ==
  /\ Executing /\ proc.exec = "start"
  /\ ~slot.box
  /\ \/ /\ slot.op = "create" \/ slot.life = "Preparing"
        /\ slot' = [slot EXCEPT !.op = "create"]
        /\ proc' = [proc EXCEPT !.exec = "creating"]
     \/ /\ slot.op # "create" /\ slot.life # "Preparing"
        /\ proc' = [proc EXCEPT !.exec = "failed"]
        /\ UNCHANGED slot
  /\ UNCHANGED <<spool, engine, emit, flush, late, server, calls, tally>>

CreateSandbox ==
  /\ proc.exec = "creating"
  /\ engine' = TRUE
  /\ proc' = [proc EXCEPT !.exec = "created"]
  /\ UNCHANGED <<slot, spool, emit, flush, late, server, calls, tally>>

\* A create that fails: without an effect, uncertain with a handle that goes
\* into the journal, or uncertain without one (the operation stays pending).
CreateFails ==
  /\ proc.exec = "creating"
  /\ Faulty
  /\ \/ /\ ~engine
        /\ slot' = [slot EXCEPT !.op = "none"]
        /\ UNCHANGED engine
     \/ /\ slot' = [slot EXCEPT !.op = "none", !.box = TRUE]
        /\ engine' \in {engine, TRUE}
     \/ /\ engine' \in {engine, TRUE}
        /\ UNCHANGED slot
  /\ proc' = [proc EXCEPT !.exec = "failed"]
  /\ UNCHANGED <<spool, emit, flush, late, server, calls>>

SandboxCreated ==
  /\ proc.exec = "created"
  /\ slot' = [slot EXCEPT !.op = "none", !.box = TRUE]
  /\ proc' = [proc EXCEPT !.exec = "ready"]
  /\ UNCHANGED <<spool, engine, emit, flush, late, server, calls, tally>>

RecoverSandbox ==
  /\ Executing /\ proc.exec = "start"
  /\ slot.box
  /\ proc' = [proc EXCEPT !.exec = "ready"]
  /\ UNCHANGED <<slot, spool, engine, emit, flush, late, server, calls, tally>>

\* transition_running; a cancellation that came first makes it fail.
BeginRunning ==
  /\ Executing /\ proc.exec = "ready"
  /\ \/ /\ slot.life = "Preparing"
        /\ slot' = [slot EXCEPT !.life = "Running"]
        /\ proc' = [proc EXCEPT !.exec = "working"]
     \/ /\ slot.life # "Preparing"
        /\ proc' = [proc EXCEPT !.exec = "failed"]
        /\ UNCHANGED slot
  /\ UNCHANGED <<spool, engine, emit, flush, late, server, calls, tally>>

EmitRecord ==
  /\ Executing
  /\ proc.exec \in {"start", "working"}
  /\ tally.made < MaxRecords
  /\ tally' = [tally EXCEPT !.made = @ + 1]
  /\ emit' = [NoEmit EXCEPT !.at = "loading", !.rec = tally.made + 1]
  /\ UNCHANGED <<slot, spool, engine, proc, flush, late, server, calls>>

\* What follows the executor's end, by the reason it was stopped for.
AfterExecution ==
  CASE proc.signal = "lease" -> "contained"
    [] proc.signal = "session" -> "hello"
    [] OTHER -> "commit"

\* The executor returns (with or without having been told to stop) and the
\* control cycle that was flushing the log is dropped.
FinishExecution ==
  /\ Executing
  /\ proc.exec \in {"start", "ready", "working", "failed"}
  /\ IF proc.signal = "fail"
     THEN ProcessEnds
     ELSE /\ proc' = [Restarted EXCEPT !.stage = AfterExecution]
          /\ DropDelivery
          /\ UNCHANGED emit
  /\ UNCHANGED <<slot, spool, engine, server, calls, tally>>

Stop(reason) ==
  /\ proc.stage = "run" /\ proc.signal = "none"
  /\ proc' = [proc EXCEPT !.signal = reason]
  /\ DropDelivery

\* A cancellation command reaches the runner, on any exchange of any slot.
Cancel ==
  /\ SessionLive
  /\ proc.stage \in {"run", "commit", "recording", "contained"}
  /\ ~slot.cancel
  /\ slot.life \in {"Preparing", "Running"}
  /\ slot' = [slot EXCEPT !.cancel = TRUE, !.life = "Cancelling"]
  /\ \/ Stop("stop")
     \/ /\ proc.stage # "run" \/ proc.signal # "none"
        /\ UNCHANGED <<proc, flush, late>>
  /\ UNCHANGED <<spool, engine, emit, server, calls, tally>>

\* The journal refuses a cancellation that falls between Finalizing and the
\* terminal result, and the supervisor returns the error.
CancelRefused ==
  /\ SessionLive
  /\ proc.stage \in {"run", "commit", "recording", "contained"}
  /\ ~slot.cancel
  /\ slot.life = "Finalizing"
  /\ Faulty
  /\ ProcessEnds
  /\ UNCHANGED <<slot, spool, engine, server, calls>>

-----------------------------------------------------------------------------
(* The emission of one record (emit_log_serialized).                        *)

\* A turn of the loop: the delivery generation is read before the tail.
EmitTurn == [emit EXCEPT !.at = "loading", !.tail = <<>>, !.moved = FALSE]

EmitFails ==
  /\ emit' = NoEmit
  /\ proc' = IF proc.exec = "off" THEN proc ELSE [proc EXCEPT !.exec = "failed"]

\* load_open_log_tail opens the stream on first use.
EmitLoad ==
  /\ emit.at = "loading"
  /\ GateFree
  /\ \/ /\ slot.held
        /\ slot.opened \/ ~slot.orphan
        /\ slot' = [slot EXCEPT !.opened = TRUE]
        /\ \/ /\ emit' = [emit EXCEPT !.at = "loaded", !.tail = OpenTail]
              /\ Len(OpenTail) < SegmentCap
           \/ /\ emit' = [emit EXCEPT !.at = "full", !.tail = OpenTail]
              /\ OpenTail # <<>>
        /\ UNCHANGED proc
     \/ /\ slot.held => (~slot.opened /\ slot.orphan)
        /\ EmitFails
        /\ UNCHANGED slot
  /\ UNCHANGED <<spool, engine, flush, late, server, calls, tally>>

\* seal_open_segment: the record does not fit, so the tail is closed; a tail
\* that has changed meanwhile is no error.
EmitSeal ==
  /\ emit.at = "full"
  /\ GateFree
  /\ slot' = IF slot.segs # <<>> /\ Last(slot.segs).obj = emit.tail
             THEN [slot EXCEPT !.segs = Seal(@)] ELSE slot
  /\ emit' = EmitTurn
  /\ UNCHANGED <<spool, engine, proc, flush, late, server, calls, tally>>

Candidate == Append(emit.tail, emit.rec)

\* Mutant: the open segment is rewritten in place.
EmitPersistInPlace ==
  /\ emit.at = "loaded"
  /\ GateFree
  /\ spool' = (spool \ {emit.tail}) \cup {Candidate}
  /\ emit' = [emit EXCEPT !.at = "persisted"]
  /\ UNCHANGED <<slot, engine, proc, flush, late, server, calls, tally>>

EmitPersist ==
  /\ emit.at = "loaded"
  /\ GateFree
  /\ spool' = spool \cup {Candidate}
  /\ emit' = [emit EXCEPT !.at = "persisted"]
  /\ UNCHANGED <<slot, engine, proc, flush, late, server, calls, tally>>

\* Mutant: a segment that was sealed meanwhile is extended.
TailSameContent ==
  emit.tail # <<>> => slot.segs # <<>> /\ Last(slot.segs).obj = emit.tail

\* record_segment: the tail that was read is still the open segment.
TailUnchanged == emit.tail # <<>> => OpenTail = emit.tail

SegmentsWith(obj) ==
  LET seg == [obj |-> obj, sealed |-> Last(obj) = End]
  IN IF emit.tail # <<>>
     THEN [slot.segs EXCEPT ![Len(slot.segs)] = seg]
     ELSE Append(slot.segs, seg)

\* The journal adopts the object, or leaves it to a later reconciliation: the
\* tail has changed (read it again), the backlog is at its limit of segments or
\* of bytes, which are not counted here (wait for a delivery), or the slot was
\* given up (an error).
EmitAdopt ==
  /\ emit.at = "persisted"
  /\ \/ /\ slot.held /\ ~slot.orphan /\ TailUnchanged
        /\ emit.tail = <<>> => Len(slot.segs) < MaxSegments
        /\ slot' = [slot EXCEPT !.segs = SegmentsWith(Candidate),
                                !.eos = emit.rec = End]
        /\ emit' = [emit EXCEPT !.at = "adopted"]
        /\ UNCHANGED proc
     \/ /\ slot.held /\ ~slot.orphan /\ ~TailUnchanged
        /\ emit' = EmitTurn
        /\ UNCHANGED <<slot, proc>>
     \/ /\ slot.held /\ ~slot.orphan /\ TailUnchanged
        /\ slot.segs # <<>>
        /\ emit' = [emit EXCEPT !.at = "waiting"]
        /\ UNCHANGED <<slot, proc>>
     \/ /\ ~slot.held \/ slot.orphan
        /\ EmitFails
        /\ UNCHANGED slot
  /\ UNCHANGED <<spool, engine, flush, late, server, calls, tally>>

\* The replaced object goes, and the emission returns.
EmitDone ==
  /\ emit.at = "adopted"
  /\ spool' = spool \ ({emit.tail} \ References)
  /\ tally' = [tally EXCEPT !.told = @ \cup {emit.rec}]
  /\ emit' = NoEmit
  /\ UNCHANGED <<slot, engine, proc, flush, late, server, calls>>

\* wait_for_log_delivery_progress ends by progress or by the signal to stop.
EmitWait ==
  /\ emit.at = "waiting"
  /\ \/ /\ emit.moved
        /\ emit' = EmitTurn
        /\ UNCHANGED proc
     \/ /\ ~emit.moved
        /\ proc.signal # "none"
        /\ EmitFails
  /\ UNCHANGED <<slot, spool, engine, flush, late, server, calls, tally>>

-----------------------------------------------------------------------------
(* The delivery of the log (flush_log_batch).                               *)

Delivering ==
  \/ proc.stage \in {"backlog", "drain"}
  \/ proc.stage = "run" /\ proc.signal = "none"

\* load_pending_log_batch seals the open tail and takes the head, in one
\* section of the gate.
FlushLoad ==
  /\ Delivering /\ flush.at = "no" /\ GateFree
  /\ slot.segs # <<>>
  /\ Head(slot.segs).obj \in spool
  /\ slot' = [slot EXCEPT !.segs = Seal(@)]
  /\ flush' = [at |-> "sent", obj |-> Head(slot.segs).obj,
               first |-> slot.acked + 1, call |-> 0]
  /\ UNCHANGED <<spool, engine, proc, emit, late, server, calls, tally>>

\* Mutant: the stream is not closed before the sandbox is removed.
FlushCaughtUpUnclosed ==
  /\ proc.stage \in {"backlog", "drain"} /\ flush.at = "no" /\ GateFree
  /\ slot.segs = <<>>
  /\ proc' = [proc EXCEPT !.stage = "cleanup"]
  /\ UNCHANGED <<slot, spool, engine, emit, flush, late, server, calls, tally>>

\* The backlog is empty: close the stream, or go on once it is closed.
FlushCaughtUp ==
  /\ proc.stage \in {"backlog", "drain"} /\ flush.at = "no" /\ GateFree
  /\ slot.segs = <<>>
  /\ proc' = Stage(IF proc.stage = "backlog" THEN "close" ELSE "cleanup")
  /\ UNCHANGED <<slot, spool, engine, emit, flush, late, server, calls, tally>>

\* exchange_exact sends the same request as often as it has to.
FlushCall ==
  /\ Delivering /\ flush.at = "sent" /\ flush.call = 0
  /\ \E c \in Calls :
       /\ calls[c].at = "idle"
       /\ \A d \in Calls : d < c => calls[d].at # "idle"
       /\ calls' = [calls EXCEPT ![c] = [at |-> "called", obj |-> flush.obj,
                                         first |-> flush.first]]
       /\ flush' = [flush EXCEPT !.call = c]
  /\ UNCHANGED <<slot, spool, engine, proc, emit, late, server, tally>>

FlushTimeout ==
  /\ flush.call # 0
  /\ Faulty
  /\ flush' = [flush EXCEPT !.call = 0]
  /\ UNCHANGED <<slot, spool, engine, proc, emit, late, server, calls>>

\* What an execution answers, and what the runner hears of it.
Answered(c, answer) ==
  /\ calls' = [calls EXCEPT ![c] = IdleCall]
  /\ flush' = IF flush.call = c THEN [flush EXCEPT !.at = answer, !.call = 0]
              ELSE flush

HasReceipt(c) == Span(calls[c]) \in server.receipts

\* handle_log_batch looks for a receipt, then admits the position, then puts
\* the object and commits: three transactions with nothing held in between.
LookupReceipt(c) ==
  /\ calls[c].at = "called"
  /\ \/ ~SessionLive /\ Answered(c, "stale")
     \/ SessionLive /\ HasReceipt(c) /\ Answered(c, "acking")
     \/ /\ SessionLive /\ ~HasReceipt(c)
        /\ calls' = [calls EXCEPT ![c].at = "fresh"]
        /\ UNCHANGED flush
  /\ UNCHANGED <<slot, spool, engine, proc, emit, late, server, tally>>

AdmitSegment(c) ==
  /\ calls[c].at = "fresh"
  /\ \/ ~SessionLive /\ Answered(c, "stale")
     \/ /\ SessionLive /\ ~(AttemptActive /\ PositionOpen(calls[c]))
        /\ Answered(c, "refused")
     \/ /\ AttemptActive /\ PositionOpen(calls[c])
        /\ calls' = [calls EXCEPT ![c].at = "admitted"]
        /\ UNCHANGED flush
  /\ UNCHANGED <<slot, spool, engine, proc, emit, late, server, tally>>

\* The commit replays a receipt only for an execution that read the clock in
\* the same millisecond as the one that stored the segment (stored_at).
CommitSegment(c) ==
  /\ calls[c].at = "admitted"
  /\ \/ ~SessionLive /\ Answered(c, "stale") /\ UNCHANGED server
     \/ /\ SessionLive /\ HasReceipt(c)
        /\ \E answer \in {"acking", "refused"} : Answered(c, answer)
        /\ UNCHANGED server
     \/ /\ SessionLive /\ ~HasReceipt(c)
        /\ ~(AttemptActive /\ PositionOpen(calls[c]))
        /\ Answered(c, "refused")
        /\ UNCHANGED server
     \/ /\ AttemptActive /\ ~HasReceipt(c) /\ PositionOpen(calls[c])
        /\ server' = [server EXCEPT !.stored = @ \o calls[c].obj,
                                    !.receipts = @ \cup {Span(calls[c])}]
        /\ Answered(c, "acking")
  /\ UNCHANGED <<slot, spool, engine, proc, emit, late, tally>>

\* acknowledge_segment: the head is acknowledged, or was by the last
\* acknowledgement; an older one is refused, which only a task without a caller
\* can meet.
AcknowledgesHead(b) ==
  /\ slot.held /\ slot.segs # <<>>
  /\ Head(slot.segs).sealed /\ Head(slot.segs).obj = b.obj
  /\ slot.acked + 1 = b.first

AcknowledgedLast(b) == slot.held /\ slot.acked = Through(b)

\* Mutant: the cursor counts segments where it has to count frames.
WithoutHeadOfOne(b) == [slot EXCEPT !.segs = Tail(@), !.acked = b.first]

WithoutHead(b) == [slot EXCEPT !.segs = Tail(@), !.acked = Through(b)]

\* Mutant: an acknowledgement takes whatever segment is the head.
AcknowledgeAnyHead(b) ==
  /\ slot' = IF slot.held /\ slot.segs # <<>>
             THEN [slot EXCEPT !.segs = Tail(@),
                               !.acked = @ + Len(Head(slot.segs).obj)]
             ELSE slot
  /\ emit' = [emit EXCEPT !.moved = emit.at # "no"]

\* Mutant: nobody tells the emission that waits for room.
AcknowledgeQuietly(b) ==
  /\ slot' = IF AcknowledgesHead(b) THEN WithoutHead(b) ELSE slot
  /\ emit' = emit

\* The journal, then the notification of emissions that wait for room.
Acknowledge(b) ==
  /\ slot' = IF AcknowledgesHead(b) THEN WithoutHead(b) ELSE slot
  /\ emit' = [emit EXCEPT !.moved =
                @ \/ (emit.at # "no"
                      /\ (AcknowledgesHead(b) \/ AcknowledgedLast(b)))]

FlushAck ==
  /\ flush.at = "acking" /\ GateFree
  /\ Acknowledge(flush)
  /\ flush' = [flush EXCEPT !.at = "removing"]
  /\ UNCHANGED <<spool, engine, proc, late, server, calls, tally>>

FlushRemove ==
  /\ flush.at = "removing"
  /\ spool' = spool \ ({flush.obj} \ References)
  /\ flush' = NoFlush
  /\ UNCHANGED <<slot, engine, proc, emit, late, server, calls, tally>>

\* A refusal is final for the transport, and the supervisor returns it; a
\* stale session makes it negotiate again.
FlushEnds ==
  /\ flush.at \in {"refused", "stale"}
  /\ flush' = NoFlush
  /\ \/ /\ proc.stage = "run"
        /\ proc' = [proc EXCEPT !.signal =
                      IF flush.at = "refused" THEN "fail" ELSE "session"]
        /\ UNCHANGED <<emit, late>>
     \/ /\ proc.stage # "run" /\ flush.at = "refused"
        /\ proc' = Restarted /\ emit' = NoEmit /\ late' = NoLate
     \/ /\ proc.stage # "run" /\ flush.at = "stale"
        /\ proc' = Stage("hello")
        /\ UNCHANGED <<emit, late>>
  /\ UNCHANGED <<slot, spool, engine, server, calls, tally>>

\* A blocking task whose caller was dropped.
LateTask ==
  /\ \/ /\ late.at = "load" /\ GateFree
        /\ slot' = IF HasOpen THEN [slot EXCEPT !.segs = Seal(@)] ELSE slot
        /\ late' = NoLate
        /\ UNCHANGED <<spool, emit>>
     \/ /\ late.at = "acking" /\ GateFree
        /\ Acknowledge(late)
        /\ late' = [late EXCEPT !.at = "removing"]
        /\ UNCHANGED spool
     \/ /\ late.at = "removing"
        /\ spool' = spool \ ({late.obj} \ References)
        /\ late' = NoLate
        /\ UNCHANGED <<slot, emit>>
  /\ UNCHANGED <<engine, proc, flush, server, calls, tally>>

-----------------------------------------------------------------------------
(* The terminal result and the release of the slot.                         *)

\* commit_terminal_result: Finalizing (but not from Preparing), the object ...
PersistResult ==
  /\ proc.stage = "commit" /\ GateFree
  /\ slot' = [slot EXCEPT !.life =
                IF @ \in {"Running", "Cancelling"} THEN "Finalizing" ELSE @]
  /\ spool' = spool \cup {ResultObject}
  /\ proc' = Stage("recording")
  /\ UNCHANGED <<engine, emit, flush, late, server, calls, tally>>

\* ... and the record.  A cancellation that came in between moved Preparing to
\* Cancelling, from where Skipped is no transition.  finish_terminal_slot_delivery
\* begins with the check of the sandbox's custody.
RecordResult ==
  /\ proc.stage = "recording"
  /\ \/ /\ slot' = [slot EXCEPT !.life = "Terminal", !.result = "recorded",
                                !.cancel = FALSE]
        /\ IF LostCustody THEN ProcessEnds
           ELSE proc' = Stage("backlog") /\ UNCHANGED <<emit, flush, late>>
     \/ /\ slot.life = "Cancelling"
        /\ ProcessEnds
        /\ UNCHANGED slot
  /\ UNCHANGED <<spool, engine, server, calls, tally>>

\* ensure_terminal_log_stream_closed, with a blocking emission of the end.
CloseBegin ==
  /\ proc.stage = "close" /\ emit.at = "no"
  /\ ~slot.eos
  /\ emit' = [NoEmit EXCEPT !.at = "loading", !.rec = End]
  /\ UNCHANGED <<slot, spool, engine, proc, flush, late, server, calls, tally>>

CloseDone ==
  /\ proc.stage = "close" /\ emit.at = "no"
  /\ slot.eos
  /\ proc' = Stage("drain")
  /\ UNCHANGED <<slot, spool, engine, emit, flush, late, server, calls, tally>>

Cleaning ==
  /\ proc.stage \in {"cleanup", "contained", "orphan"}
  /\ proc.stage = "orphan" => PendingDeliveries \subseteq slot.abandoned
  /\ slot.box

\* cleanup_sandbox: the intent, the provider, the journal.
DestroyIntent ==
  /\ Cleaning /\ proc.clean = "no"
  /\ slot' = [slot EXCEPT !.op = "destroy"]
  /\ proc' = [proc EXCEPT !.clean = "begun"]
  /\ UNCHANGED <<spool, engine, emit, flush, late, server, calls, tally>>

DestroySandbox ==
  /\ proc.clean = "begun"
  /\ engine' = FALSE
  /\ proc' = [proc EXCEPT !.clean = "destroyed"]
  /\ UNCHANGED <<slot, spool, emit, flush, late, server, calls, tally>>

\* Without an effect, or uncertain, which leaves the operation pending.  The
\* terminal path tries again, an expired slot stays as it is and orphan
\* recovery returns the error.
DestroyFails ==
  /\ proc.clean = "begun"
  /\ Faulty
  /\ \/ slot' = [slot EXCEPT !.op = "none"] /\ UNCHANGED engine
     \/ engine' \in {engine, FALSE} /\ UNCHANGED slot
  /\ CASE proc.stage = "orphan" -> ProcessEnds
       [] proc.stage = "contained" ->
            /\ proc' = [proc EXCEPT !.clean = "parked"]
            /\ UNCHANGED <<emit, flush, late>>
       [] OTHER ->
            /\ proc' = [proc EXCEPT !.clean = "no"]
            /\ UNCHANGED <<emit, flush, late>>
  /\ UNCHANGED <<spool, server, calls>>

SandboxDestroyed ==
  /\ proc.clean = "destroyed"
  /\ slot' = [slot EXCEPT !.op = "none", !.box = FALSE]
  /\ proc' = [proc EXCEPT !.clean = "no"]
  /\ UNCHANGED <<spool, engine, emit, flush, late, server, calls, tally>>

CleanupDone ==
  /\ proc.stage = "cleanup" /\ ~slot.box
  /\ proc' = Stage("deliver")
  /\ UNCHANGED <<slot, spool, engine, emit, flush, late, server, calls, tally>>

\* deliver_terminal_result: the request, its execution (which may come after
\* the runner has gone), and the answer.
PostResult ==
  /\ proc.stage = "deliver" /\ slot.result = "recorded"
  /\ ~server.posted
  /\ ResultObject \in spool
  /\ server' = [server EXCEPT !.posted = TRUE]
  /\ UNCHANGED <<slot, spool, engine, proc, emit, flush, late, calls, tally>>

CommitResult ==
  /\ server.posted /\ AttemptActive
  /\ server' = [server EXCEPT !.result = TRUE]
  /\ UNCHANGED <<slot, spool, engine, proc, emit, flush, late, calls, tally>>

ResultAcknowledged ==
  /\ proc.stage = "deliver" /\ slot.result = "recorded"
  /\ server.result /\ SessionLive
  /\ slot' = [slot EXCEPT !.result = "acked"]
  /\ UNCHANGED <<spool, engine, proc, emit, flush, late, server, calls, tally>>

ReleaseSlot ==
  /\ proc.stage = "deliver" /\ slot.result = "acked"
  /\ GateFree
  /\ ReleaseAllowed
  /\ slot' = [slot EXCEPT !.held = FALSE, !.segs = <<>>]
  /\ spool' = {}
  /\ proc' = Stage("idle")
  /\ UNCHANGED <<engine, emit, flush, late, server, calls, tally>>

-----------------------------------------------------------------------------
(* Leases, sessions and crashes.                                            *)

Maintained ==
  /\ proc.stage \in {"backlog", "close", "drain", "cleanup", "deliver"}
  /\ slot.result # "acked"

\* The runner's watchdog: the lease has run out by the runner's own clock.
NoticeExpiry ==
  /\ server.lease # "live"
  /\ \/ Stop("lease")
     \/ /\ Maintained
        /\ proc' = Stage("contained")
        /\ DropDelivery
  /\ UNCHANGED <<slot, spool, engine, emit, server, calls, tally>>

\* A heartbeat finds the session gone.  A contained slot has none.
HeartbeatFails ==
  /\ ~SessionLive
  /\ \/ Stop("session")
     \/ /\ Maintained
        /\ proc' = Restarted
        /\ DropDelivery
  /\ UNCHANGED <<slot, spool, engine, emit, server, calls, tally>>

\* Another slot of the runner, if it has one, finds the session gone and run
\* cancels them all: the only way out of contain_expired_slot.
SiblingEndsSession ==
  /\ ~SessionLive
  /\ proc.stage = "contained"
  /\ proc' = Restarted
  /\ DropDelivery
  /\ UNCHANGED <<slot, spool, engine, emit, server, calls, tally>>

\* A heartbeat finds the attempt no longer active: its lease has expired or its
\* result is in.  The refusal ends the process.
HeartbeatRefused ==
  /\ SessionLive /\ ~AttemptActive
  /\ Faulty
  /\ \/ Stop("fail") /\ UNCHANGED emit
     \/ Maintained /\ ProcessEnds
  /\ UNCHANGED <<slot, spool, engine, server, calls>>

\* The lease runs out by the runner's clock, which is ahead on purpose, and then
\* by the server's.  Bound: not after the session was closed.
LeaseRunsOut ==
  /\ server.lease # "expired" /\ SessionLive
  /\ server' = [server EXCEPT !.lease = IF @ = "live" THEN "due" ELSE "expired"]
  /\ UNCHANGED <<slot, spool, engine, proc, emit, flush, late, calls, tally>>

\* Executions that nobody listens to end here: they would find the session gone.
CloseSession ==
  /\ SessionLive
  /\ server' = [server EXCEPT !.session = "closed"]
  /\ calls' = [c \in Calls |-> IF c = flush.call THEN calls[c] ELSE IdleCall]
  /\ UNCHANGED <<slot, spool, engine, proc, emit, flush, late, tally>>

Crash ==
  /\ proc.stage \notin {"hello", "idle"}
  /\ Faulty
  /\ ProcessEnds
  /\ UNCHANGED <<slot, spool, engine, server, calls>>

-----------------------------------------------------------------------------
SlotLoop ==
  \/ Resume \/ AuthorizeOrphan \/ ResumeOrphan \/ AbandonDelivery
  \/ ReleaseOrphan \/ PersistResult \/ RecordResult \/ CloseBegin \/ CloseDone
  \/ DestroyIntent \/ DestroySandbox \/ SandboxDestroyed \/ CleanupDone
  \/ PostResult \/ ResultAcknowledged \/ ReleaseSlot

Executor ==
  \/ CreateIntent \/ CreateSandbox \/ SandboxCreated \/ RecoverSandbox
  \/ BeginRunning \/ FinishExecution

Emitter ==
  \/ EmitLoad \/ EmitSeal \/ EmitPersist \/ EmitAdopt \/ EmitDone
  \/ EmitWait

Flusher ==
  \/ FlushLoad \/ FlushCaughtUp \/ FlushCall \/ FlushAck \/ FlushRemove
  \/ FlushEnds

Server ==
  \/ \E c \in Calls : LookupReceipt(c) \/ AdmitSegment(c) \/ CommitSegment(c)
  \/ CommitResult

Environment ==
  \/ EmitRecord \/ CreateFails \/ DestroyFails \/ Cancel \/ CancelRefused
  \/ FlushTimeout \/ HeartbeatRefused \/ LeaseRunsOut \/ CloseSession
  \/ SiblingEndsSession \/ Crash

Watch == NoticeExpiry \/ HeartbeatFails

Next ==
  \/ SlotLoop \/ Executor \/ Emitter \/ Flusher \/ LateTask \/ Server
  \/ Watch \/ Environment

Fairness ==
  /\ WF_vars(SlotLoop)
  /\ WF_vars(Executor)
  /\ WF_vars(Emitter)
  /\ WF_vars(Flusher)
  /\ WF_vars(LateTask)
  /\ WF_vars(Server)
  /\ SF_vars(NoticeExpiry)
  /\ WF_vars(HeartbeatFails)

Spec == Init /\ [][Next]_vars /\ Fairness

-----------------------------------------------------------------------------
(* Properties.                                                              *)

SlotTypeOK ==
  /\ slot.held \in BOOLEAN /\ slot.box \in BOOLEAN /\ slot.cancel \in BOOLEAN
  /\ slot.life \in {"Preparing", "Running", "Cancelling", "Finalizing"}
                   \cup Terminal
  /\ slot.op \in {"none", "create", "destroy"}
  /\ slot.result \in {"none", "recorded", "acked"}
  /\ slot.abandoned \subseteq {"log", "result"}
  /\ Len(slot.segs) <= MaxSegments
  /\ engine \in BOOLEAN
  /\ proc.stage \in {"hello", "idle", "run", "commit", "recording", "backlog",
                     "close", "drain", "cleanup", "deliver", "contained",
                     "orphan"}
  /\ emit.at \in {"no", "loading", "loaded", "full", "persisted", "adopted",
                  "waiting"}
  /\ flush.at \in {"no", "sent", "acking", "removing", "refused", "stale"}
  /\ flush.call \in Calls \cup {0}
  /\ \A c \in Calls : calls[c].at \in {"idle", "called", "fresh", "admitted"}
  /\ tally.told \subseteq 1 .. End
  /\ tally.faults \in 0 .. MaxFaults

\* LogDeliveryCursor::validate: only the last segment takes frames, and the end
\* of the stream is its last frame.
CursorValid ==
  /\ \A i \in DOMAIN slot.segs : i < Len(slot.segs) => slot.segs[i].sealed
  /\ \A i \in DOMAIN Frames(slot.segs) :
       Frames(slot.segs)[i] = End => i = Len(Frames(slot.segs))
  /\ slot.segs # <<>> => (slot.eos <=> Last(Frames(slot.segs)) = End)

\* Whatever step the runner stops after, the journal decodes (the cursor's own
\* validation passes) and every object it refers to is in the spool: an object
\* is persisted before the journal adopts it and removed only after the journal
\* has let it go (publish_log_segment_once, acknowledge_log_segment, reconcile).
SlotRecoverable ==
  /\ SlotTypeOK
  /\ CursorValid
  /\ References \subseteq spool

\* The frames that the control plane does not have yet.
Outstanding ==
  SubSeq(Frames(slot.segs), Len(server.stored) - slot.acked + 1,
         Len(Frames(slot.segs)))

Increasing(seq) == \A i, j \in DOMAIN seq : i < j => seq[i] < seq[j]

\* What the control plane stored followed by what the journal still holds is
\* the log as it was emitted: in order, nothing twice, and with every record
\* that the executor was told is durable.  Retries, late acknowledgements, a
\* tail sealed under an emission and crashes change nothing of it; only the
\* release of an orphan gives records up.
LogIntact ==
  (slot.held \/ ~slot.orphan) =>
    /\ slot.acked <= Len(server.stored)
    /\ IsPrefix(SubSeq(server.stored, slot.acked + 1, Len(server.stored)),
                Frames(slot.segs))
    /\ Increasing(server.stored \o Outstanding)
    /\ tally.told \subseteq Range(server.stored \o Outstanding)

\* The control plane has the terminal result only when it has the whole log, to
\* the end of the stream, and when the sandbox is gone from the provider and
\* from the journal (finish_terminal_slot_delivery).
ResultLast ==
  server.result =>
    /\ End \in Range(server.stored)
    /\ tally.told \subseteq Range(server.stored)
    /\ ~engine /\ ~slot.box

\* The journal forgets a slot only when no sandbox is left, and when the control
\* plane has the result or has closed the session that could deliver it
\* (release_slot).
ReleasedClean ==
  ~slot.held =>
    /\ ~engine
    /\ server.result \/ (slot.orphan /\ ~SessionLive)

\* A log batch is refused only when an execution of the same batch has stored
\* it, or when the attempt is no longer the runner's: the runner never sends a
\* segment that leaves a gap, overlaps another or follows the end of the stream.
\* (A refusal ends the runner process.)
RefusalsExplained ==
  flush.at = "refused" =>
    \/ Span(flush) \in server.receipts
    \/ ~AttemptActive

\* The slot is released, or contained after its lease ran out, or keeps a create
\* that nobody can resolve: an emission that waits for room, a delivery and the
\* tasks that stop them never wait for each other for good
\* (slot_loop, execute_lease, finish_terminal_slot_delivery).
SlotSettles ==
  <>[](proc.stage \in {"idle", "contained"} \/ LostCustody)

\* The log as DurableLog sees it: what the control plane stored and what the
\* journal holds beyond that, until the slot of an orphan is let go.
GivenUp == slot.orphan /\ ~slot.held
DurableRecords == IF GivenUp THEN server.stored ELSE server.stored \o Outstanding

Durable == INSTANCE DurableLog WITH
  Record    <- 1 .. End,
  Closing   <- End,
  log       <- DurableRecords,
  arrived   <- server.stored,
  reported  <- tally.told,
  concluded <- server.result,
  givenUp   <- GivenUp

\* The slot implements DurableLog: seen through the journal and the rows of the
\* control plane, persisting, adopting, sealing, sending, acknowledging, crashing
\* and recovering amount to a log that grows at its end and arrives in order,
\* each record once, whole before the result (emit_log_serialized,
\* flush_log_batch, handle_log_batch, finish_terminal_slot_delivery).
ImplementsDurableLog == Durable!LogSpec
=============================================================================
