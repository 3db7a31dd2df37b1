-------------------------- MODULE DurableLogProofs --------------------------
(***************************************************************************)
(* Machine-checked proof that RunnerSlot implements DurableLog.            *)
(*                                                                         *)
(* The invariant of RunnerSlotProofs says where the parts of the log are.  *)
(* Seen through them, a step adds the record of an emission, lets a batch  *)
(* arrive, reports, concludes or gives up, or changes nothing.             *)
(***************************************************************************)
EXTENDS RunnerSlotProofs

\* What DurableLog sees is Log.
SeenLog == DurableRecords = IF GivenUp THEN server.stored ELSE Log

\* The invariant says so.
LEMMA Seen == SlotInvariant => SeenLog
<1>1. SUFFICES ASSUME SlotInvariant PROVE SeenLog
  OBVIOUS
<1>2. CASE GivenUp
  BY <1>2 DEF SeenLog, DurableRecords
<1>3. CASE ~GivenUp
  <2>1. Kept /\ Rows /\ SegmentRows /\ Stored
    BY <1>1, <1>3 DEF SlotInvariant, Recoverable, Conduct, Kept, GivenUp
  <2>2. server.stored \o Outstanding = Log
    BY <2>1, LogOutstanding
  <2> QED
    BY <1>3, <2>2 DEF SeenLog, DurableRecords
<1> QED
  BY <1>2, <1>3

\* A slot is given up only while it is held.
LEMMA OrphanStep ==
  ASSUME Rows, Next, ~slot.orphan, slot'.orphan
  PROVE  slot'.held
<1>1. CASE Resume \/ ResumeOrphan \/ AbandonDelivery \/ ReleaseOrphan \/ PersistResult \/
         RecordResult \/ CloseBegin \/ CloseDone \/ DestroyIntent \/ DestroySandbox \/
         SandboxDestroyed \/ CleanupDone \/ PostResult \/ ResultAcknowledged \/ ReleaseSlot \/
         CreateIntent \/ CreateSandbox \/ SandboxCreated \/ RecoverSandbox \/ BeginRunning \/
         FinishExecution \/ EmitLoad \/ EmitSeal \/ EmitPersist \/ EmitAdopt \/ EmitDone \/ EmitWait
         \/ FlushLoad \/ FlushCaughtUp \/ FlushCall \/ FlushRemove \/ FlushEnds \/ CommitResult \/
         NoticeExpiry \/ HeartbeatFails \/ SiblingEndsSession \/ EmitRecord \/ CreateFails \/
         Cancel \/ CancelRefused \/
         FlushTimeout \/ HeartbeatRefused \/ LeaseRunsOut \/ CloseSession \/ Crash
  <2>1. slot'.orphan = slot.orphan
    BY <1>1 DEF Rows, SlotRow, Resume, ResumeOrphan, AbandonDelivery, ReleaseOrphan, PersistResult,
         RecordResult, CloseBegin, CloseDone, DestroyIntent, DestroySandbox, SandboxDestroyed,
         CleanupDone, PostResult, ResultAcknowledged, ReleaseSlot, CreateIntent, CreateSandbox,
         SandboxCreated, RecoverSandbox, BeginRunning, FinishExecution, EmitLoad, EmitSeal,
         EmitPersist, EmitAdopt, EmitDone, EmitWait, FlushLoad, FlushCaughtUp, FlushCall,
         FlushRemove, FlushEnds, CommitResult, NoticeExpiry, HeartbeatFails, SiblingEndsSession,
         EmitRecord,
         CreateFails, Cancel, CancelRefused, FlushTimeout, HeartbeatRefused, LeaseRunsOut,
         CloseSession, Crash
  <2> QED
    BY <2>1
<1>2. CASE AuthorizeOrphan
  BY <1>2 DEF AuthorizeOrphan, Rows, SlotRow
<1>3. CASE FlushAck
  BY <1>3 DEF FlushAck, Acknowledge, WithoutHead, Rows, SlotRow
<1>4. CASE LateTask
  BY <1>4, LateForms DEF WithoutHead, Rows, SlotRow
<1>5. ASSUME NEW c \in Calls, LookupReceipt(c) PROVE slot'.held
  BY <1>5 DEF LookupReceipt
<1>6. ASSUME NEW c \in Calls, AdmitSegment(c) PROVE slot'.held
  BY <1>6 DEF AdmitSegment
<1>7. ASSUME NEW c \in Calls, CommitSegment(c) PROVE slot'.held
  BY <1>7 DEF CommitSegment
<1>8. CASE DestroyFails
  BY <1>8, NotDestroyed DEF Rows, SlotRow
<1> QED
  BY <1>1, <1>2, <1>3, <1>4, <1>5, <1>6, <1>7, <1>8 DEF Next, SlotLoop, Executor, Emitter, Flusher,
       Server, Watch, Environment

\* What a step changes of what was stored, reported and concluded: nothing, or
\* one of them.
Changes ==
  \/ server'.stored = server.stored /\ server'.result = server.result /\ tally'.told = tally.told
  \/ emit.at = "adopted" /\ tally'.told = tally.told \cup {emit.rec} /\ server' = server
  \/ CommitResult
  \/ \E d \in Calls : Stores(d)

\* Every step is one of these.
LEMMA ChangesStep ==
  ASSUME Rows, Next
  PROVE  Changes
<1>1. CASE Resume \/ AuthorizeOrphan \/ ResumeOrphan \/ AbandonDelivery \/ ReleaseOrphan \/
         PersistResult \/ RecordResult \/ CloseBegin \/ CloseDone \/ DestroyIntent \/ DestroySandbox
         \/ SandboxDestroyed \/ CleanupDone \/ ResultAcknowledged \/ ReleaseSlot \/ CreateIntent \/
         CreateSandbox \/ SandboxCreated \/ RecoverSandbox \/ BeginRunning \/ FinishExecution \/
         EmitLoad \/ EmitSeal \/ EmitPersist \/ EmitAdopt \/ EmitWait \/ FlushLoad \/ FlushCaughtUp
         \/ FlushCall \/ FlushAck \/ FlushRemove \/ FlushEnds \/ LateTask \/ NoticeExpiry \/
         HeartbeatFails \/ SiblingEndsSession \/ Cancel
  <2>1. server' = server /\ tally' = tally
    BY <1>1 DEF Resume, AuthorizeOrphan, ResumeOrphan, AbandonDelivery, ReleaseOrphan,
       PersistResult,
         RecordResult, CloseBegin, CloseDone, DestroyIntent, DestroySandbox, SandboxDestroyed,
         CleanupDone, ResultAcknowledged, ReleaseSlot, CreateIntent, CreateSandbox, SandboxCreated,
         RecoverSandbox, BeginRunning, FinishExecution, EmitLoad, EmitSeal, EmitPersist, EmitAdopt,
         EmitWait, FlushLoad, FlushCaughtUp, FlushCall, FlushAck, FlushRemove, FlushEnds, LateTask,
         NoticeExpiry, HeartbeatFails, SiblingEndsSession, Cancel
  <2> QED
    BY <2>1 DEF Changes
<1>2. CASE PostResult \/ LeaseRunsOut \/ CloseSession
  <2>1. server'.stored = server.stored /\ server'.result = server.result /\ tally' = tally
    BY <1>2 DEF PostResult, LeaseRunsOut, CloseSession, Rows, ServerRow
  <2> QED
    BY <2>1 DEF Changes
<1>3. CASE EmitDone
  <2>1. emit.at = "adopted" /\ tally'.told = tally.told \cup {emit.rec} /\ server' = server
    BY <1>3 DEF EmitDone, Rows, CallRows
  <2> QED
    BY <2>1 DEF Changes
<1>4. ASSUME NEW c \in Calls, LookupReceipt(c) PROVE Changes
  BY <1>4 DEF LookupReceipt, Changes
<1>5. ASSUME NEW c \in Calls, AdmitSegment(c) PROVE Changes
  BY <1>5 DEF AdmitSegment, Changes
<1>6. ASSUME NEW c \in Calls, CommitSegment(c) PROVE Changes
  BY <1>6 DEF CommitSegment, Stores, Changes
<1>7. CASE CommitResult
  BY <1>7 DEF Changes
<1>8. CASE EmitRecord
  <2>1. tally'.told = tally.told /\ server' = server
    BY <1>8 DEF EmitRecord, Rows, CallRows
  <2> QED
    BY <2>1 DEF Changes
<1>9. CASE CreateFails \/ DestroyFails \/ CancelRefused \/ FlushTimeout \/ HeartbeatRefused \/ Crash
  <2>1. server' = server /\ tally' = [tally EXCEPT !.faults = @ + 1]
    BY <1>9 DEF Faulty, CreateFails, DestroyFails, CancelRefused, FlushTimeout, HeartbeatRefused,
       Crash
  <2>2. tally'.told = tally.told
    BY <2>1 DEF Rows, CallRows
  <2> QED
    BY <2>1, <2>2 DEF Changes
<1> QED
  BY <1>1, <1>2, <1>3, <1>4, <1>5, <1>6, <1>7, <1>8, <1>9 DEF Next, SlotLoop, Executor, Emitter,
       Flusher, Server, Watch, Environment

\* A step that gives the slot up lets it go.
LEMMA GivesUp ==
  ASSUME SlotInvariant, SeenLog', Next, ~GivenUp, GivenUp'
  PROVE  Durable!GiveUp
<1>1. Rows
  BY DEF SlotInvariant, Recoverable, Conduct
<1>2. slot.held /\ ~slot'.held
  <2>1. slot.held \/ ~slot.orphan
    BY DEF GivenUp
  <2>2. slot'.orphan /\ ~slot'.held
    BY DEF GivenUp
  <2>3. slot.orphan
    BY <1>1, <2>2, OrphanStep
  <2> QED
    BY <2>1, <2>2, <2>3
<1>3. LetsGo
  <2>1. ~Keeps
    BY <1>2 DEF Keeps
  <2>2. ~Seals
    BY <1>1, <1>2, SealForms
  <2>3. ~Adopts
    BY <1>1, <1>2, AdoptForms
  <2>4. ~Drops(flush) /\ ~Drops(late)
    BY <1>1, <1>2, DropForms
  <2> QED
    BY <1>1, <2>1, <2>2, <2>3, <2>4, BacklogStep DEF BacklogChange
<1>4. server' = server /\ tally' = tally
  BY <1>3 DEF LetsGo
<1>5. DurableRecords' = server.stored
  BY <1>4 DEF SeenLog
<1>6. GivenUp' = TRUE
  BY DEF GivenUp
<1> QED
  BY <1>4, <1>5, <1>6 DEF Durable!GiveUp

\* A slot that was given up at most reports.
LEMMA StaysGivenUp ==
  ASSUME SlotInvariant, SeenLog, SeenLog', Next, GivenUp, GivenUp'
  PROVE  Durable!LogNext \/ UNCHANGED <<DurableRecords, server.stored, tally.told, server.result, GivenUp>>
<1>1. Rows /\ Progress /\ SegmentRows /\ Stored /\ Deliveries
  BY DEF SlotInvariant, Recoverable, Conduct
<1>2. ~AttemptActive /\ ~Kept
  BY <1>1 DEF GivenUp, Progress, AttemptActive, Kept
<1>3. GivenUp' = GivenUp
  BY DEF GivenUp
<1>4. ~CommitResult /\ \A d \in Calls : ~Stores(d)
  BY <1>2 DEF CommitResult, Stores
<1>5. DurableRecords = server.stored /\ DurableRecords' = server'.stored
  BY DEF SeenLog
<1>6. CASE server'.stored = server.stored /\ server'.result = server.result /\ tally'.told = tally.told
  BY <1>3, <1>5, <1>6
<1>7. CASE emit.at = "adopted" /\ tally'.told = tally.told \cup {emit.rec} /\ server' = server
  <2>1. emit.rec \in 1 .. End
    BY <1>1, <1>7, RunnerSlotAssumption DEF Rows, TaskRows, EmitRow, End
  <2>2. Durable!Report(emit.rec)
    BY <1>3, <1>5, <1>7 DEF Durable!Report
  <2> QED
    BY <2>1, <2>2 DEF Durable!LogNext
<1> QED
  BY <1>1, <1>4, <1>6, <1>7, ChangesStep DEF Changes

\* An emission adds its record at the end.
LEMMA AdoptRefines ==
  ASSUME SlotInvariant, SeenLog, SeenLog', Adopts, ~GivenUp, ~GivenUp'
  PROVE  Durable!LogNext
<1>1. Rows /\ SegmentRows /\ Stored /\ LogRows /\ Emission
  BY DEF SlotInvariant, Recoverable, Conduct
<1>2. DurableRecords = Log /\ DurableRecords' = Log'
  BY DEF SeenLog
<1>3. Kept /\ Log' = Append(Log, emit.rec) /\ emit.rec \in Records
  BY <1>1, LogAdopt
<1>4. ~slot.eos /\ emit.at = "persisted"
  BY <1>1 DEF Adopts, Emission
<1>5. End \notin Range(Log) /\ \A q \in Range(Log) : q < emit.rec
  BY <1>1, <1>3, <1>4 DEF LogRows
<1>6. server' = server /\ tally' = tally
  BY DEF Adopts
<1>7. GivenUp' = GivenUp
  BY DEF GivenUp
<1>8. Durable!Extend(emit.rec)
  BY <1>2, <1>3, <1>5, <1>6, <1>7 DEF Durable!Extend, Durable!Range, Range
<1> QED
  BY <1>3, <1>8 DEF Durable!LogNext, Records

\* An execution lets a batch arrive.
LEMMA StoreRefines ==
  ASSUME SlotInvariant, SeenLog, SeenLog', NEW d \in Calls, Stores(d), ~GivenUp, ~GivenUp', Rows'
  PROVE  Durable!LogNext
<1>1. Rows /\ Progress /\ SegmentRows /\ Stored /\ Deliveries
  BY DEF SlotInvariant, Recoverable, Conduct
<1>2. DurableRecords = Log /\ DurableRecords' = Log'
  BY DEF SeenLog
<1>3. Kept /\ Log' = Log /\ slot' = slot /\ Len(server'.stored) > slot.acked /\ Len(server.stored) = slot.acked
  BY <1>1, LogStore
<1>4. /\ server'.stored = server.stored \o calls[d].obj /\ slot.segs # <<>>
      /\ Head(slot.segs).obj = calls[d].obj
  BY <1>1, LogStore
<1>5. PICK a, t : a = server'.stored /\ t = Frames(Unstored')
  OBVIOUS
<1>6. a \in Seq(Records) /\ Log = a \o t
  BY <1>3, <1>5 DEF Log, Rows, ServerRow
<1>7. t \in Seq(Records)
  <2>1. Tail(slot.segs) \in Seq(Segments) /\ Unstored' = Tail(slot.segs)
    <3>1. Len(server'.stored) \in Nat /\ slot.acked \in Nat
      BY <1>1, <1>5, <1>6, SlotParts
    <3>2. Len(server'.stored) # slot'.acked
      BY <1>3, <3>1
    <3> QED
      BY <1>1, <1>3, <1>4, <3>2, SlotParts DEF Unstored
  <2> QED
    BY <1>5, <2>1, ObjectsType
<1>8. /\ SubSeq(Log, 1, Len(a)) = a /\ Len(a) \in 1 .. Len(Log) /\ Len(a) > Len(server.stored)
  <2>1. SubSeq(a \o t, 1, Len(a)) = a
    BY <1>6, <1>7, PartOf
  <2>2. Len(a \o t) = Len(a) + Len(t) /\ Len(a) \in Nat /\ Len(t) \in Nat
    BY <1>6, <1>7
  <2>3. Len(server.stored) \in Nat /\ Len(a) > Len(server.stored)
    BY <1>1, <1>3, <1>5, SlotParts
  <2>4. Len(a) \in 1 .. Len(a \o t)
    BY <2>2, <2>3
  <2> QED
    BY <1>6, <2>1, <2>3, <2>4
<1>9. ~server.result /\ server'.result = server.result /\ tally' = tally
  BY <1>1 DEF Stores, AttemptActive, Rows, ServerRow
<1>10. GivenUp' = GivenUp
  BY <1>3 DEF GivenUp
<1>11. Durable!Arrive(Len(a))
  BY <1>2, <1>3, <1>5, <1>8, <1>9, <1>10 DEF Durable!Arrive
<1> QED
  BY <1>2, <1>8, <1>11 DEF Durable!LogNext

\* The result is committed with the whole log.
LEMMA ResultRefines ==
  ASSUME SlotInvariant, SeenLog, SeenLog', CommitResult, ~GivenUp, ~GivenUp'
  PROVE  Durable!LogNext
<1>1. Rows /\ Stored /\ LogRows /\ Concluded
  BY DEF SlotInvariant, Recoverable, Conduct
<1>2. DurableRecords = Log /\ DurableRecords' = Log' /\ Kept
  BY DEF SeenLog, GivenUp, Kept
<1>3. server.posted /\ slot' = slot /\ tally' = tally /\ server' = [server EXCEPT !.result = TRUE]
  BY DEF CommitResult
<1>4. server'.stored = server.stored /\ server'.result = TRUE
  BY <1>1, <1>3 DEF Rows, ServerRow
<1>5. slot.segs = <<>> /\ End \in Range(server.stored)
  BY <1>1, <1>3 DEF Concluded
<1>6. Log = server.stored
  <2>1. Len(server.stored) = slot.acked
    BY <1>1, <1>2, <1>5 DEF Stored, HeadStored
  <2>2. Log = server.stored \o <<>>
    BY <1>5, <2>1, FramesEmpty DEF Log, Unstored
  <2>3. server.stored \in Seq(Records)
    BY <1>1, SlotParts
  <2> QED
    BY <2>2, <2>3
<1>7. Log' = Log
  BY <1>3, <1>4 DEF Log, Unstored
<1>8. GivenUp' = GivenUp
  BY <1>3 DEF GivenUp
<1>9. Durable!Conclude
  BY <1>2, <1>3, <1>4, <1>5, <1>6, <1>7, <1>8 DEF Durable!Conclude, Durable!Range, Range
<1> QED
  BY <1>9 DEF Durable!LogNext

\* Every step is a step of a durable log, or is not seen by it.
LEMMA StepRefines ==
  ASSUME SlotInvariant, SlotInvariant', SeenLog, SeenLog', [Next]_vars
  PROVE  [Durable!LogNext]_(<<DurableRecords, server.stored, tally.told, server.result, GivenUp>>)
<1> DEFINE Quiet == UNCHANGED <<DurableRecords, server.stored, tally.told, server.result, GivenUp>>
<1>1. Rows /\ Rows' /\ Recoverable /\ Stored /\ Deliveries /\ LogRows
  BY DEF SlotInvariant, Recoverable, Conduct
<1>2. CASE UNCHANGED vars
  BY <1>2 DEF vars, DurableRecords, GivenUp, Outstanding
<1>3. CASE Next /\ ~GivenUp /\ GivenUp'
  BY <1>3, GivesUp DEF Durable!LogNext
<1>4. CASE Next /\ GivenUp /\ GivenUp'
  BY <1>4, StaysGivenUp
<1>5. CASE Next /\ ~GivenUp'
  <2>1. Kept' /\ Kept
    BY <1>1, <1>5, KeptStep DEF GivenUp, Kept
  <2>2. ~GivenUp
    BY <2>1 DEF GivenUp, Kept
  <2>3. CASE Adopts
    BY <1>5, <2>2, <2>3, AdoptRefines
  <2>4. CASE ~Adopts
    <3>1. Log' = Log
      BY <1>1, <1>5, <2>1, <2>4, LogStep
    <3>2. DurableRecords' = DurableRecords /\ DurableRecords = Log
      BY <1>5, <2>2, <3>1 DEF SeenLog
    <3>3. GivenUp' = GivenUp
      BY <1>5, <2>2 DEF GivenUp
    <3>4. CASE server'.stored = server.stored /\ server'.result = server.result /\ tally'.told = tally.told
      BY <3>2, <3>3, <3>4
    <3>5. CASE emit.at = "adopted" /\ tally'.told = tally.told \cup {emit.rec} /\ server' = server
      <4>1. emit.rec \in 1 .. End
        BY <1>1, <3>5, RunnerSlotAssumption DEF Rows, TaskRows, EmitRow, End
      <4>2. emit.rec \in Range(Log)
        BY <1>1, <2>1, <3>5 DEF LogRows
      <4>3. Durable!Report(emit.rec)
        BY <3>2, <3>3, <3>5, <4>2 DEF Durable!Report, Durable!Range, Range
      <4> QED
        BY <4>1, <4>3 DEF Durable!LogNext
    <3>6. CASE CommitResult
      BY <1>5, <2>2, <3>6, ResultRefines
    <3>7. ASSUME NEW d \in Calls, Stores(d) PROVE Durable!LogNext
      BY <1>1, <1>5, <2>2, <3>7, StoreRefines
    <3> QED
      BY <1>1, <1>5, <3>4, <3>5, <3>6, <3>7, ChangesStep DEF Changes
  <2> QED
    BY <2>3, <2>4
<1> QED
  BY <1>2, <1>3, <1>4, <1>5

\* The slot implements a durable log: whatever is retried, timed out, crashed or
\* recovered, the log grows at its end and arrives in order, each record once,
\* and whole before the result (emit_log_serialized, flush_log_batch,
\* handle_log_batch, finish_terminal_slot_delivery).
THEOREM LogRefinement == Spec => ImplementsDurableLog
<1>1. Init => SlotInvariant
  BY SlotInvariantInit
<1>2. SlotInvariant /\ [Next]_vars => SlotInvariant'
  BY SlotInvariantStep
<1>3. SlotInvariant => SeenLog
  BY Seen
<1>4. Init /\ SeenLog => Durable!LogInit
  <2>1. SUFFICES ASSUME Init, SeenLog PROVE Durable!LogInit
    OBVIOUS
  <2>2. /\ server.stored = <<>> /\ server.result = FALSE /\ tally.told = {}
        /\ slot.acked = 0 /\ slot.segs = <<>> /\ Len(<<>>) = 0
        /\ slot.held = TRUE /\ slot.orphan = FALSE
    BY <2>1 DEF Init
  <2>3. GivenUp = FALSE
    BY <2>2 DEF GivenUp
  <2>4. DurableRecords = <<>>
    <3>1. DurableRecords = Log
      BY <2>1, <2>3 DEF SeenLog
    <3>2. Log = <<>> \o <<>>
      BY <2>2, FramesEmpty DEF Log, Unstored
    <3> QED
      BY <3>1, <3>2
  <2> QED
    BY <2>2, <2>3, <2>4 DEF Durable!LogInit
<1>5. SlotInvariant /\ SlotInvariant' /\ SeenLog /\ SeenLog' /\ [Next]_vars => [Durable!LogNext]_(Durable!logVars)
  BY StepRefines DEF Durable!logVars
<1> QED
  BY <1>1, <1>2, <1>3, <1>4, <1>5, PTL DEF Spec, ImplementsDurableLog, Durable!LogSpec
=============================================================================
