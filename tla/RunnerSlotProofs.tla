-------------------------- MODULE RunnerSlotProofs --------------------------
(***************************************************************************)
(* Machine-checked proofs about RunnerSlot, for any number of records,     *)
(* segments, executions of a log batch and faults, and any segment size:   *)
(* SlotRecoverable, ReleasedClean, LogIntact, ResultLast and               *)
(* RefusalsExplained.                                                      *)
(*                                                                         *)
(* The invariant says who knows of the sandbox (Custody), how far the slot *)
(* and its tasks are (Progress, Tasks), who holds the content gate (Gate), *)
(* and what is in the spool (Content, Emission, SegmentRows).  Of the log  *)
(* it says that the control plane has what the journal saw acknowledged,   *)
(* or that and one segment more, the head, which is then sealed and has a  *)
(* receipt (Stored); and that whatever is sent, or still executed, is the  *)
(* head or was acknowledged (Deliveries).  So no execution, however late,  *)
(* can store anything twice.                                               *)
(***************************************************************************)
EXTENDS RunnerSlot, SequenceTheorems, WellFoundedInduction, TLAPS

-----------------------------------------------------------------------------
(* The frames of a sequence of segments.                                   *)

\* A nonempty set of natural numbers has a least element.
LEMMA LeastNumber ==
  ASSUME NEW T, T \subseteq Nat, T # {}
  PROVE  \E x \in T : \A y \in T : x <= y
<1> DEFINE R == OpToRel(<, Nat)
<1>1. IsWellFoundedOn(R, Nat)
  BY NatLessThanWellFounded
<1>2. \A y, x \in Nat : <<y, x>> \in R <=> y < x
  BY DEF OpToRel
<1> HIDE DEF R
<1>3. PICK x \in T : \A y \in T : ~(<<y, x>> \in R)
  BY <1>1, WFMin
<1>4. \A y \in T : x \in Nat /\ y \in Nat /\ ~(y < x)
  BY <1>2, <1>3
<1> QED
  BY <1>4

\* f joins the first m sequences, one after the other.
Joins(f, seqs, m) == f = [i \in 1 .. m |-> IF i = 1 THEN seqs[i] ELSE f[i - 1] \o seqs[i]]

\* There is such a function ...
LEMMA JoinsExist ==
  ASSUME NEW S, NEW seqs \in Seq(Seq(S)), NEW m \in 1 .. Len(seqs)
  PROVE  \E f \in [1 .. m -> Seq(S)] : Joins(f, seqs, m)
<1> DEFINE Some(n) == \E f \in [1 .. n -> Seq(S)] : Joins(f, seqs, n)
           T == {n \in 1 .. Len(seqs) : ~Some(n)}
<1>1. SUFFICES T = {}
  BY <1>1
<1>2. SUFFICES ASSUME T # {} PROVE FALSE
  OBVIOUS
<1>3. PICK n \in T : \A k \in T : n <= k
  <2>1. T \subseteq Nat
    OBVIOUS
  <2> HIDE DEF T
  <2> QED
    BY <1>2, <2>1, LeastNumber
<1>4. n \in 1 .. Len(seqs) /\ ~Some(n) /\ \A i \in 1 .. Len(seqs) : seqs[i] \in Seq(S)
  BY <1>3
<1>5. CASE n = 1
  <2> DEFINE f == [i \in 1 .. 1 |-> seqs[1]]
  <2>1. f \in [1 .. 1 -> Seq(S)] /\ Joins(f, seqs, 1)
    BY <1>4 DEF Joins
  <2> QED
    BY <1>4, <1>5, <2>1
<1>6. CASE n > 1
  <2>1. n - 1 \in 1 .. Len(seqs) /\ n - 1 < n
    BY <1>4, <1>6
  <2>2. Some(n - 1)
    <3>1. n - 1 \notin T
      <4> HIDE DEF T
      <4> QED
        BY <1>3, <1>4, <2>1
    <3> HIDE DEF Some
    <3> QED
      BY <2>1, <3>1
  <2>3. PICK g \in [1 .. (n - 1) -> Seq(S)] : Joins(g, seqs, n - 1)
    BY <2>2
  <2> DEFINE f == [i \in 1 .. n |-> IF i = n THEN g[n - 1] \o seqs[n] ELSE g[i]]
  <2>4. f \in [1 .. n -> Seq(S)]
    <3>1. g[n - 1] \o seqs[n] \in Seq(S)
      BY <1>4, <2>1, <2>3, ConcatProperties
    <3> QED
      BY <1>4, <2>1, <2>3, <3>1
  <2>5. \A i \in 1 .. (n - 1) : g[i] = IF i = 1 THEN seqs[i] ELSE g[i - 1] \o seqs[i]
    BY <2>3 DEF Joins
  <2>6. \A i \in 1 .. n : f[i] = IF i = 1 THEN seqs[i] ELSE f[i - 1] \o seqs[i]
    <3>1. SUFFICES ASSUME NEW i \in 1 .. n PROVE f[i] = IF i = 1 THEN seqs[i] ELSE f[i - 1] \o seqs[i]
      OBVIOUS
    <3>2. CASE i = n
      <4>1. i # 1 /\ i - 1 \in 1 .. n /\ i - 1 # n /\ n - 1 = i - 1
        BY <1>4, <1>6, <3>2
      <4> QED
        BY <3>2, <4>1
    <3>3. CASE i # n
      <4>1. i \in 1 .. (n - 1) /\ (i # 1 => i - 1 \in 1 .. n /\ i - 1 # n)
        BY <1>4, <3>3
      <4>2. f[i] = g[i] /\ (i # 1 => f[i - 1] = g[i - 1])
        BY <3>3, <4>1
      <4> HIDE DEF f
      <4> QED
        BY <2>5, <4>1, <4>2
    <3> QED
      BY <3>2, <3>3
  <2>7. Joins(f, seqs, n)
    <3> HIDE DEF f
    <3> QED
      BY <2>4, <2>6 DEF Joins
  <2> QED
    BY <1>4, <2>4, <2>7
<1> QED
  BY <1>4, <1>5, <1>6

\* ... and only one.
LEMMA JoinsAgree ==
  ASSUME NEW seqs, NEW m \in Nat, NEW n \in Nat, m <= n, NEW f, NEW g, Joins(f, seqs, m), Joins(g, seqs, n)
  PROVE  \A k \in 1 .. m : f[k] = g[k]
<1> DEFINE T == {i \in 1 .. m : f[i] # g[i]}
<1>1. SUFFICES ASSUME T # {} PROVE FALSE
  OBVIOUS
<1>2. PICK i \in T : \A j \in T : i <= j
  <2>1. T \subseteq Nat
    OBVIOUS
  <2> HIDE DEF T
  <2> QED
    BY <1>1, <2>1, LeastNumber
<1>3. /\ f[i] = IF i = 1 THEN seqs[i] ELSE f[i - 1] \o seqs[i]
      /\ g[i] = IF i = 1 THEN seqs[i] ELSE g[i - 1] \o seqs[i]
  <2>1. i \in 1 .. m /\ i \in 1 .. n
    BY <1>2
  <2> QED
    BY <2>1 DEF Joins
<1>4. i # 1 => f[i - 1] = g[i - 1]
  BY <1>2
<1> QED
  BY <1>2, <1>3, <1>4

\* What FlattenSeq returns.
LEMMA FlattenJoins ==
  ASSUME NEW S, NEW seqs \in Seq(Seq(S)), NEW f, Joins(f, seqs, Len(seqs)), Len(seqs) # 0
  PROVE  FlattenSeq(seqs) = f[Len(seqs)]
<1>1. FlattenSeq(seqs) = (CHOOSE g : Joins(g, seqs, Len(seqs)))[Len(seqs)]
  BY DEF FlattenSeq, Joins
<1>2. PICK g : g = CHOOSE h : Joins(h, seqs, Len(seqs))
  OBVIOUS
<1>3. Joins(g, seqs, Len(seqs))
  BY <1>2
<1> QED
  <2>1. Len(seqs) \in Nat /\ Len(seqs) <= Len(seqs) /\ Len(seqs) \in 1 .. Len(seqs)
    OBVIOUS
  <2>2. g[Len(seqs)] = f[Len(seqs)]
    BY <1>3, <2>1, JoinsAgree
  <2> QED
    BY <1>1, <1>2, <2>2

\* The flattening of sequences over S is one.
LEMMA FlattenType ==
  ASSUME NEW S, NEW seqs \in Seq(Seq(S))
  PROVE  FlattenSeq(seqs) \in Seq(S)
<1>1. CASE Len(seqs) = 0
  BY <1>1 DEF FlattenSeq
<1>2. CASE Len(seqs) # 0
  <2>1. Len(seqs) \in 1 .. Len(seqs)
    BY <1>2
  <2>2. PICK f \in [1 .. Len(seqs) -> Seq(S)] : Joins(f, seqs, Len(seqs))
    BY <2>1, JoinsExist
  <2>3. FlattenSeq(seqs) = f[Len(seqs)]
    BY <1>2, <2>2, FlattenJoins
  <2>4. f[Len(seqs)] \in Seq(S)
    BY <2>1, <2>2
  <2> QED
    BY <2>3, <2>4
<1> QED
  BY <1>1, <1>2

\* One sequence more than n, and what it adds
Agree(more, seqs, n) == \A i \in 1 .. n : more[i] = seqs[i]
JoinsNext(f, more, n) == Joins(f, more, n + 1)
AddsLast(f, g, more, n) == f[n + 1] = g[n] \o more[n + 1]

\* One sequence more is joined last.
LEMMA JoinsLonger ==
  ASSUME NEW n \in Nat \ {0}, NEW seqs, NEW more, Agree(more, seqs, n),
         NEW f, NEW g, JoinsNext(f, more, n), Joins(g, seqs, n)
  PROVE  AddsLast(f, g, more, n)
<1>0. Joins(f, more, n + 1)
  BY DEF JoinsNext
<1>1. f[n + 1] = f[n] \o more[n + 1]
  <2>1. n + 1 \in 1 .. (n + 1) /\ n + 1 # 1 /\ (n + 1) - 1 = n
    OBVIOUS
  <2>2. \A i \in 1 .. (n + 1) : f[i] = IF i = 1 THEN more[i] ELSE f[i - 1] \o more[i]
    BY <1>0 DEF Joins
  <2> QED
    BY <2>1, <2>2
<1>2. Joins(g, more, n)
  <2>1. g = [i \in 1 .. n |-> IF i = 1 THEN seqs[i] ELSE g[i - 1] \o seqs[i]]
    BY DEF Joins
  <2>2. [i \in 1 .. n |-> IF i = 1 THEN seqs[i] ELSE g[i - 1] \o seqs[i]]
        = [i \in 1 .. n |-> IF i = 1 THEN more[i] ELSE g[i - 1] \o more[i]]
    BY DEF Agree
  <2> QED
    BY <2>1, <2>2 DEF Joins
<1>3. PICK q \in Nat : q = n + 1 /\ n <= q
  OBVIOUS
<1>4. \A i \in 1 .. n : g[i] = f[i]
  BY <1>0, <1>2, <1>3, JoinsAgree
<1>5. g[n] = f[n]
  BY <1>4
<1> QED
  BY <1>1, <1>5 DEF AddsLast

\* A last sequence is joined last.
LEMMA FlattenAppend ==
  ASSUME NEW S, NEW seqs \in Seq(Seq(S)), NEW x \in Seq(S)
  PROVE  FlattenSeq(Append(seqs, x)) = FlattenSeq(seqs) \o x
<1>0. PICK Q, n, more : Q = Seq(S) /\ n = Len(seqs) /\ more = Append(seqs, x)
  OBVIOUS
<1>1. seqs \in Seq(Q) /\ x \in Q /\ n = Len(seqs) /\ more = Append(seqs, x)
  BY <1>0
<1>2. /\ more \in Seq(Q) /\ Len(more) = n + 1 /\ n \in Nat
      /\ \A i \in 1 .. n : more[i] = seqs[i]
      /\ more[n + 1] = x
  BY ONLY <1>1
<1>3. PICK f : Joins(f, more, n + 1)
  <2>1. n + 1 \in 1 .. Len(more) /\ more \in Seq(Seq(S))
    BY <1>0, <1>2
  <2> QED
    BY <2>1, JoinsExist
<1>4. FlattenSeq(more) = f[n + 1]
  <2>1. more \in Seq(Seq(S)) /\ Joins(f, more, Len(more)) /\ Len(more) # 0
    BY <1>0, <1>2, <1>3
  <2> QED
    BY <1>2, <2>1, FlattenJoins
<1>5. CASE n = 0
  <2>1. seqs = <<>> /\ Len(seqs) = 0
    BY <1>1, <1>5, EmptySeq
  <2>2. FlattenSeq(seqs) = <<>>
    BY <2>1 DEF FlattenSeq
  <2>3. f[n + 1] = x
    <3>1. 1 \in 1 .. (n + 1) /\ n + 1 = 1
      BY <1>5
    <3> QED
      BY <1>2, <1>3, <3>1 DEF Joins
  <2> QED
    BY <1>0, <1>4, <2>2, <2>3
<1>6. CASE n # 0
  <2>1. n \in Nat \ {0} /\ n \in 1 .. Len(seqs)
    BY <1>1, <1>2, <1>6
  <2>2. PICK g : Joins(g, seqs, n)
    BY <2>1, JoinsExist
  <2>3. FlattenSeq(seqs) = g[n]
    BY <1>1, <2>1, <2>2, FlattenJoins
  <2>4. f[n + 1] = g[n] \o more[n + 1]
    <3>1. JoinsNext(f, more, n)
      BY <1>3 DEF JoinsNext
    <3>2. Agree(more, seqs, n)
      BY <1>2 DEF Agree
    <3>3. AddsLast(f, g, more, n)
      BY <2>1, <2>2, <3>1, <3>2, JoinsLonger
    <3> QED
      BY <3>3 DEF AddsLast
  <2> QED
    BY <1>0, <1>2, <1>4, <2>3, <2>4
<1> QED
  BY <1>5, <1>6

\* It does not matter which two of three sequences are joined first.
LEMMA ConcatAssociates ==
  ASSUME NEW X, NEW a \in Seq(X), NEW b \in Seq(X), NEW c \in Seq(X)
  PROVE  (a \o b) \o c = a \o (b \o c)
BY SMTT(30)

\* A first sequence is joined first.
LEMMA FlattenHead ==
  ASSUME NEW S, NEW seqs \in Seq(Seq(S)), seqs # <<>>
  PROVE  FlattenSeq(seqs) = Head(seqs) \o FlattenSeq(Tail(seqs))
<1>a. ASSUME NEW a \in Seq(S), NEW b \in Seq(S), NEW c \in Seq(S) PROVE (a \o b) \o c = a \o (b \o c)
  BY ConcatAssociates, SMTT(30)
<1> DEFINE Q == Seq(S)
           Ok(t) == FlattenSeq(t) = Head(t) \o FlattenSeq(Tail(t))
           T == {n \in Nat : \E t \in Seq(Q) : Len(t) = n /\ t # <<>> /\ ~Ok(t)}
<1>1. SUFFICES ASSUME T # {} PROVE FALSE
  <2>1. ~Ok(seqs) => Len(seqs) \in T
    OBVIOUS
  <2> QED
    BY <1>1, <2>1
<1>2. PICK n \in T : \A k \in T : n <= k
  <2>1. T \subseteq Nat
    OBVIOUS
  <2> HIDE DEF T
  <2> QED
    BY <1>1, <2>1, LeastNumber
<1>3. PICK t \in Seq(Q) : Len(t) = n /\ t # <<>> /\ ~Ok(t)
  BY <1>2
<1> HIDE DEF Q
<1>4. PICK s \in Seq(Q), x \in Q : t = Append(s, x)
  BY <1>3, SequenceEmptyOrAppend
<1>5. Len(s) \in Nat /\ Len(s) + 1 = n
  BY <1>3, <1>4, AppendProperties
<1>6. FlattenSeq(t) = FlattenSeq(s) \o x /\ FlattenSeq(s) \in Q
  BY <1>4, FlattenAppend, FlattenType DEF Q
<1>7. CASE s = <<>>
  <2>1. Head(t) = x /\ Tail(t) = <<>>
    BY <1>4, <1>7, HeadTailAppend
  <2>2. FlattenSeq(<<>>) = <<>>
    BY DEF FlattenSeq
  <2>3. FlattenSeq(t) = x /\ x \o <<>> = x
    BY <1>4, <1>6, <1>7, <2>2, ConcatEmptySeq DEF Q
  <2> QED
    BY <1>3, <2>1, <2>2, <2>3
<1>8. CASE s # <<>>
  <2>1. Ok(s)
    <3>1. Len(s) \notin T
      BY <1>2, <1>5
    <3> QED
      BY <1>4, <1>5, <1>8, <3>1
  <2>2. Head(t) = Head(s) /\ Tail(t) = Append(Tail(s), x)
    BY <1>4, <1>8, HeadTailAppend
  <2>3. Head(s) \in Q /\ Tail(s) \in Seq(Q)
    BY <1>4, <1>8, HeadTailProperties
  <2>4. FlattenSeq(Tail(t)) = FlattenSeq(Tail(s)) \o x /\ FlattenSeq(Tail(s)) \in Q
    BY <1>4, <2>2, <2>3, FlattenAppend, FlattenType DEF Q
  <2>5. (Head(s) \o FlattenSeq(Tail(s))) \o x = Head(s) \o (FlattenSeq(Tail(s)) \o x)
    <3>1. Head(s) \in Seq(S) /\ FlattenSeq(Tail(s)) \in Seq(S) /\ x \in Seq(S)
      BY <1>4, <2>3, <2>4 DEF Q
    <3> QED
      BY <1>a, <3>1, Zenon
  <2> QED
    BY <1>3, <1>6, <2>1, <2>2, <2>4, <2>5
<1> QED
  BY <1>7, <1>8

-----------------------------------------------------------------------------
(* The inductive invariant.                                                *)

Records == 1 .. End
Segments == [obj : Seq(Records), sealed : BOOLEAN]
Lives == {"Preparing", "Running", "Cancelling", "Finalizing"} \cup Terminal
Stages == {"hello", "idle", "run", "commit", "recording", "backlog", "close", "drain", "cleanup",
           "deliver", "contained", "orphan"}
Finishing == {"backlog", "close", "drain", "cleanup", "deliver"}

\* What the journal, the process, its tasks and the control plane contain.
SlotRow ==
  slot \in [held : BOOLEAN, life : Lives, op : {"none", "create", "destroy"}, box : BOOLEAN,
            cancel : BOOLEAN, opened : BOOLEAN, segs : Seq(Segments), acked : Nat, eos : BOOLEAN,
            result : {"none", "recorded", "acked"}, orphan : BOOLEAN,
            abandoned : SUBSET {"log", "result"}]

ProcessRow ==
  /\ engine \in BOOLEAN
  /\ proc \in [stage : Stages, signal : {"none", "stop", "lease", "session", "fail"},
               exec : {"off", "start", "creating", "created", "ready", "working", "failed"},
               clean : {"no", "begun", "destroyed", "parked"}]

EmitRow ==
  /\ emit \in [at : {"no", "loading", "loaded", "full", "persisted", "adopted", "waiting"},
               rec : 0 .. End, tail : Seq(Records), moved : BOOLEAN]
  /\ emit.at # "no" => emit.rec # 0

FlushRow ==
  flush \in [at : {"no", "sent", "acking", "removing", "refused", "stale"}, obj : Seq(Records),
             first : Nat, call : Calls \cup {0}]

LateRow ==
  late \in [at : {"no", "load", "acking", "removing"}, obj : Seq(Records), first : Nat]

TaskRows == EmitRow /\ FlushRow /\ LateRow

ServerRow ==
  server \in [stored : Seq(Records), receipts : SUBSET (Nat \X Nat), result : BOOLEAN,
              posted : BOOLEAN, lease : {"live", "due", "expired"}, session : {"live", "closed"}]

CallRows ==
  /\ calls \in [Calls -> [at : {"idle", "called", "fresh", "admitted"}, obj : Seq(Records), first : Nat]]
  /\ tally \in [made : 0 .. MaxRecords, told : SUBSET Records, faults : 0 .. MaxFaults]

Rows == SlotRow /\ ProcessRow /\ TaskRows /\ ServerRow /\ CallRows

\* Who knows of the sandbox.
Custody ==
  /\ engine => slot.held /\ (slot.box \/ slot.op = "create")
  /\ slot.op = "create" => ~slot.box
  /\ proc.exec # "off" => proc.stage = "run"
  /\ proc.exec \in {"creating", "created"} => slot.op = "create"
  /\ proc.clean # "no" => proc.stage \in {"cleanup", "contained", "orphan"}
  /\ proc.clean \in {"begun", "destroyed"} => slot.box
  /\ proc.clean = "destroyed" => ~engine
  /\ proc.clean = "parked" => proc.stage = "contained"
  /\ proc.stage \in Finishing => slot.op # "create"
  /\ proc.stage = "deliver" => ~slot.box

\* How far the slot is.
Progress ==
  /\ proc.stage \notin {"hello", "idle"} => slot.held
  /\ proc.stage = "orphan" => slot.orphan
  /\ proc.stage \in {"run", "commit", "recording"} => slot.life \notin Terminal
  /\ proc.stage \in Finishing => slot.life \in Terminal
  /\ proc.stage \notin {"hello", "idle", "orphan"} => ~slot.orphan
  /\ slot.result # "none" => slot.life \in Terminal
  /\ slot.eos => slot.life \in Terminal
  /\ slot.orphan => ~SessionLive
  /\ slot.result = "acked" => server.result
  /\ ~slot.held => slot.life \in Terminal /\ (server.result \/ slot.orphan)

\* An emission belongs to the executor, or closes the stream of a terminal slot,
\* and a delivery belongs to a stage that delivers.
Tasks ==
  /\ emit.at # "no" =>
       \/ proc.stage = "run" /\ emit.rec \in 1 .. MaxRecords /\ emit.rec = tally.made
       \/ emit.rec = End /\ slot.life \in Terminal
  /\ flush.at # "no" => proc.stage \in {"run", "backlog", "drain"}
  /\ flush.call # 0 => flush.at = "sent"

\* The content gate has one holder.
Gate ==
  /\ emit.at \in {"persisted", "adopted"} =>
       flush.at # "removing" /\ late.at # "removing" /\ proc.stage # "recording"
  /\ flush.at = "removing" => late.at # "removing" /\ proc.stage # "recording"
  /\ late.at = "removing" => proc.stage # "recording"

\* What the journal refers to, or is about to, is in the spool.
Content ==
  /\ emit.at = "persisted" => Candidate \in spool
  /\ proc.stage = "recording" => ResultObject \in spool
  /\ References \subseteq spool

\* Nothing is emitted after the end of the stream, an emission that starts a
\* segment finds none open, and a slot whose stream is drained has no backlog.
Emission ==
  /\ emit.at \notin {"no", "adopted"} => ~slot.eos
  /\ emit.at \in {"loaded", "persisted"} /\ emit.tail = <<>> => ~HasOpen
  /\ proc.stage \in {"drain", "cleanup", "deliver"} => emit.at = "no" /\ slot.eos
  /\ proc.stage \in {"cleanup", "deliver"} => slot.segs = <<>>

\* The backlog, as the journal's own validation wants it.
SegmentRows ==
  /\ \A i \in 1 .. Len(slot.segs) : slot.segs[i].obj # <<>>
  /\ Len(slot.segs) <= MaxSegments
  /\ CursorValid

\* While the log is not given up, the control plane has what was acknowledged,
\* or that and the head segment, and Log is what was emitted.
Kept == slot.held \/ ~slot.orphan

HeadStored ==
  /\ slot.segs # <<>> /\ Head(slot.segs).sealed
  /\ Len(server.stored) = slot.acked + Len(Head(slot.segs).obj)
  /\ \A i \in 1 .. Len(Head(slot.segs).obj) : server.stored[slot.acked + i] = Head(slot.segs).obj[i]
  /\ <<slot.acked + 1, Len(server.stored)>> \in server.receipts

Stored == Kept => Len(server.stored) = slot.acked \/ HeadStored

Unstored == IF Len(server.stored) = slot.acked THEN slot.segs ELSE Tail(slot.segs)
Log == server.stored \o Frames(Unstored)

\* The log is in the order of emission and has what was reported durable.
LogRows ==
  Kept => /\ Increasing(Log)
          /\ tally.told \subseteq Range(Log)
          /\ emit.at = "adopted" => emit.rec \in Range(Log)
          /\ slot.eos <=> End \in Range(Log)
          /\ \A r \in Range(Log) : r # End => r <= tally.made
          /\ emit.at \notin {"no", "adopted"} => \A r \in Range(Log) : r < emit.rec

\* A batch is the head, or was acknowledged.
Batch(b) ==
  /\ b.obj # <<>>
  /\ \/ Through(b) <= slot.acked /\ Span(b) \in server.receipts
     \/ /\ b.first = slot.acked + 1
        /\ slot.segs # <<>> /\ Head(slot.segs).sealed /\ Head(slot.segs).obj = b.obj

\* The delivery waits for an execution of its own batch.
Matched ==
  flush.call # 0 => /\ calls[flush.call].at # "idle"
                    /\ calls[flush.call].obj = flush.obj /\ calls[flush.call].first = flush.first

\* What the runner sends and the control plane executes are batches, and what
\* it is answered is stored.
Deliveries ==
  /\ Matched
  /\ \A sp \in server.receipts : sp[2] <= Len(server.stored)
  /\ Kept => /\ flush.at = "sent" => Batch(flush)
             /\ \A c \in Calls : calls[c].at # "idle" => Batch(calls[c])
  /\ flush.at = "acking" => Through(flush) <= Len(server.stored)
  /\ late.at = "acking" => Through(late) <= Len(server.stored)

\* The result follows everything else.
Concluded ==
  /\ server.posted =>
       /\ slot.eos /\ slot.segs = <<>> /\ slot.life \in Terminal /\ emit.at = "no"
       /\ ~slot.box /\ ~engine
       /\ End \in Range(server.stored) /\ tally.told \subseteq Range(server.stored)
  /\ server.result => server.posted

\* Sealing closes the last segment and changes nothing else.
LEMMA SealType ==
  ASSUME NEW segs \in Seq(Segments)
  PROVE  /\ Seal(segs) \in Seq(Segments) /\ Len(Seal(segs)) = Len(segs)
         /\ \A i \in 1 .. Len(segs) : /\ Seal(segs)[i].obj = segs[i].obj
                                      /\ Seal(segs)[i].sealed = (segs[i].sealed \/ i = Len(segs))
<1>1. DOMAIN segs = 1 .. Len(segs) /\ \A i \in 1 .. Len(segs) : segs[i] \in Segments
  OBVIOUS
<1>2. Seal(segs) = [i \in 1 .. Len(segs) |-> [segs[i] EXCEPT !.sealed = @ \/ i = Len(segs)]]
  BY <1>1 DEF Seal
<1>3. \A i \in 1 .. Len(segs) : [segs[i] EXCEPT !.sealed = @ \/ i = Len(segs)] \in Segments
  BY <1>1 DEF Segments
<1>4. Seal(segs) \in Seq(Segments) /\ Len(Seal(segs)) = Len(segs)
  BY <1>2, <1>3
<1>5. \A i \in 1 .. Len(segs) : /\ Seal(segs)[i].obj = segs[i].obj
                                /\ Seal(segs)[i].sealed = (segs[i].sealed \/ i = Len(segs))
  BY <1>1, <1>2 DEF Segments
<1> QED
  BY <1>4, <1>5

\* What the slot's parts contain.
LEMMA SlotParts ==
  ASSUME Rows
  PROVE  /\ slot.segs \in Seq(Segments) /\ slot.acked \in Nat /\ server.stored \in Seq(Records)
         /\ slot.segs # <<>> =>
              /\ Len(slot.segs) \in 1 .. Len(slot.segs)
              /\ Last(slot.segs) = slot.segs[Len(slot.segs)] /\ Last(slot.segs) \in Segments
              /\ Head(slot.segs) = slot.segs[1] /\ Head(slot.segs) \in Segments
              /\ Tail(slot.segs) \in Seq(Segments) /\ Len(Tail(slot.segs)) = Len(slot.segs) - 1
<1>1. slot.segs \in Seq(Segments) /\ slot.acked \in Nat /\ server.stored \in Seq(Records)
  BY DEF Rows, SlotRow, ServerRow
<1>2. ASSUME NEW segs \in Seq(Segments), segs # <<>>
      PROVE  /\ Len(segs) \in 1 .. Len(segs)
             /\ Last(segs) = segs[Len(segs)] /\ Last(segs) \in Segments
             /\ Head(segs) = segs[1] /\ Head(segs) \in Segments
             /\ Tail(segs) \in Seq(Segments) /\ Len(Tail(segs)) = Len(segs) - 1
  BY <1>2 DEF Last
<1> QED
  BY <1>1, <1>2

\* What an emission hands to the journal.
LEMMA CandidateType ==
  ASSUME Rows, emit.at # "no"
  PROVE  /\ emit.tail \in Seq(Records) /\ emit.rec \in Records /\ Candidate \in Seq(Records)
         /\ Len(Candidate) = Len(emit.tail) + 1 /\ Last(Candidate) = emit.rec /\ Candidate # <<>>
<1>1. MaxRecords \in Nat /\ End = MaxRecords + 1
  BY RunnerSlotAssumption DEF End
<1>2. emit.tail \in Seq(Records) /\ emit.rec \in Records
  BY <1>1 DEF Rows, TaskRows, EmitRow, Records
<1>3. ASSUME NEW t \in Seq(Records), NEW r \in Records
      PROVE  /\ Append(t, r) \in Seq(Records) /\ Len(Append(t, r)) = Len(t) + 1
             /\ Last(Append(t, r)) = r /\ Append(t, r) # <<>>
  BY DEF Last
<1> QED
  BY <1>2, <1>3 DEF Candidate

\* The segments with what an emission has prepared.
LEMMA AdoptType ==
  ASSUME Rows, emit.at # "no", emit.tail # <<>> => HasOpen
  PROVE  SegmentsWith(Candidate) \in Seq(Segments)
<1>1. PICK seg : seg = [obj |-> Candidate, sealed |-> Last(Candidate) = End]
  OBVIOUS
<1>2. seg \in Segments
  BY <1>1, CandidateType DEF Segments
<1>3. SegmentsWith(Candidate) = IF emit.tail # <<>> THEN [slot.segs EXCEPT ![Len(slot.segs)] = seg]
                                ELSE Append(slot.segs, seg)
  BY <1>1 DEF SegmentsWith
<1>4. slot.segs \in Seq(Segments)
  BY SlotParts
<1> QED
  BY <1>2, <1>3, <1>4 DEF HasOpen

\* The journal row without its first segment.
LEMMA AcknowledgeType ==
  ASSUME Rows, NEW b, b.obj \in Seq(Records), b.first \in Nat,
         slot' = slot \/ (AcknowledgesHead(b) /\ slot' = WithoutHead(b))
  PROVE  SlotRow'
<1>1. CASE slot' = slot
  BY <1>1 DEF Rows, SlotRow
<1>2. CASE AcknowledgesHead(b) /\ slot' = WithoutHead(b)
  <2>1. slot.segs # <<>> /\ slot.acked + 1 = b.first
    BY <1>2 DEF AcknowledgesHead
  <2>2. Tail(slot.segs) \in Seq(Segments)
    BY <2>1, SlotParts
  <2>3. Through(b) \in Nat
    <3>1. slot.acked \in Nat /\ Len(b.obj) \in Nat
      BY SlotParts
    <3> QED
      BY <2>1, <3>1 DEF Through
  <2> QED
    BY <1>2, <2>2, <2>3 DEF WithoutHead, Rows, SlotRow
<1> QED
  BY <1>1, <1>2

\* The journal row stays what it is.
LEMMA SlotRowStep ==
  ASSUME Rows, Next
  PROVE  SlotRow'
<1>1. CASE Resume \/ ResumeOrphan \/ CloseBegin \/ CloseDone \/ DestroySandbox \/ CleanupDone \/
         PostResult \/ CreateSandbox \/ RecoverSandbox \/ FinishExecution \/ EmitPersist \/ EmitDone
         \/ EmitWait \/ FlushCaughtUp \/ FlushCall \/ FlushRemove \/ FlushEnds \/ CommitResult \/
         NoticeExpiry \/ HeartbeatFails \/ SiblingEndsSession \/ EmitRecord \/ CancelRefused \/
         FlushTimeout \/
         HeartbeatRefused \/ LeaseRunsOut \/ CloseSession \/ Crash
  BY <1>1 DEF Resume, Dispatch, ResumeTerminal, Stage, Restarted, LostCustody, ExecutorStart,
       SessionLive, ResumeOrphan, CloseBegin, NoEmit, CloseDone, DestroySandbox, CleanupDone,
       PostResult, CreateSandbox, RecoverSandbox, Executing, FinishExecution, ProcessEnds,
       DropDelivery, AfterExecution, NoFlush, NoLate, EmitPersist, EmitDone, EmitWait, EmitTurn,
       EmitFails, FlushCaughtUp, FlushCall, FlushRemove, FlushEnds, CommitResult, AttemptActive,
       NoticeExpiry, Stop, Maintained, HeartbeatFails, SiblingEndsSession, EmitRecord,
       CancelRefused, Faulty,
       FlushTimeout, HeartbeatRefused, LeaseRunsOut, CloseSession, IdleCall, Crash, Rows, SlotRow,
       Lives, Terminal
<1>2. CASE AuthorizeOrphan
  BY <1>2 DEF AuthorizeOrphan, Stage, SessionLive, Rows, SlotRow, Lives, Terminal
<1>3. CASE AbandonDelivery
  <2>1. PICK d \in {"log", "result"} : slot' = [slot EXCEPT !.abandoned = @ \cup {d}]
    BY <1>3 DEF AbandonDelivery, PendingDeliveries
  <2> QED
    BY <2>1 DEF Rows, SlotRow
<1>4. CASE ReleaseOrphan
  <2>1. slot' = slot \/ slot' = [slot EXCEPT !.held = FALSE, !.segs = <<>>]
    BY <1>4 DEF ReleaseOrphan
  <2>2. <<>> \in Seq(Segments)
    OBVIOUS
  <2> QED
    BY <2>1, <2>2 DEF Rows, SlotRow
<1>5. CASE PersistResult
  BY <1>5 DEF PersistResult, Stage, Rows, SlotRow, Lives, Terminal
<1>6. CASE RecordResult
  BY <1>6 DEF RecordResult, Stage, ProcessEnds, Restarted, NoEmit, NoFlush, NoLate, LostCustody,
       Rows, SlotRow, Lives, Terminal
<1>7. CASE DestroyIntent
  BY <1>7 DEF DestroyIntent, Cleaning, Rows, SlotRow, Lives, Terminal
<1>8. CASE SandboxDestroyed
  BY <1>8 DEF SandboxDestroyed, Rows, SlotRow, Lives, Terminal
<1>9. CASE ResultAcknowledged
  BY <1>9 DEF ResultAcknowledged, SessionLive, Rows, SlotRow, Lives, Terminal
<1>10. CASE ReleaseSlot
  <2>1. slot' = [slot EXCEPT !.held = FALSE, !.segs = <<>>]
    BY <1>10 DEF ReleaseSlot
  <2>2. <<>> \in Seq(Segments)
    OBVIOUS
  <2> QED
    BY <2>1, <2>2 DEF Rows, SlotRow
<1>11. CASE CreateIntent
  BY <1>11 DEF CreateIntent, Executing, Rows, SlotRow, Lives, Terminal
<1>12. CASE SandboxCreated
  BY <1>12 DEF SandboxCreated, Rows, SlotRow, Lives, Terminal
<1>13. CASE BeginRunning
  BY <1>13 DEF BeginRunning, Executing, Rows, SlotRow, Lives, Terminal
<1>14. CASE EmitLoad
  BY <1>14 DEF EmitLoad, EmitFails, NoEmit, OpenTail, HasOpen, Rows, SlotRow, Lives, Terminal
<1>15. CASE EmitSeal
  <2>1. slot' = slot \/ slot' = [slot EXCEPT !.segs = Seal(slot.segs)]
    BY <1>15 DEF EmitSeal
  <2> QED
    BY <2>1, SealType DEF Rows, SlotRow
<1>16. CASE EmitAdopt
  <2>1. CASE slot' = slot
    BY <2>1 DEF Rows, SlotRow
  <2>2. CASE slot' # slot
    <3>1. /\ slot' = [slot EXCEPT !.segs = SegmentsWith(Candidate), !.eos = emit.rec = End]
          /\ TailUnchanged /\ emit.at # "no"
      BY <1>16, <2>2 DEF EmitAdopt
    <3>2. SegmentsWith(Candidate) \in Seq(Segments)
      BY <3>1, AdoptType DEF TailUnchanged, OpenTail
    <3> QED
      BY <3>1, <3>2 DEF Rows, SlotRow
  <2> QED
    BY <2>1, <2>2
<1>17. CASE FlushLoad
  <2>1. slot' = [slot EXCEPT !.segs = Seal(slot.segs)]
    BY <1>17 DEF FlushLoad
  <2> QED
    BY <2>1, SealType DEF Rows, SlotRow
<1>18. CASE FlushAck
  <2>1. slot' = slot \/ (AcknowledgesHead(flush) /\ slot' = WithoutHead(flush))
    BY <1>18 DEF FlushAck, Acknowledge
  <2>2. flush.obj \in Seq(Records) /\ flush.first \in Nat
    BY DEF Rows, TaskRows, FlushRow
  <2> QED
    BY <2>1, <2>2, AcknowledgeType DEF Rows
<1>19. CASE LateTask
  <2>1. \/ slot' = slot
        \/ slot' = [slot EXCEPT !.segs = Seal(slot.segs)]
        \/ (AcknowledgesHead(late) /\ slot' = WithoutHead(late))
    BY <1>19 DEF LateTask, Acknowledge
  <2>2. late.obj \in Seq(Records) /\ late.first \in Nat
    BY DEF Rows, TaskRows, LateRow
  <2>3. CASE slot' = [slot EXCEPT !.segs = Seal(slot.segs)]
    BY <2>3, SealType DEF Rows, SlotRow
  <2> QED
    BY <2>1, <2>2, <2>3, AcknowledgeType DEF Rows
<1>20. ASSUME NEW c \in Calls, LookupReceipt(c) PROVE SlotRow'
  BY <1>20 DEF LookupReceipt, Rows, SlotRow
<1>21. ASSUME NEW c \in Calls, AdmitSegment(c) PROVE SlotRow'
  BY <1>21 DEF AdmitSegment, Rows, SlotRow
<1>22. ASSUME NEW c \in Calls, CommitSegment(c) PROVE SlotRow'
  BY <1>22 DEF CommitSegment, Rows, SlotRow
<1>23. CASE CreateFails
  BY <1>23 DEF CreateFails, Faulty, Rows, SlotRow, Lives, Terminal
<1>24. CASE DestroyFails
  BY <1>24 DEF DestroyFails, Faulty, ProcessEnds, Restarted, NoEmit, NoFlush, NoLate, Rows, SlotRow,
       Lives, Terminal
<1>25. CASE Cancel
  BY <1>25 DEF Cancel, Stop, DropDelivery, NoFlush, NoLate, SessionLive, Rows, SlotRow, Lives,
       Terminal
<1> QED
  BY <1>1, <1>2, <1>3, <1>4, <1>5, <1>6, <1>7, <1>8, <1>9, <1>10, <1>11, <1>12, <1>13, <1>14, <1>15,
       <1>16, <1>17, <1>18, <1>19, <1>20, <1>21, <1>22, <1>23, <1>24, <1>25 DEF Next, SlotLoop,
       Executor, Emitter, Flusher, Server, Watch, Environment

\* The process is at one of its places.
LEMMA ProcessRowStep ==
  ASSUME Rows, Next
  PROVE  ProcessRow'
<1>1. CASE Resume
  BY <1>1 DEF Resume, Dispatch, ResumeTerminal, Stage, Restarted, LostCustody, ExecutorStart,
       SessionLive, Rows, ProcessRow, Stages
<1>2. CASE AuthorizeOrphan
  BY <1>2 DEF AuthorizeOrphan, Stage, SessionLive, Rows, ProcessRow, Stages
<1>3. CASE ResumeOrphan
  BY <1>3 DEF ResumeOrphan, Stage, Rows, ProcessRow, Stages
<1>4. CASE AbandonDelivery \/ CloseBegin \/ PostResult \/ ResultAcknowledged \/ EmitSeal \/
         EmitPersist \/ EmitDone \/ FlushLoad \/ FlushCall \/ FlushAck \/ FlushRemove \/ LateTask \/
         CommitResult \/ EmitRecord \/ FlushTimeout \/ LeaseRunsOut \/ CloseSession
  BY <1>4 DEF AbandonDelivery, CloseBegin, PostResult, ResultAcknowledged, SessionLive, EmitSeal,
       EmitPersist, EmitDone, FlushLoad, Delivering, FlushCall, FlushAck, FlushRemove, LateTask,
       CommitResult, AttemptActive, EmitRecord, Executing, FlushTimeout, Faulty, LeaseRunsOut,
       CloseSession, IdleCall, Rows, ProcessRow, Stages
<1>5. CASE ReleaseOrphan
  BY <1>5 DEF ReleaseOrphan, Stage, ReleaseAllowed, ProcessEnds, Restarted, Rows, ProcessRow, Stages
<1>6. CASE PersistResult
  BY <1>6 DEF PersistResult, Stage, Rows, ProcessRow, Stages
<1>7. CASE RecordResult
  BY <1>7 DEF RecordResult, Stage, ProcessEnds, Restarted, LostCustody, Rows, ProcessRow, Stages
<1>8. CASE CloseDone
  BY <1>8 DEF CloseDone, Stage, Rows, ProcessRow, Stages
<1>9. CASE DestroyIntent
  BY <1>9 DEF DestroyIntent, Cleaning, Rows, ProcessRow, Stages
<1>10. CASE DestroySandbox
  BY <1>10 DEF DestroySandbox, Rows, ProcessRow, Stages
<1>11. CASE SandboxDestroyed
  BY <1>11 DEF SandboxDestroyed, Rows, ProcessRow, Stages
<1>12. CASE CleanupDone
  BY <1>12 DEF CleanupDone, Stage, Rows, ProcessRow, Stages
<1>13. CASE ReleaseSlot
  BY <1>13 DEF ReleaseSlot, Stage, ReleaseAllowed, Rows, ProcessRow, Stages
<1>14. CASE CreateIntent
  BY <1>14 DEF CreateIntent, Executing, Rows, ProcessRow, Stages
<1>15. CASE CreateSandbox
  BY <1>15 DEF CreateSandbox, Rows, ProcessRow, Stages
<1>16. CASE SandboxCreated
  BY <1>16 DEF SandboxCreated, Rows, ProcessRow, Stages
<1>17. CASE RecoverSandbox
  BY <1>17 DEF RecoverSandbox, Executing, Rows, ProcessRow, Stages
<1>18. CASE BeginRunning
  BY <1>18 DEF BeginRunning, Executing, Rows, ProcessRow, Stages
<1>19. CASE FinishExecution
  BY <1>19 DEF FinishExecution, Executing, ProcessEnds, AfterExecution, Restarted, Rows, ProcessRow,
       Stages
<1>20. CASE EmitLoad
  BY <1>20 DEF EmitLoad, EmitFails, Rows, ProcessRow, Stages
<1>21. CASE EmitAdopt
  BY <1>21 DEF EmitAdopt, EmitFails, Rows, ProcessRow, Stages
<1>22. CASE EmitWait
  BY <1>22 DEF EmitWait, EmitFails, Rows, ProcessRow, Stages
<1>23. CASE FlushCaughtUp
  BY <1>23 DEF FlushCaughtUp, Stage, Rows, ProcessRow, Stages
<1>24. CASE FlushEnds
  BY <1>24 DEF FlushEnds, Stage, Restarted, Rows, ProcessRow, Stages
<1>25. ASSUME NEW c \in Calls, LookupReceipt(c) PROVE ProcessRow'
  BY <1>25 DEF LookupReceipt, Rows, ProcessRow
<1>26. ASSUME NEW c \in Calls, AdmitSegment(c) PROVE ProcessRow'
  BY <1>26 DEF AdmitSegment, Rows, ProcessRow
<1>27. ASSUME NEW c \in Calls, CommitSegment(c) PROVE ProcessRow'
  BY <1>27 DEF CommitSegment, Rows, ProcessRow
<1>28. CASE NoticeExpiry
  BY <1>28 DEF NoticeExpiry, Stop, Maintained, Stage, Rows, ProcessRow, Stages
<1>29. CASE HeartbeatFails \/ SiblingEndsSession
  BY <1>29 DEF HeartbeatFails, SiblingEndsSession, Stop, Maintained, Restarted, Rows, ProcessRow,
       Stages
<1>30. CASE CreateFails
  BY <1>30 DEF CreateFails, Faulty, Rows, ProcessRow, Stages
<1>31. CASE DestroyFails
  <2>1. engine' \in BOOLEAN
    BY <1>31 DEF DestroyFails, Rows, ProcessRow
  <2>2. proc' = Restarted \/ \E c \in {"no", "parked"} : proc' = [proc EXCEPT !.clean = c]
    BY <1>31 DEF DestroyFails, ProcessEnds
  <2> QED
    BY <2>1, <2>2 DEF Restarted, Rows, ProcessRow, Stages
<1>32. CASE Cancel
  <2>1. engine' = engine /\ (proc' = proc \/ proc' = [proc EXCEPT !.signal = "stop"])
    BY <1>32 DEF Cancel, Stop
  <2> QED
    BY <2>1 DEF Rows, ProcessRow
<1>33. CASE CancelRefused
  BY <1>33 DEF CancelRefused, Faulty, ProcessEnds, Restarted, Rows, ProcessRow, Stages
<1>34. CASE HeartbeatRefused
  BY <1>34 DEF HeartbeatRefused, Faulty, ProcessEnds, Restarted, Stop, Maintained, Rows, ProcessRow,
       Stages
<1>35. CASE Crash
  BY <1>35 DEF Crash, Faulty, ProcessEnds, Restarted, Rows, ProcessRow, Stages
<1> QED
  BY <1>1, <1>2, <1>3, <1>4, <1>5, <1>6, <1>7, <1>8, <1>9, <1>10, <1>11, <1>12, <1>13, <1>14, <1>15,
       <1>16, <1>17, <1>18, <1>19, <1>20, <1>21, <1>22, <1>23, <1>24, <1>25, <1>26, <1>27, <1>28,
       <1>29, <1>30, <1>31, <1>32, <1>33, <1>34, <1>35 DEF Next, SlotLoop, Executor, Emitter,
       Flusher, Server, Watch, Environment

\* An emission between two steps.
LEMMA EmitTypes ==
  ASSUME Rows,
         \/ emit' = emit \/ emit' = NoEmit
         \/ emit.at # "no" /\ emit' = EmitTurn
         \/ \E m : emit' = [emit EXCEPT !.moved = m] /\ m \in BOOLEAN
         \/ emit.at # "no" /\ \E a \in {"persisted", "adopted", "waiting"} : emit' = [emit EXCEPT !.at = a]
  PROVE  EmitRow'
<1>1. <<>> \in Seq(Records) /\ 0 \in 0 .. End
  BY RunnerSlotAssumption DEF End
<1>2. CASE emit' = emit
  BY <1>2 DEF Rows, TaskRows, EmitRow
<1>3. CASE emit' = NoEmit
  BY <1>1, <1>3 DEF NoEmit, EmitRow
<1>4. CASE emit.at # "no" /\ emit' = EmitTurn
  BY <1>1, <1>4 DEF EmitTurn, Rows, TaskRows, EmitRow
<1>5. CASE \E m : emit' = [emit EXCEPT !.moved = m] /\ m \in BOOLEAN
  BY <1>5 DEF Rows, TaskRows, EmitRow
<1>6. CASE emit.at # "no" /\ \E a \in {"persisted", "adopted", "waiting"} : emit' = [emit EXCEPT !.at = a]
  BY <1>6 DEF Rows, TaskRows, EmitRow
<1> QED
  BY <1>2, <1>3, <1>4, <1>5, <1>6

\* A delivery between two steps.
LEMMA FlushTypes ==
  ASSUME Rows, \/ flush' = flush \/ flush' = NoFlush
               \/ \E a \in {"acking", "removing", "refused", "stale"} : flush' = [flush EXCEPT !.at = a]
               \/ \E a \in {"acking", "refused", "stale"} : flush' = [flush EXCEPT !.at = a, !.call = 0]
               \/ \E c \in Calls \cup {0} : flush' = [flush EXCEPT !.call = c]
  PROVE  FlushRow'
<1>1. <<>> \in Seq(Records)
  OBVIOUS
<1>2. CASE flush' = flush
  BY <1>2 DEF Rows, TaskRows, FlushRow
<1>6. CASE flush' = NoFlush
  BY <1>1, <1>6 DEF NoFlush, FlushRow
<1>3. CASE \E a \in {"acking", "removing", "refused", "stale"} : flush' = [flush EXCEPT !.at = a]
  BY <1>3 DEF Rows, TaskRows, FlushRow
<1>4. CASE \E a \in {"acking", "refused", "stale"} : flush' = [flush EXCEPT !.at = a, !.call = 0]
  BY <1>4 DEF Rows, TaskRows, FlushRow
<1>5. CASE \E c \in Calls \cup {0} : flush' = [flush EXCEPT !.call = c]
  BY <1>5 DEF Rows, TaskRows, FlushRow
<1> QED
  BY <1>2, <1>3, <1>4, <1>5, <1>6

\* A blocking task that outlives its caller carries what its caller did.
LEMMA LateTypes ==
  ASSUME Rows, DropDelivery \/ late' = late \/ late' = NoLate \/ late' = [late EXCEPT !.at = "removing"]
  PROVE  LateRow'
<1>1. <<>> \in Seq(Records)
  OBVIOUS
<1>2. CASE late' = late
  BY <1>2 DEF Rows, TaskRows, LateRow
<1>3. CASE late' = NoLate
  BY <1>1, <1>3 DEF NoLate, LateRow
<1>4. CASE late' = [late EXCEPT !.at = "removing"]
  BY <1>4 DEF Rows, TaskRows, LateRow
<1>5. CASE late' = [NoLate EXCEPT !.at = "load"]
  BY <1>1, <1>5 DEF NoLate, LateRow
<1>6. CASE late' = [at |-> flush.at, obj |-> flush.obj, first |-> flush.first] /\ flush.at \in {"acking", "removing"}
  <2>1. flush.obj \in Seq(Records) /\ flush.first \in Nat
    BY DEF Rows, TaskRows, FlushRow
  <2> QED
    BY <1>6, <2>1 DEF LateRow
<1> QED
  BY <1>2, <1>3, <1>4, <1>5, <1>6 DEF DropDelivery

\* The tasks are at one of their places.
LEMMA TaskRowsStep ==
  ASSUME Rows, Next
  PROVE  TaskRows'
<1>1. CASE Resume \/ AuthorizeOrphan \/ ResumeOrphan \/ AbandonDelivery \/ PersistResult \/
         CloseDone \/ DestroyIntent \/ DestroySandbox \/ SandboxDestroyed \/ CleanupDone \/
         PostResult \/ ResultAcknowledged \/ ReleaseSlot \/ CreateIntent \/ CreateSandbox \/
         SandboxCreated \/ RecoverSandbox \/ BeginRunning \/ FlushCaughtUp \/ CommitResult \/
         CreateFails \/ LeaseRunsOut \/ CloseSession
  BY <1>1 DEF Resume, AuthorizeOrphan, ResumeOrphan, AbandonDelivery, PersistResult, CloseDone,
       DestroyIntent, DestroySandbox, SandboxDestroyed, CleanupDone, PostResult, ResultAcknowledged,
       ReleaseSlot, CreateIntent, CreateSandbox, SandboxCreated, RecoverSandbox, BeginRunning,
       FlushCaughtUp, CommitResult, CreateFails, LeaseRunsOut, CloseSession, Rows, TaskRows,
       EmitRow, FlushRow, LateRow
<1>2. CASE ReleaseOrphan
  <2>1. EmitRow'
    BY <1>2, EmitTypes DEF ReleaseOrphan, ProcessEnds
  <2>2. FlushRow'
    BY <1>2, FlushTypes DEF ReleaseOrphan, ProcessEnds, DropDelivery
  <2>3. LateRow'
    BY <1>2, LateTypes DEF ReleaseOrphan, ProcessEnds
  <2> QED
    BY <2>1, <2>2, <2>3 DEF TaskRows
<1>3. CASE RecordResult
  <2>1. EmitRow'
    BY <1>3, EmitTypes DEF RecordResult, ProcessEnds
  <2>2. FlushRow'
    BY <1>3, FlushTypes DEF RecordResult, ProcessEnds, DropDelivery
  <2>3. LateRow'
    BY <1>3, LateTypes DEF RecordResult, ProcessEnds
  <2> QED
    BY <2>1, <2>2, <2>3 DEF TaskRows
<1>4. CASE CloseBegin
  <2>1. <<>> \in Seq(Records) /\ End \in 0 .. End /\ End # 0
    BY RunnerSlotAssumption DEF End
  <2>2. EmitRow'
    BY <1>4, <2>1 DEF CloseBegin, NoEmit, EmitRow
  <2> QED
    BY <1>4, <2>2, FlushTypes, LateTypes DEF CloseBegin, TaskRows
<1>5. CASE FinishExecution
  <2>1. EmitRow'
    BY <1>5, EmitTypes DEF FinishExecution, ProcessEnds
  <2>2. FlushRow'
    BY <1>5, FlushTypes DEF FinishExecution, ProcessEnds, DropDelivery
  <2>3. LateRow'
    BY <1>5, LateTypes DEF FinishExecution, ProcessEnds
  <2> QED
    BY <2>1, <2>2, <2>3 DEF TaskRows
<1>6. CASE EmitLoad
  <2>1. <<>> \in Seq(Records)
    OBVIOUS
  <2>2. OpenTail \in Seq(Records)
    BY <2>1, SlotParts DEF OpenTail, HasOpen, Segments
  <2>3. CASE emit' = NoEmit
    BY <1>6, <2>3, EmitTypes, FlushTypes, LateTypes DEF EmitLoad, TaskRows
  <2>4. CASE emit' # NoEmit
    <3>1. emit.at # "no" /\ \E a \in {"loaded", "full"} : emit' = [emit EXCEPT !.at = a, !.tail = OpenTail]
      BY <1>6, <2>4 DEF EmitLoad, EmitFails
    <3>2. EmitRow'
      BY <2>2, <3>1 DEF Rows, TaskRows, EmitRow
    <3> QED
      BY <1>6, <3>2, FlushTypes, LateTypes DEF EmitLoad, TaskRows
  <2> QED
    BY <2>3, <2>4
<1>7. CASE EmitSeal
  <2>1. EmitRow'
    BY <1>7, EmitTypes DEF EmitSeal
  <2>2. FlushRow'
    BY <1>7, FlushTypes DEF EmitSeal
  <2>3. LateRow'
    BY <1>7, LateTypes DEF EmitSeal
  <2> QED
    BY <2>1, <2>2, <2>3 DEF TaskRows
<1>8. CASE EmitPersist
  <2>1. EmitRow'
    BY <1>8, EmitTypes DEF EmitPersist
  <2>2. FlushRow'
    BY <1>8, FlushTypes DEF EmitPersist
  <2>3. LateRow'
    BY <1>8, LateTypes DEF EmitPersist
  <2> QED
    BY <2>1, <2>2, <2>3 DEF TaskRows
<1>9. CASE EmitAdopt
  <2>1. EmitRow'
    BY <1>9, EmitTypes DEF EmitAdopt, EmitFails
  <2>2. FlushRow'
    BY <1>9, FlushTypes DEF EmitAdopt
  <2>3. LateRow'
    BY <1>9, LateTypes DEF EmitAdopt
  <2> QED
    BY <2>1, <2>2, <2>3 DEF TaskRows
<1>10. CASE EmitDone
  <2>1. EmitRow'
    BY <1>10, EmitTypes DEF EmitDone
  <2>2. FlushRow'
    BY <1>10, FlushTypes DEF EmitDone
  <2>3. LateRow'
    BY <1>10, LateTypes DEF EmitDone
  <2> QED
    BY <2>1, <2>2, <2>3 DEF TaskRows
<1>11. CASE EmitWait
  <2>1. EmitRow'
    BY <1>11, EmitTypes DEF EmitWait, EmitFails
  <2>2. FlushRow'
    BY <1>11, FlushTypes DEF EmitWait
  <2>3. LateRow'
    BY <1>11, LateTypes DEF EmitWait
  <2> QED
    BY <2>1, <2>2, <2>3 DEF TaskRows
<1>12. CASE FlushLoad
  <2>1. Head(slot.segs).obj \in Seq(Records) /\ slot.acked + 1 \in Nat
    BY <1>12, SlotParts DEF FlushLoad, Segments
  <2>2. FlushRow'
    BY <1>12, <2>1 DEF FlushLoad, FlushRow
  <2> QED
    BY <1>12, <2>2, EmitTypes, LateTypes DEF FlushLoad, TaskRows
<1>13. CASE FlushCall
  <2>1. EmitRow'
    BY <1>13, EmitTypes DEF FlushCall
  <2>2. FlushRow'
    BY <1>13, FlushTypes DEF FlushCall
  <2>3. LateRow'
    BY <1>13, LateTypes DEF FlushCall
  <2> QED
    BY <2>1, <2>2, <2>3 DEF TaskRows
<1>14. CASE FlushAck
  <2>1. \E m : emit' = [emit EXCEPT !.moved = m] /\ m \in BOOLEAN
    BY <1>14 DEF FlushAck, Acknowledge, Rows, TaskRows, EmitRow
  <2> QED
    BY <1>14, <2>1, EmitTypes, FlushTypes, LateTypes DEF FlushAck, TaskRows
<1>15. CASE FlushRemove
  <2>1. EmitRow'
    BY <1>15, EmitTypes DEF FlushRemove
  <2>2. FlushRow'
    BY <1>15, FlushTypes DEF FlushRemove
  <2>3. LateRow'
    BY <1>15, LateTypes DEF FlushRemove
  <2> QED
    BY <2>1, <2>2, <2>3 DEF TaskRows
<1>16. CASE FlushEnds
  <2>1. EmitRow'
    BY <1>16, EmitTypes DEF FlushEnds
  <2>2. FlushRow'
    BY <1>16, FlushTypes DEF FlushEnds
  <2>3. LateRow'
    BY <1>16, LateTypes DEF FlushEnds
  <2> QED
    BY <2>1, <2>2, <2>3 DEF TaskRows
<1>17. CASE LateTask
  <2>1. emit' = emit \/ \E m : emit' = [emit EXCEPT !.moved = m] /\ m \in BOOLEAN
    BY <1>17 DEF LateTask, Acknowledge, Rows, TaskRows, EmitRow
  <2> QED
    BY <1>17, <2>1, EmitTypes, FlushTypes, LateTypes DEF LateTask, TaskRows
<1>18. ASSUME NEW c \in Calls, LookupReceipt(c) PROVE TaskRows'
  <2>1. EmitRow'
    BY <1>18, EmitTypes DEF LookupReceipt
  <2>2. FlushRow'
    BY <1>18, FlushTypes DEF LookupReceipt, Answered
  <2>3. LateRow'
    BY <1>18, LateTypes DEF LookupReceipt
  <2> QED
    BY <2>1, <2>2, <2>3 DEF TaskRows
<1>19. ASSUME NEW c \in Calls, AdmitSegment(c) PROVE TaskRows'
  <2>1. EmitRow'
    BY <1>19, EmitTypes DEF AdmitSegment
  <2>2. FlushRow'
    BY <1>19, FlushTypes DEF AdmitSegment, Answered
  <2>3. LateRow'
    BY <1>19, LateTypes DEF AdmitSegment
  <2> QED
    BY <2>1, <2>2, <2>3 DEF TaskRows
<1>20. ASSUME NEW c \in Calls, CommitSegment(c) PROVE TaskRows'
  <2>1. EmitRow'
    BY <1>20, EmitTypes DEF CommitSegment
  <2>2. FlushRow'
    BY <1>20, FlushTypes DEF CommitSegment, Answered
  <2>3. LateRow'
    BY <1>20, LateTypes DEF CommitSegment
  <2> QED
    BY <2>1, <2>2, <2>3 DEF TaskRows
<1>21. CASE NoticeExpiry
  <2>1. EmitRow'
    BY <1>21, EmitTypes DEF NoticeExpiry, ProcessEnds, Stop
  <2>2. FlushRow'
    BY <1>21, FlushTypes DEF NoticeExpiry, ProcessEnds, DropDelivery, Stop
  <2>3. LateRow'
    BY <1>21, LateTypes DEF NoticeExpiry, ProcessEnds, Stop
  <2> QED
    BY <2>1, <2>2, <2>3 DEF TaskRows
<1>22. CASE HeartbeatFails \/ SiblingEndsSession
  <2>1. EmitRow'
    BY <1>22, EmitTypes DEF HeartbeatFails, SiblingEndsSession, ProcessEnds, Stop
  <2>2. FlushRow'
    BY <1>22, FlushTypes DEF HeartbeatFails, SiblingEndsSession, ProcessEnds, DropDelivery, Stop
  <2>3. LateRow'
    BY <1>22, LateTypes DEF HeartbeatFails, SiblingEndsSession, ProcessEnds, Stop
  <2> QED
    BY <2>1, <2>2, <2>3 DEF TaskRows
<1>23. CASE EmitRecord
  <2>1. <<>> \in Seq(Records) /\ tally.made + 1 \in 0 .. End /\ tally.made + 1 # 0
    BY <1>23, RunnerSlotAssumption DEF End, EmitRecord, Rows, CallRows
  <2>2. EmitRow'
    BY <1>23, <2>1 DEF EmitRecord, NoEmit, EmitRow
  <2> QED
    BY <1>23, <2>2, FlushTypes, LateTypes DEF EmitRecord, TaskRows
<1>24. CASE DestroyFails
  <2>1. EmitRow'
    BY <1>24, EmitTypes DEF DestroyFails, ProcessEnds
  <2>2. FlushRow'
    BY <1>24, FlushTypes DEF DestroyFails, ProcessEnds, DropDelivery
  <2>3. LateRow'
    BY <1>24, LateTypes DEF DestroyFails, ProcessEnds
  <2> QED
    BY <2>1, <2>2, <2>3 DEF TaskRows
<1>25. CASE Cancel
  <2>1. EmitRow'
    BY <1>25, EmitTypes DEF Cancel, ProcessEnds, Stop
  <2>2. FlushRow'
    BY <1>25, FlushTypes DEF Cancel, ProcessEnds, DropDelivery, Stop
  <2>3. LateRow'
    BY <1>25, LateTypes DEF Cancel, ProcessEnds, Stop
  <2> QED
    BY <2>1, <2>2, <2>3 DEF TaskRows
<1>26. CASE CancelRefused
  <2>1. EmitRow'
    BY <1>26, EmitTypes DEF CancelRefused, ProcessEnds
  <2>2. FlushRow'
    BY <1>26, FlushTypes DEF CancelRefused, ProcessEnds, DropDelivery
  <2>3. LateRow'
    BY <1>26, LateTypes DEF CancelRefused, ProcessEnds
  <2> QED
    BY <2>1, <2>2, <2>3 DEF TaskRows
<1>27. CASE FlushTimeout
  <2>1. EmitRow'
    BY <1>27, EmitTypes DEF FlushTimeout
  <2>2. FlushRow'
    BY <1>27, FlushTypes DEF FlushTimeout
  <2>3. LateRow'
    BY <1>27, LateTypes DEF FlushTimeout
  <2> QED
    BY <2>1, <2>2, <2>3 DEF TaskRows
<1>28. CASE HeartbeatRefused
  <2>1. EmitRow'
    BY <1>28, EmitTypes DEF HeartbeatRefused, ProcessEnds, Stop
  <2>2. FlushRow'
    BY <1>28, FlushTypes DEF HeartbeatRefused, ProcessEnds, DropDelivery, Stop
  <2>3. LateRow'
    BY <1>28, LateTypes DEF HeartbeatRefused, ProcessEnds, Stop
  <2> QED
    BY <2>1, <2>2, <2>3 DEF TaskRows
<1>29. CASE Crash
  <2>1. EmitRow'
    BY <1>29, EmitTypes DEF Crash, ProcessEnds
  <2>2. FlushRow'
    BY <1>29, FlushTypes DEF Crash, ProcessEnds, DropDelivery
  <2>3. LateRow'
    BY <1>29, LateTypes DEF Crash, ProcessEnds
  <2> QED
    BY <2>1, <2>2, <2>3 DEF TaskRows
<1> QED
  BY <1>1, <1>2, <1>3, <1>4, <1>5, <1>6, <1>7, <1>8, <1>9, <1>10, <1>11, <1>12, <1>13, <1>14, <1>15,
       <1>16, <1>17, <1>18, <1>19, <1>20, <1>21, <1>22, <1>23, <1>24, <1>25, <1>26, <1>27, <1>28,
       <1>29 DEF Next, SlotLoop, Executor, Emitter, Flusher, Server, Watch, Environment

\* The rows of the control plane.
LEMMA ServerRowStep ==
  ASSUME Rows, Next
  PROVE  ServerRow'
<1>1. CASE Resume \/ AuthorizeOrphan \/ ResumeOrphan \/ AbandonDelivery \/ ReleaseOrphan \/
         PersistResult \/ RecordResult \/ CloseBegin \/ CloseDone \/ DestroyIntent \/ DestroySandbox
         \/ SandboxDestroyed \/ CleanupDone \/ ResultAcknowledged \/ ReleaseSlot \/ CreateIntent \/
         CreateSandbox \/ SandboxCreated \/ RecoverSandbox \/ BeginRunning \/ FinishExecution \/
         EmitLoad \/ EmitSeal \/ EmitPersist \/ EmitAdopt \/ EmitDone \/ EmitWait \/ FlushLoad \/
         FlushCaughtUp \/ FlushCall \/ FlushAck \/ FlushRemove \/ FlushEnds \/ LateTask \/
         NoticeExpiry \/ HeartbeatFails \/ SiblingEndsSession \/ EmitRecord \/ CreateFails \/
         DestroyFails \/ Cancel \/
         CancelRefused \/ FlushTimeout \/ HeartbeatRefused \/ Crash
  BY <1>1 DEF Resume, AuthorizeOrphan, ResumeOrphan, AbandonDelivery, ReleaseOrphan, PersistResult,
       RecordResult, CloseBegin, CloseDone, DestroyIntent, DestroySandbox, SandboxDestroyed,
       CleanupDone, ResultAcknowledged, ReleaseSlot, CreateIntent, CreateSandbox, SandboxCreated,
       RecoverSandbox, BeginRunning, FinishExecution, EmitLoad, EmitSeal, EmitPersist, EmitAdopt,
       EmitDone, EmitWait, FlushLoad, FlushCaughtUp, FlushCall, FlushAck, FlushRemove, FlushEnds,
       LateTask, NoticeExpiry, HeartbeatFails, SiblingEndsSession, EmitRecord, CreateFails,
       DestroyFails, Cancel,
       CancelRefused, FlushTimeout, HeartbeatRefused, Crash, Rows, ServerRow
<1>2. CASE PostResult
  BY <1>2 DEF PostResult, Rows, ServerRow
<1>3. ASSUME NEW c \in Calls, LookupReceipt(c) PROVE ServerRow'
  BY <1>3 DEF LookupReceipt, Rows, ServerRow
<1>4. ASSUME NEW c \in Calls, AdmitSegment(c) PROVE ServerRow'
  BY <1>4 DEF AdmitSegment, Rows, ServerRow
<1>5. ASSUME NEW c \in Calls, CommitSegment(c) PROVE ServerRow'
  <2>1. CASE server' = server
    BY <2>1 DEF Rows, ServerRow
  <2>2. CASE server' # server
    <3>1. /\ server' = [server EXCEPT !.stored = @ \o calls[c].obj, !.receipts = @ \cup {Span(calls[c])}]
          /\ PositionOpen(calls[c])
      BY <1>5, <2>2 DEF CommitSegment
    <3>2. calls[c].obj \in Seq(Records) /\ calls[c].first \in Nat
      BY <1>5 DEF Rows, CallRows
    <3>3. server.stored \o calls[c].obj \in Seq(Records)
      BY <3>2, SlotParts
    <3>4. Span(calls[c]) \in Nat \X Nat
      <4>1. Len(server.stored) \in Nat /\ Len(calls[c].obj) \in Nat
        BY <3>2, SlotParts
      <4>2. calls[c].first = Len(server.stored) + 1
        BY <3>1 DEF PositionOpen
      <4>3. ASSUME NEW n \in Nat, NEW m \in Nat PROVE (n + 1) + m - 1 \in Nat
        OBVIOUS
      <4>4. Through(calls[c]) \in Nat
        BY <4>1, <4>2, <4>3 DEF Through
      <4> QED
        BY <3>2, <4>4 DEF Span
    <3> QED
      BY <3>1, <3>3, <3>4 DEF Rows, ServerRow
  <2> QED
    BY <2>1, <2>2
<1>6. CASE CommitResult
  BY <1>6 DEF CommitResult, Rows, ServerRow
<1>7. CASE LeaseRunsOut
  BY <1>7 DEF LeaseRunsOut, Rows, ServerRow
<1>8. CASE CloseSession
  BY <1>8 DEF CloseSession, Rows, ServerRow
<1> QED
  BY <1>1, <1>2, <1>3, <1>4, <1>5, <1>6, <1>7, <1>8 DEF Next, SlotLoop, Executor, Emitter, Flusher,
       Server, Watch, Environment

\* The executions, and the counters of the model.
LEMMA CallRowsStep ==
  ASSUME Rows, Next
  PROVE  CallRows'
<1>1. CASE Resume \/ AuthorizeOrphan \/ ResumeOrphan \/ AbandonDelivery \/ ReleaseOrphan \/
         PersistResult \/ RecordResult \/ CloseBegin \/ CloseDone \/ DestroyIntent \/ DestroySandbox
         \/ SandboxDestroyed \/ CleanupDone \/ PostResult \/ ResultAcknowledged \/ ReleaseSlot \/
         CreateIntent \/ CreateSandbox \/ SandboxCreated \/ RecoverSandbox \/ BeginRunning \/
         FinishExecution \/ EmitLoad \/ EmitSeal \/ EmitPersist \/ EmitAdopt \/ EmitWait \/
         FlushLoad \/ FlushCaughtUp \/ FlushAck \/ FlushRemove \/ FlushEnds \/ LateTask \/
         CommitResult \/ NoticeExpiry \/ HeartbeatFails \/ SiblingEndsSession \/ Cancel \/
         LeaseRunsOut
  BY <1>1, RunnerSlotAssumption DEF Resume, AuthorizeOrphan, ResumeOrphan, AbandonDelivery,
       ReleaseOrphan, PersistResult, RecordResult, CloseBegin, CloseDone, DestroyIntent,
       DestroySandbox, SandboxDestroyed, CleanupDone, PostResult, ResultAcknowledged, ReleaseSlot,
       CreateIntent, CreateSandbox, SandboxCreated, RecoverSandbox, BeginRunning, FinishExecution,
       EmitLoad, EmitSeal, EmitPersist, EmitAdopt, EmitWait, FlushLoad, FlushCaughtUp, FlushAck,
       FlushRemove, FlushEnds, LateTask, CommitResult, NoticeExpiry, HeartbeatFails,
       SiblingEndsSession, Cancel,
       LeaseRunsOut, Rows, CallRows
<1>2. CASE EmitDone
  <2>1. emit.rec \in Records
    BY <1>2, CandidateType DEF EmitDone
  <2> QED
    BY <1>2, <2>1 DEF EmitDone, Rows, CallRows
<1>3. CASE FlushCall
  <2>1. flush.obj \in Seq(Records) /\ flush.first \in Nat
    BY DEF Rows, TaskRows, FlushRow
  <2>2. tally' = tally /\ \E c \in Calls : calls' = [calls EXCEPT ![c] = [at |-> "called", obj |-> flush.obj, first |-> flush.first]]
    BY <1>3 DEF FlushCall
  <2> QED
    BY <2>1, <2>2 DEF Rows, CallRows
<1>4. ASSUME NEW c \in Calls, LookupReceipt(c) PROVE CallRows'
  <2>1. tally' = tally
    BY <1>4 DEF LookupReceipt
  <2>2. \/ calls' = [calls EXCEPT ![c] = IdleCall]
        \/ \E a \in {"fresh", "admitted"} : calls' = [calls EXCEPT ![c].at = a]
    BY <1>4 DEF LookupReceipt, Answered
  <2> DEFINE Row == [at : {"idle", "called", "fresh", "admitted"}, obj : Seq(Records), first : Nat]
  <2>3. IdleCall \in Row
    BY DEF IdleCall
  <2>4. \A a \in {"fresh", "admitted"} : [calls[c] EXCEPT !.at = a] \in Row
    BY <1>4 DEF Rows, CallRows
  <2>5. calls \in [Calls -> Row]
    BY DEF Rows, CallRows
  <2>6. \E r \in Row : calls' = [calls EXCEPT ![c] = r]
    BY <2>2, <2>3, <2>4
  <2>7. calls' \in [Calls -> Row]
    <3> HIDE DEF Row
    <3> QED
      BY <2>5, <2>6
  <2> QED
    BY <2>1, <2>7 DEF Rows, CallRows
<1>5. ASSUME NEW c \in Calls, AdmitSegment(c) PROVE CallRows'
  <2>1. tally' = tally
    BY <1>5 DEF AdmitSegment
  <2>2. \/ calls' = [calls EXCEPT ![c] = IdleCall]
        \/ \E a \in {"fresh", "admitted"} : calls' = [calls EXCEPT ![c].at = a]
    BY <1>5 DEF AdmitSegment, Answered
  <2> DEFINE Row == [at : {"idle", "called", "fresh", "admitted"}, obj : Seq(Records), first : Nat]
  <2>3. IdleCall \in Row
    BY DEF IdleCall
  <2>4. \A a \in {"fresh", "admitted"} : [calls[c] EXCEPT !.at = a] \in Row
    BY <1>5 DEF Rows, CallRows
  <2>5. calls \in [Calls -> Row]
    BY DEF Rows, CallRows
  <2>6. \E r \in Row : calls' = [calls EXCEPT ![c] = r]
    BY <2>2, <2>3, <2>4
  <2>7. calls' \in [Calls -> Row]
    <3> HIDE DEF Row
    <3> QED
      BY <2>5, <2>6
  <2> QED
    BY <2>1, <2>7 DEF Rows, CallRows
<1>6. ASSUME NEW c \in Calls, CommitSegment(c) PROVE CallRows'
  <2>1. tally' = tally
    BY <1>6 DEF CommitSegment
  <2>2. \/ calls' = [calls EXCEPT ![c] = IdleCall]
        \/ \E a \in {"fresh", "admitted"} : calls' = [calls EXCEPT ![c].at = a]
    BY <1>6 DEF CommitSegment, Answered
  <2> DEFINE Row == [at : {"idle", "called", "fresh", "admitted"}, obj : Seq(Records), first : Nat]
  <2>3. IdleCall \in Row
    BY DEF IdleCall
  <2>4. \A a \in {"fresh", "admitted"} : [calls[c] EXCEPT !.at = a] \in Row
    BY <1>6 DEF Rows, CallRows
  <2>5. calls \in [Calls -> Row]
    BY DEF Rows, CallRows
  <2>6. \E r \in Row : calls' = [calls EXCEPT ![c] = r]
    BY <2>2, <2>3, <2>4
  <2>7. calls' \in [Calls -> Row]
    <3> HIDE DEF Row
    <3> QED
      BY <2>5, <2>6
  <2> QED
    BY <2>1, <2>7 DEF Rows, CallRows
<1>7. CASE EmitRecord
  <2>1. tally' = [tally EXCEPT !.made = tally.made + 1] /\ calls' = calls /\ tally.made + 1 \in 0 .. MaxRecords
    BY <1>7, RunnerSlotAssumption DEF EmitRecord, Rows, CallRows
  <2> QED
    BY <2>1 DEF Rows, CallRows
<1>8. CASE CreateFails \/ DestroyFails \/ CancelRefused \/ FlushTimeout \/ HeartbeatRefused \/ Crash
  <2>1. tally' = [tally EXCEPT !.faults = tally.faults + 1] /\ calls' = calls /\ tally.faults < MaxFaults
    BY <1>8 DEF CreateFails, DestroyFails, CancelRefused, FlushTimeout, HeartbeatRefused, Crash,
       Faulty
  <2>2. tally.faults + 1 \in 0 .. MaxFaults
    BY <2>1, RunnerSlotAssumption DEF Rows, CallRows
  <2> QED
    BY <2>1, <2>2 DEF Rows, CallRows
<1>9. CASE CloseSession
  <2>1. IdleCall \in [at : {"idle", "called", "fresh", "admitted"}, obj : Seq(Records), first : Nat]
    BY DEF IdleCall
  <2> QED
    BY <1>9, <2>1 DEF CloseSession, Rows, CallRows
<1> QED
  BY <1>1, <1>2, <1>3, <1>4, <1>5, <1>6, <1>7, <1>8, <1>9 DEF Next, SlotLoop, Executor, Emitter,
       Flusher, Server, Watch, Environment

\* The rows of every component keep their types.
LEMMA RowsStep ==
  ASSUME Rows, [Next]_vars
  PROVE  Rows'
<1>1. CASE Next
  BY <1>1, SlotRowStep, ProcessRowStep, TaskRowsStep, ServerRowStep, CallRowsStep DEF Rows
<1>2. CASE UNCHANGED vars
  BY <1>2 DEF vars, Rows, SlotRow, ProcessRow, TaskRows, EmitRow, FlushRow, LateRow, ServerRow,
     CallRows
<1> QED
  BY <1>1, <1>2

\* The rows as they are in the beginning.
LEMMA RowsInit ==
  ASSUME Init
  PROVE  Rows
<1>1. <<>> \in Seq(Records) /\ <<>> \in Seq(Segments) /\ 0 \in 0 .. End /\ 0 \in 0 .. MaxRecords /\ 0 \in 0 .. MaxFaults
  BY RunnerSlotAssumption DEF End
<1>2. SlotRow /\ ProcessRow
  BY <1>1 DEF Init, SlotRow, ProcessRow, Lives, Terminal, Stages, Restarted
<1>3. TaskRows
  BY <1>1 DEF Init, TaskRows, EmitRow, FlushRow, LateRow, NoEmit, NoFlush, NoLate
<1>4. ServerRow /\ CallRows
  BY <1>1 DEF Init, ServerRow, CallRows, IdleCall
<1> QED
  BY <1>2, <1>3, <1>4 DEF Rows

\* Where a resumed session finds the slot.
LEMMA Dispatched ==
  ASSUME Rows, Resume
  PROVE  /\ proc.stage = "hello" /\ slot' = slot /\ (slot.held => ~slot.orphan)
         /\ \/ proc' = Restarted
            \/ proc' = Stage("idle") /\ ~slot.held
            \/ proc' = Stage("contained") /\ slot.held
            \/ proc' = Stage("backlog") /\ slot.held /\ slot.life \in Terminal /\ ~LostCustody
            \/ proc' = Stage("commit") /\ slot.held /\ slot.life \notin Terminal
            \/ /\ \E e \in {"start", "failed"} : proc' = [Stage("run") EXCEPT !.exec = e]
               /\ slot.held /\ slot.life \notin Terminal
<1>1. proc' = Dispatch /\ proc.stage = "hello" /\ slot' = slot /\ (slot.held => ~slot.orphan)
  BY DEF Resume
<1>2. CASE ~slot.held
  BY <1>1, <1>2 DEF Dispatch
<1>3. CASE slot.held /\ slot.life \in Terminal
  BY <1>1, <1>3 DEF Dispatch, ResumeTerminal
<1>4. CASE slot.held /\ slot.life \notin Terminal
  BY <1>1, <1>4 DEF Dispatch, ExecutorStart
<1> QED
  BY <1>2, <1>3, <1>4

\* Which stages these are.
LEMMA DispatchedTo ==
  ASSUME Rows, Resume
  PROVE  proc'.stage \in {"hello", "idle", "contained", "backlog", "commit", "run"}
<1>1. Restarted.stage = "hello"
  BY DEF Restarted
<1>2. \A x : Stage(x).stage = x /\ \A e : [Stage(x) EXCEPT !.exec = e].stage = x
  BY DEF Stage, Rows, ProcessRow
<1>3. \/ proc' = Restarted
      \/ \E x \in {"idle", "contained", "backlog", "commit"} : proc' = Stage(x)
      \/ \E e : proc' = [Stage("run") EXCEPT !.exec = e]
  BY Dispatched
<1>4. CASE proc' = Restarted
  BY <1>1, <1>4
<1>5. CASE \E x \in {"idle", "contained", "backlog", "commit"} : proc' = Stage(x)
  BY <1>2, <1>5
<1>6. CASE \E e : proc' = [Stage("run") EXCEPT !.exec = e]
  BY <1>2, <1>6
<1> QED
  BY <1>3, <1>4, <1>5, <1>6

\* A failure to destroy the sandbox forgets at most the operation.
LEMMA NotDestroyed ==
  ASSUME Rows, DestroyFails
  PROVE  /\ proc.clean = "begun" /\ (engine' => engine) /\ (slot' = slot \/ slot' = [slot EXCEPT !.op = "none"])
         /\ \/ ProcessEnds
            \/ /\ emit' = emit /\ flush' = flush /\ late' = late
               /\ \/ proc' = [proc EXCEPT !.clean = "parked"] /\ proc.stage = "contained"
                  \/ proc' = [proc EXCEPT !.clean = "no"]
<1>1. /\ proc.clean = "begun" /\ engine \in BOOLEAN
      /\ \/ slot' = [slot EXCEPT !.op = "none"] /\ engine' = engine
         \/ (engine' = engine \/ engine' = FALSE) /\ slot' = slot
  BY DEF DestroyFails, Rows, ProcessRow
<1>2. \/ ProcessEnds
      \/ /\ emit' = emit /\ flush' = flush /\ late' = late
         /\ \/ proc' = [proc EXCEPT !.clean = "parked"] /\ proc.stage = "contained"
            \/ proc' = [proc EXCEPT !.clean = "no"]
  BY DEF DestroyFails
<1>3. engine' = engine \/ engine' = FALSE
  BY <1>1
<1>4. engine' => engine
  BY <1>3
<1> QED
  BY <1>1, <1>2, <1>4

\* A task that nobody waits for seals the backlog or acknowledges its head.
LEMMA LateForms ==
  ASSUME LateTask
  PROVE  /\ engine' = engine /\ proc' = proc /\ flush' = flush /\ server' = server /\ calls' = calls /\ tally' = tally
         /\ \/ slot' = slot
            \/ slot' = [slot EXCEPT !.segs = Seal(slot.segs)]
            \/ AcknowledgesHead(late) /\ slot' = WithoutHead(late)
         /\ emit' = emit \/ \E m : emit' = [emit EXCEPT !.moved = m]
BY DEF LateTask, Acknowledge

\* Somebody knows of the sandbox after every step.
LEMMA CustodyStep ==
  ASSUME Rows, Custody, Progress, Tasks, Next
  PROVE  Custody'
<1>1. CASE Resume
  <2>1. engine' = engine /\ slot' = slot /\ proc.exec = "off" /\ proc.clean = "no" /\ proc.stage = "hello"
    BY <1>1, Dispatched DEF Resume, Custody
  <2>2. CASE proc' = Restarted
    BY <2>1, <2>2 DEF Restarted, Custody, Finishing
  <2>3. CASE proc' = Stage("idle") \/ proc' = Stage("contained") \/ proc' = Stage("commit")
    BY <2>1, <2>3 DEF Stage, Rows, ProcessRow, Custody, Finishing
  <2>4. CASE proc' = Stage("backlog") /\ ~LostCustody
    BY <2>1, <2>4 DEF Stage, LostCustody, Rows, ProcessRow, Custody, Finishing
  <2>5. CASE \E e \in {"start", "failed"} : proc' = [Stage("run") EXCEPT !.exec = e]
    BY <2>1, <2>5 DEF Stage, Rows, ProcessRow, Custody, Finishing
  <2> QED
    BY <1>1, <2>2, <2>3, <2>4, <2>5, Dispatched
<1>2. CASE AuthorizeOrphan
  BY <1>2 DEF AuthorizeOrphan, Stage, SessionLive, Rows, SlotRow, ProcessRow, Custody, Progress,
       Finishing
<1>3. CASE ResumeOrphan
  BY <1>3 DEF ResumeOrphan, Stage, Rows, SlotRow, ProcessRow, Custody, Progress, Finishing
<1>4. CASE AbandonDelivery
  BY <1>4 DEF AbandonDelivery, Rows, SlotRow, ProcessRow, Custody, Progress, Finishing
<1>5. CASE ReleaseOrphan
  <2>1. CASE ReleaseAllowed
    BY <1>5, <2>1 DEF ReleaseOrphan, ReleaseAllowed, Stage, Rows, SlotRow, ProcessRow, Custody,
       Finishing
  <2>2. CASE ~ReleaseAllowed
    BY <1>5, <2>2 DEF ReleaseOrphan, ProcessEnds, Restarted, Custody, Finishing
  <2> QED
    BY <2>1, <2>2
<1>6. CASE PersistResult
  BY <1>6 DEF PersistResult, Stage, Rows, SlotRow, ProcessRow, Custody, Progress, Finishing
<1>7. CASE RecordResult
  <2>1. engine' = engine /\ (slot' = slot \/ slot' = [slot EXCEPT !.life = "Terminal", !.result = "recorded", !.cancel = FALSE])
    BY <1>7 DEF RecordResult
  <2>2. ProcessEnds \/ (~LostCustody /\ proc' = Stage("backlog") /\ proc.stage = "recording")
    BY <1>7 DEF RecordResult
  <2>3. slot'.op = slot.op /\ slot'.box = slot.box /\ slot'.held = slot.held
    BY <2>1 DEF Rows, SlotRow
  <2>4. CASE ProcessEnds
    BY <2>1, <2>3, <2>4 DEF ProcessEnds, Restarted, Custody, Finishing
  <2>5. CASE ~LostCustody /\ proc' = Stage("backlog") /\ proc.stage = "recording"
    BY <2>1, <2>3, <2>5 DEF Stage, LostCustody, Rows, ProcessRow, Custody, Finishing
  <2> QED
    BY <2>2, <2>4, <2>5
<1>8. CASE CloseBegin \/ EmitPersist \/ EmitDone \/ FlushCall \/ FlushRemove \/ EmitRecord \/
         FlushTimeout \/ PostResult \/ CommitResult \/ LeaseRunsOut \/ CloseSession
  BY <1>8 DEF CloseBegin, EmitPersist, EmitDone, FlushCall, FlushRemove, EmitRecord, Executing,
       FlushTimeout, PostResult, CommitResult, AttemptActive, SessionLive, LeaseRunsOut,
       CloseSession, Rows, SlotRow, ProcessRow, Custody, Progress, Finishing
<1>9. CASE CloseDone
  BY <1>9 DEF CloseDone, Stage, Rows, SlotRow, ProcessRow, Custody, Progress, Finishing
<1>10. CASE DestroyIntent
  BY <1>10 DEF DestroyIntent, Cleaning, Rows, SlotRow, ProcessRow, Custody, Progress, Finishing
<1>11. CASE DestroySandbox
  BY <1>11 DEF DestroySandbox, Rows, SlotRow, ProcessRow, Custody, Progress, Finishing
<1>12. CASE SandboxDestroyed
  BY <1>12 DEF SandboxDestroyed, Rows, SlotRow, ProcessRow, Custody, Progress, Finishing
<1>13. CASE CleanupDone
  BY <1>13 DEF CleanupDone, Stage, Rows, SlotRow, ProcessRow, Custody, Progress, Finishing
<1>14. CASE ResultAcknowledged
  BY <1>14 DEF ResultAcknowledged, SessionLive, Rows, SlotRow, ProcessRow, Custody, Progress,
       Finishing
<1>15. CASE ReleaseSlot
  BY <1>15 DEF ReleaseSlot, Stage, ReleaseAllowed, Rows, SlotRow, ProcessRow, Custody, Progress,
       Finishing
<1>16. CASE CreateIntent
  BY <1>16 DEF CreateIntent, Executing, Rows, SlotRow, ProcessRow, Custody, Progress, Finishing
<1>17. CASE CreateSandbox
  BY <1>17 DEF CreateSandbox, Rows, SlotRow, ProcessRow, Custody, Progress, Finishing
<1>18. CASE SandboxCreated
  BY <1>18 DEF SandboxCreated, Rows, SlotRow, ProcessRow, Custody, Progress, Finishing
<1>19. CASE RecoverSandbox
  BY <1>19 DEF RecoverSandbox, Executing, Rows, SlotRow, ProcessRow, Custody, Progress, Finishing
<1>20. CASE BeginRunning
  BY <1>20 DEF BeginRunning, Executing, Rows, SlotRow, ProcessRow, Custody, Progress, Finishing
<1>21. CASE FinishExecution
  BY <1>21 DEF FinishExecution, Executing, ProcessEnds, AfterExecution, Restarted, Rows, SlotRow,
       ProcessRow, Custody, Progress, Finishing
<1>22. CASE EmitLoad
  BY <1>22 DEF EmitLoad, EmitFails, HasOpen, Rows, SlotRow, ProcessRow, Custody, Progress, Finishing
<1>23. CASE EmitSeal
  BY <1>23 DEF EmitSeal, Rows, SlotRow, ProcessRow, Custody, Progress, Finishing
<1>24. CASE EmitAdopt
  <2>1. /\ engine' = engine
        /\ proc' = proc \/ (proc.exec # "off" /\ proc' = [proc EXCEPT !.exec = "failed"])
        /\ slot' = slot \/ slot' = [slot EXCEPT !.segs = SegmentsWith(Candidate), !.eos = emit.rec = End]
    BY <1>24 DEF EmitAdopt, EmitFails
  <2>2. slot'.held = slot.held /\ slot'.box = slot.box /\ slot'.op = slot.op
    BY <2>1 DEF Rows, SlotRow
  <2>3. /\ proc'.stage = proc.stage /\ proc'.clean = proc.clean
        /\ proc'.exec = proc.exec \/ (proc.exec # "off" /\ proc'.exec = "failed")
    BY <2>1 DEF Rows, ProcessRow
  <2> QED
    BY <2>1, <2>2, <2>3 DEF Custody, Finishing
<1>25. CASE EmitWait
  BY <1>25 DEF EmitWait, EmitFails, Rows, SlotRow, ProcessRow, Custody, Progress, Finishing
<1>26. CASE FlushLoad
  BY <1>26 DEF FlushLoad, Delivering, Rows, SlotRow, ProcessRow, Custody, Progress, Finishing
<1>27. CASE FlushCaughtUp
  BY <1>27 DEF FlushCaughtUp, Stage, Rows, SlotRow, ProcessRow, Custody, Progress, Finishing
<1>28. CASE FlushAck
  BY <1>28 DEF FlushAck, Acknowledge, AcknowledgesHead, WithoutHead, Rows, SlotRow, ProcessRow,
       Custody, Progress, Finishing
<1>29. CASE FlushEnds
  <2>1. slot' = slot /\ engine' = engine /\ proc.stage \in {"run", "backlog", "drain"} /\ proc.clean = "no"
    BY <1>29 DEF FlushEnds, Custody, Tasks
  <2>2. \/ proc' = Restarted
        \/ proc.stage = "run" /\ \E a \in {"fail", "session"} : proc' = [proc EXCEPT !.signal = a]
        \/ proc.stage # "run" /\ proc' = Stage("hello")
    BY <1>29 DEF FlushEnds
  <2>3. CASE proc' = Restarted
    BY <2>1, <2>3 DEF Restarted, Custody, Finishing
  <2>4. CASE proc.stage = "run" /\ \E a \in {"fail", "session"} : proc' = [proc EXCEPT !.signal = a]
    BY <2>1, <2>4 DEF Rows, ProcessRow, Custody, Finishing
  <2>5. CASE proc.stage # "run" /\ proc' = Stage("hello")
    BY <2>1, <2>5 DEF Stage, Rows, ProcessRow, Custody, Finishing
  <2> QED
    BY <2>2, <2>3, <2>4, <2>5
<1>30. CASE LateTask
  <2>1. slot'.op = slot.op /\ slot'.box = slot.box /\ slot'.held = slot.held
    BY <1>30, LateForms DEF WithoutHead, Rows, SlotRow
  <2> QED
    BY <1>30, <2>1 DEF LateTask, Custody
<1>31. ASSUME NEW c \in Calls, LookupReceipt(c) PROVE Custody'
  BY <1>31 DEF LookupReceipt, Custody
<1>32. ASSUME NEW c \in Calls, AdmitSegment(c) PROVE Custody'
  BY <1>32 DEF AdmitSegment, Custody
<1>33. ASSUME NEW c \in Calls, CommitSegment(c) PROVE Custody'
  BY <1>33 DEF CommitSegment, Custody
<1>34. CASE NoticeExpiry
  BY <1>34 DEF NoticeExpiry, Stop, Maintained, Stage, Rows, SlotRow, ProcessRow, Custody, Progress,
       Finishing
<1>35. CASE HeartbeatFails \/ SiblingEndsSession
  BY <1>35 DEF HeartbeatFails, SiblingEndsSession, Stop, Maintained, Restarted, Rows, SlotRow,
       ProcessRow, Custody,
       Progress, Finishing
<1>36. CASE CreateFails
  <2>1. /\ proc.exec = "creating" /\ proc' = [proc EXCEPT !.exec = "failed"]
        /\ \/ ~engine /\ slot' = [slot EXCEPT !.op = "none"] /\ engine' = engine
           \/ slot' = [slot EXCEPT !.op = "none", !.box = TRUE]
           \/ slot' = slot
    BY <1>36 DEF CreateFails
  <2>2. slot.held
    BY <2>1 DEF Custody, Progress
  <2>3. CASE ~engine /\ slot' = [slot EXCEPT !.op = "none"] /\ engine' = engine
    BY <2>1, <2>3 DEF Rows, SlotRow, ProcessRow, Custody, Finishing
  <2>4. CASE slot' = [slot EXCEPT !.op = "none", !.box = TRUE]
    BY <2>1, <2>2, <2>4 DEF Rows, SlotRow, ProcessRow, Custody, Finishing
  <2>5. CASE slot' = slot
    BY <2>1, <2>2, <2>5 DEF Rows, SlotRow, ProcessRow, Custody, Finishing
  <2> QED
    BY <2>1, <2>3, <2>4, <2>5
<1>37. CASE DestroyFails
  BY <1>37, NotDestroyed DEF ProcessEnds, Restarted, Rows, SlotRow, ProcessRow, Custody, Finishing
<1>38. CASE Cancel
  BY <1>38 DEF Cancel, Stop, SessionLive, Rows, SlotRow, ProcessRow, Custody, Progress, Finishing
<1>39. CASE CancelRefused
  BY <1>39 DEF CancelRefused, ProcessEnds, Restarted, Rows, SlotRow, ProcessRow, Custody, Progress,
       Finishing
<1>40. CASE HeartbeatRefused
  BY <1>40 DEF HeartbeatRefused, ProcessEnds, Restarted, Stop, Maintained, Rows, SlotRow,
       ProcessRow, Custody, Progress, Finishing
<1>41. CASE Crash
  BY <1>41 DEF Crash, ProcessEnds, Restarted, Rows, SlotRow, ProcessRow, Custody, Progress,
       Finishing
<1> QED
  BY <1>1, <1>2, <1>3, <1>4, <1>5, <1>6, <1>7, <1>8, <1>9, <1>10, <1>11, <1>12, <1>13, <1>14, <1>15,
       <1>16, <1>17, <1>18, <1>19, <1>20, <1>21, <1>22, <1>23, <1>24, <1>25, <1>26, <1>27, <1>28,
       <1>29, <1>30, <1>31, <1>32, <1>33, <1>34, <1>35, <1>36, <1>37, <1>38, <1>39, <1>40, <1>41 DEF
       Next, SlotLoop, Executor, Emitter, Flusher, Server, Watch, Environment

\* The stages keep to the order of the life cycle.
LEMMA ProgressStep ==
  ASSUME Rows, Custody, Progress, Tasks, Next
  PROVE  Progress'
<1>1. CASE Resume
  <2>1. server' = server /\ slot' = slot /\ (slot.held => ~slot.orphan)
    BY <1>1, Dispatched DEF Resume
  <2>2. CASE proc' = Restarted
    BY <2>1, <2>2 DEF Restarted, Progress, SessionLive, Finishing
  <2>3. CASE proc' = Stage("idle")
    BY <2>1, <2>3 DEF Stage, Rows, ProcessRow, Progress, SessionLive, Finishing
  <2>4. CASE slot.held /\ (proc' = Stage("contained") \/ (slot.life \notin Terminal /\ proc' = Stage("commit")))
    BY <2>1, <2>4 DEF Stage, Rows, ProcessRow, Progress, SessionLive, Finishing
  <2>5. CASE proc' = Stage("backlog") /\ slot.held /\ slot.life \in Terminal
    BY <2>1, <2>5 DEF Stage, Rows, ProcessRow, Progress, SessionLive, Finishing
  <2>6. CASE /\ slot.held /\ slot.life \notin Terminal
             /\ \E e \in {"start", "failed"} : proc' = [Stage("run") EXCEPT !.exec = e]
    BY <2>1, <2>6 DEF Stage, Rows, ProcessRow, Progress, SessionLive, Finishing
  <2> QED
    BY <1>1, <2>2, <2>3, <2>4, <2>5, <2>6, Dispatched
<1>2. CASE AuthorizeOrphan
  BY <1>2 DEF AuthorizeOrphan, Stage, SessionLive, Rows, SlotRow, ProcessRow, ServerRow, Lives,
       Custody, Progress, Finishing, Terminal, Stages
<1>3. CASE ResumeOrphan
  BY <1>3 DEF ResumeOrphan, Stage, SessionLive, Rows, SlotRow, ProcessRow, ServerRow, Lives,
       Custody, Progress, Finishing, Terminal, Stages
<1>4. CASE AbandonDelivery
  BY <1>4 DEF AbandonDelivery, SessionLive, Rows, SlotRow, ProcessRow, ServerRow, Lives, Custody,
       Progress, Finishing, Terminal, Stages
<1>5. CASE ReleaseOrphan
  <2>1. CASE ReleaseAllowed
    BY <1>5, <2>1 DEF ReleaseOrphan, ReleaseAllowed, Stage, SessionLive, Rows, SlotRow,
       ProcessRow, Progress, Finishing
  <2>2. CASE ~ReleaseAllowed
    BY <1>5, <2>2 DEF ReleaseOrphan, ProcessEnds, Restarted, SessionLive, Progress, Finishing
  <2> QED
    BY <2>1, <2>2
<1>6. CASE PersistResult
  BY <1>6 DEF PersistResult, Stage, SessionLive, Rows, SlotRow, ProcessRow, ServerRow, Lives,
       Custody, Progress, Finishing, Terminal, Stages
<1>7. CASE RecordResult
  <2>1. /\ server' = server /\ proc.stage = "recording"
        /\ slot' = slot \/ slot' = [slot EXCEPT !.life = "Terminal", !.result = "recorded", !.cancel = FALSE]
    BY <1>7 DEF RecordResult
  <2>2. ProcessEnds \/ (slot'.life = "Terminal" /\ proc' = Stage("backlog"))
    BY <1>7 DEF RecordResult, Rows, SlotRow
  <2>3. CASE ProcessEnds
    BY <2>1, <2>3 DEF ProcessEnds, Restarted, SessionLive, Rows, SlotRow, Progress, Finishing,
       Terminal
  <2>4. CASE slot'.life = "Terminal" /\ proc' = Stage("backlog")
    BY <2>1, <2>4 DEF Stage, SessionLive, Rows, SlotRow, ProcessRow, Progress, Finishing, Terminal
  <2> QED
    BY <2>2, <2>3, <2>4
<1>8. CASE CloseBegin \/ EmitPersist \/ EmitDone \/ FlushCall \/ FlushRemove \/ EmitRecord \/
         FlushTimeout
  BY <1>8 DEF CloseBegin, EmitPersist, EmitDone, FlushCall, FlushRemove, EmitRecord, Executing,
       FlushTimeout, SessionLive, Rows, SlotRow, ProcessRow, ServerRow, Lives, Custody, Progress,
       Finishing, Terminal, Stages
<1>9. CASE CloseDone
  BY <1>9 DEF CloseDone, Stage, SessionLive, Rows, SlotRow, ProcessRow, ServerRow, Lives, Custody,
       Progress, Finishing, Terminal, Stages
<1>10. CASE DestroyIntent
  BY <1>10 DEF DestroyIntent, Cleaning, SessionLive, Rows, SlotRow, ProcessRow, ServerRow, Lives,
       Custody, Progress, Finishing, Terminal, Stages
<1>11. CASE DestroySandbox
  BY <1>11 DEF DestroySandbox, SessionLive, Rows, SlotRow, ProcessRow, ServerRow, Lives, Custody,
       Progress, Finishing, Terminal, Stages
<1>12. CASE SandboxDestroyed
  BY <1>12 DEF SandboxDestroyed, SessionLive, Rows, SlotRow, ProcessRow, ServerRow, Lives, Custody,
       Progress, Finishing, Terminal, Stages
<1>13. CASE CleanupDone
  BY <1>13 DEF CleanupDone, Stage, SessionLive, Rows, SlotRow, ProcessRow, ServerRow, Lives,
       Custody, Progress, Finishing, Terminal, Stages
<1>14. CASE PostResult
  BY <1>14 DEF PostResult, SessionLive, Rows, SlotRow, ProcessRow, ServerRow, Lives, Custody,
       Progress, Finishing, Terminal, Stages
<1>15. CASE ResultAcknowledged
  BY <1>15 DEF ResultAcknowledged, SessionLive, Rows, SlotRow, ProcessRow, ServerRow, Lives,
       Custody, Progress, Finishing, Terminal, Stages
<1>16. CASE ReleaseSlot
  BY <1>16 DEF ReleaseSlot, Stage, ReleaseAllowed, SessionLive, Rows, SlotRow, ProcessRow,
       ServerRow, Lives, Custody, Progress, Finishing, Terminal, Stages
<1>17. CASE CreateIntent
  <2>1. /\ server' = server /\ proc.stage = "run" /\ \E e \in {"creating", "failed"} : proc' = [proc EXCEPT !.exec = e]
        /\ slot' = slot \/ slot' = [slot EXCEPT !.op = "create"]
    BY <1>17 DEF CreateIntent, Executing
  <2> QED
    BY <2>1 DEF SessionLive, Rows, SlotRow, ProcessRow, Progress, Finishing
<1>18. CASE CreateSandbox
  BY <1>18 DEF CreateSandbox, SessionLive, Rows, SlotRow, ProcessRow, ServerRow, Lives, Custody,
       Progress, Finishing, Terminal, Stages
<1>19. CASE SandboxCreated
  BY <1>19 DEF SandboxCreated, SessionLive, Rows, SlotRow, ProcessRow, ServerRow, Lives, Custody,
       Progress, Finishing, Terminal, Stages
<1>20. CASE RecoverSandbox
  BY <1>20 DEF RecoverSandbox, Executing, SessionLive, Rows, SlotRow, ProcessRow, ServerRow, Lives,
       Custody, Progress, Finishing, Terminal, Stages
<1>21. CASE BeginRunning
  <2>1. /\ server' = server /\ proc.stage = "run" /\ \E e \in {"working", "failed"} : proc' = [proc EXCEPT !.exec = e]
        /\ slot' = slot \/ (slot.life = "Preparing" /\ slot' = [slot EXCEPT !.life = "Running"])
    BY <1>21 DEF BeginRunning, Executing
  <2>2. slot' = slot \/ (~slot.eos /\ slot.result = "none" /\ slot.held)
    BY <2>1 DEF Progress, Terminal
  <2> QED
    BY <2>1, <2>2 DEF SessionLive, Rows, SlotRow, ProcessRow, Progress, Finishing, Terminal
<1>22. CASE FinishExecution
  BY <1>22 DEF FinishExecution, Executing, ProcessEnds, AfterExecution, Restarted, SessionLive,
       Rows, SlotRow, ProcessRow, ServerRow, Lives, Custody, Progress, Finishing, Terminal, Stages
<1>23. CASE EmitLoad
  BY <1>23 DEF EmitLoad, EmitFails, HasOpen, SessionLive, Rows, SlotRow, ProcessRow, ServerRow,
       Lives, Custody, Progress, Finishing, Terminal, Stages
<1>24. CASE EmitSeal
  BY <1>24 DEF EmitSeal, SessionLive, Rows, SlotRow, ProcessRow, ServerRow, Lives, Custody,
       Progress, Finishing, Terminal, Stages
<1>25. CASE EmitAdopt
  <2>1. /\ server' = server /\ (proc' = proc \/ (proc.exec # "off" /\ proc' = [proc EXCEPT !.exec = "failed"]))
        /\ slot' = slot \/ slot' = [slot EXCEPT !.segs = SegmentsWith(Candidate), !.eos = emit.rec = End]
        /\ emit.at # "no"
    BY <1>25 DEF EmitAdopt, EmitFails
  <2>2. emit.rec = End => slot.life \in Terminal
    <3>1. ~(emit.rec = End /\ emit.rec \in 1 .. MaxRecords)
      BY RunnerSlotAssumption DEF End
    <3> QED
      BY <2>1, <3>1 DEF Tasks
  <2>3. /\ slot'.held = slot.held /\ slot'.orphan = slot.orphan /\ slot'.life = slot.life
        /\ slot'.result = slot.result /\ (slot'.eos = slot.eos \/ (slot'.eos <=> emit.rec = End))
    BY <2>1 DEF Rows, SlotRow
  <2>4. proc'.stage = proc.stage
    BY <2>1 DEF Rows, ProcessRow
  <2> QED
    BY <2>1, <2>2, <2>3, <2>4 DEF SessionLive, Progress, Finishing
<1>26. CASE EmitWait
  BY <1>26 DEF EmitWait, EmitFails, SessionLive, Rows, SlotRow, ProcessRow, ServerRow, Lives,
       Custody, Progress, Finishing, Terminal, Stages
<1>27. CASE FlushLoad
  BY <1>27 DEF FlushLoad, Delivering, SessionLive, Rows, SlotRow, ProcessRow, ServerRow, Lives,
       Custody, Progress, Finishing, Terminal, Stages
<1>28. CASE FlushCaughtUp
  BY <1>28 DEF FlushCaughtUp, Stage, SessionLive, Rows, SlotRow, ProcessRow, ServerRow, Lives,
       Custody, Progress, Finishing, Terminal, Stages
<1>29. CASE FlushAck
  BY <1>29 DEF FlushAck, Acknowledge, AcknowledgesHead, WithoutHead, SessionLive, Rows, SlotRow,
       ProcessRow, ServerRow, Lives, Custody, Progress, Finishing, Terminal, Stages
<1>30. CASE FlushEnds
  BY <1>30 DEF FlushEnds, Stage, Restarted, SessionLive, Rows, SlotRow, ProcessRow, ServerRow,
       Lives, Custody, Progress, Finishing, Terminal, Stages
<1>31. CASE LateTask
  <2>1. /\ proc' = proc /\ server' = server
        /\ \/ slot' = slot \/ slot' = [slot EXCEPT !.segs = Seal(slot.segs)]
           \/ slot' = WithoutHead(late)
    BY <1>31, LateForms
  <2>2. /\ slot'.held = slot.held /\ slot'.orphan = slot.orphan /\ slot'.life = slot.life
        /\ slot'.result = slot.result /\ slot'.eos = slot.eos
    BY <2>1 DEF WithoutHead, Rows, SlotRow
  <2> QED
    BY <2>1, <2>2 DEF SessionLive, Progress
<1>32. ASSUME NEW c \in Calls, LookupReceipt(c) PROVE Progress'
  BY <1>32 DEF LookupReceipt, Progress, SessionLive
<1>33. ASSUME NEW c \in Calls, AdmitSegment(c) PROVE Progress'
  BY <1>33 DEF AdmitSegment, Progress, SessionLive
<1>34. ASSUME NEW c \in Calls, CommitSegment(c) PROVE Progress'
  <2>1. slot' = slot /\ proc' = proc /\ server'.session = server.session /\ server'.result = server.result
    BY <1>34 DEF CommitSegment, Rows, ServerRow
  <2> QED
    BY <2>1 DEF SessionLive, Progress
<1>35. CASE CommitResult
  BY <1>35 DEF CommitResult, AttemptActive, SessionLive, Rows, SlotRow, ProcessRow, ServerRow,
       Lives, Custody, Progress, Finishing, Terminal, Stages
<1>36. CASE NoticeExpiry
  BY <1>36 DEF NoticeExpiry, Stop, Maintained, Stage, SessionLive, Rows, SlotRow, ProcessRow,
       ServerRow, Lives, Custody, Progress, Finishing, Terminal, Stages
<1>37. CASE HeartbeatFails \/ SiblingEndsSession
  BY <1>37 DEF HeartbeatFails, SiblingEndsSession, Stop, Maintained, Restarted, SessionLive, Rows,
       SlotRow, ProcessRow,
       ServerRow, Lives, Custody, Progress, Finishing, Terminal, Stages
<1>38. CASE CreateFails
  <2>1. /\ server' = server /\ proc' = [proc EXCEPT !.exec = "failed"]
        /\ \/ slot' = slot \/ slot' = [slot EXCEPT !.op = "none"]
           \/ slot' = [slot EXCEPT !.op = "none", !.box = TRUE]
    BY <1>38 DEF CreateFails
  <2>2. /\ slot'.held = slot.held /\ slot'.orphan = slot.orphan /\ slot'.life = slot.life
        /\ slot'.result = slot.result /\ slot'.eos = slot.eos
    BY <2>1 DEF Rows, SlotRow
  <2>3. proc'.stage = proc.stage
    BY <2>1 DEF Rows, ProcessRow
  <2> QED
    BY <2>1, <2>2, <2>3 DEF SessionLive, Progress
<1>39. CASE DestroyFails
  <2>1. server' = server
    BY <1>39 DEF DestroyFails
  <2> QED
    BY <1>39, <2>1, NotDestroyed DEF ProcessEnds, Restarted, SessionLive, Rows, SlotRow,
       ProcessRow, Progress, Finishing
<1>40. CASE Cancel
  BY <1>40 DEF Cancel, Stop, SessionLive, Rows, SlotRow, ProcessRow, ServerRow, Lives, Custody,
       Progress, Finishing, Terminal, Stages
<1>41. CASE CancelRefused
  BY <1>41 DEF CancelRefused, ProcessEnds, Restarted, SessionLive, Rows, SlotRow, ProcessRow,
       ServerRow, Lives, Custody, Progress, Finishing, Terminal, Stages
<1>42. CASE HeartbeatRefused
  BY <1>42 DEF HeartbeatRefused, ProcessEnds, Restarted, Stop, Maintained, SessionLive, Rows,
       SlotRow, ProcessRow, ServerRow, Lives, Custody, Progress, Finishing, Terminal, Stages
<1>43. CASE LeaseRunsOut
  BY <1>43 DEF LeaseRunsOut, SessionLive, Rows, SlotRow, ProcessRow, ServerRow, Lives, Custody,
       Progress, Finishing, Terminal, Stages
<1>44. CASE CloseSession
  BY <1>44 DEF CloseSession, SessionLive, Rows, SlotRow, ProcessRow, ServerRow, Lives, Custody,
       Progress, Finishing, Terminal, Stages
<1>45. CASE Crash
  BY <1>45 DEF Crash, ProcessEnds, Restarted, SessionLive, Rows, SlotRow, ProcessRow, ServerRow,
       Lives, Custody, Progress, Finishing, Terminal, Stages
<1> QED
  BY <1>1, <1>2, <1>3, <1>4, <1>5, <1>6, <1>7, <1>8, <1>9, <1>10, <1>11, <1>12, <1>13, <1>14, <1>15,
       <1>16, <1>17, <1>18, <1>19, <1>20, <1>21, <1>22, <1>23, <1>24, <1>25, <1>26, <1>27, <1>28,
       <1>29, <1>30, <1>31, <1>32, <1>33, <1>34, <1>35, <1>36, <1>37, <1>38, <1>39, <1>40, <1>41,
       <1>42, <1>43, <1>44, <1>45 DEF Next, SlotLoop, Executor, Emitter, Flusher, Server, Watch,
       Environment

\* A process that ends leaves no task.
LEMMA EndsTasks ==
  ASSUME ProcessEnds
  PROVE  Tasks'
BY DEF ProcessEnds, NoEmit, NoFlush, Tasks

\* An answer reaches the delivery that waits for it, or nobody.
LEMMA AnsweredForms ==
  ASSUME Rows, Tasks, NEW c \in Calls, NEW a, Answered(c, a)
  PROVE  \/ flush' = flush /\ flush.call # c
         \/ flush.at = "sent" /\ flush.call = c /\ flush' = [flush EXCEPT !.at = a, !.call = 0]
<1>1. c # 0
  BY RunnerSlotAssumption
<1> QED
  BY <1>1 DEF Answered, Tasks

\* A terminal slot stays one.
LEMMA TerminalKept ==
  ASSUME Rows, Next, slot.life \in Terminal
  PROVE  slot'.life \in Terminal
<1>1. CASE Resume \/ ResumeOrphan \/ CloseBegin \/ CloseDone \/ DestroySandbox \/ CleanupDone \/
         PostResult \/ CreateSandbox \/ RecoverSandbox \/ FinishExecution \/ EmitPersist \/ EmitDone
         \/ EmitWait \/ FlushCaughtUp \/ FlushCall \/ FlushRemove \/ FlushEnds \/ CommitResult \/
         NoticeExpiry \/ HeartbeatFails \/ SiblingEndsSession \/ EmitRecord \/ CancelRefused \/
         FlushTimeout \/
         HeartbeatRefused \/ LeaseRunsOut \/ CloseSession \/ Crash
  BY <1>1 DEF Resume, ResumeOrphan, CloseBegin, CloseDone, DestroySandbox, CleanupDone, PostResult,
       CreateSandbox, RecoverSandbox, FinishExecution, EmitPersist, EmitDone, EmitWait,
       FlushCaughtUp, FlushCall, FlushRemove, FlushEnds, CommitResult, NoticeExpiry,
       HeartbeatFails, SiblingEndsSession,
       EmitRecord, CancelRefused, FlushTimeout, HeartbeatRefused, LeaseRunsOut, CloseSession, Crash,
       Rows, SlotRow
<1>2. CASE AuthorizeOrphan
  BY <1>2 DEF AuthorizeOrphan, Rows, SlotRow, Terminal
<1>3. CASE AbandonDelivery \/ ReleaseOrphan \/ DestroyIntent \/ SandboxDestroyed \/
         ResultAcknowledged \/ ReleaseSlot \/ CreateIntent \/ SandboxCreated \/ EmitLoad \/ EmitSeal
         \/ FlushLoad \/ CreateFails
  BY <1>3 DEF AbandonDelivery, ReleaseOrphan, DestroyIntent, SandboxDestroyed, ResultAcknowledged,
       ReleaseSlot, CreateIntent, SandboxCreated, EmitLoad, EmitSeal, FlushLoad, CreateFails, Rows,
       SlotRow
<1>4. CASE PersistResult
  BY <1>4 DEF PersistResult, Rows, SlotRow, Terminal
<1>5. CASE RecordResult
  BY <1>5 DEF RecordResult, Rows, SlotRow, Terminal
<1>6. CASE BeginRunning
  BY <1>6 DEF BeginRunning, Rows, SlotRow, Terminal
<1>7. CASE EmitAdopt
  BY <1>7 DEF EmitAdopt, Rows, SlotRow
<1>8. CASE FlushAck
  BY <1>8 DEF FlushAck, Acknowledge, WithoutHead, Rows, SlotRow
<1>9. CASE LateTask
  BY <1>9, LateForms DEF WithoutHead, Rows, SlotRow
<1>10. ASSUME NEW c \in Calls, LookupReceipt(c) PROVE slot'.life \in Terminal
  BY <1>10 DEF LookupReceipt
<1>11. ASSUME NEW c \in Calls, AdmitSegment(c) PROVE slot'.life \in Terminal
  BY <1>11 DEF AdmitSegment
<1>12. ASSUME NEW c \in Calls, CommitSegment(c) PROVE slot'.life \in Terminal
  BY <1>12 DEF CommitSegment
<1>13. CASE DestroyFails
  BY <1>13, NotDestroyed DEF Rows, SlotRow
<1>14. CASE Cancel
  BY <1>14 DEF Cancel, Terminal
<1> QED
  BY <1>1, <1>2, <1>3, <1>4, <1>5, <1>6, <1>7, <1>8, <1>9, <1>10, <1>11, <1>12, <1>13, <1>14 DEF
       Next, SlotLoop, Executor, Emitter, Flusher, Server, Watch, Environment

\* An emission goes on while its process and the slot stay where they are.
LEMMA EmissionKept ==
  ASSUME Rows, Tasks, emit'.at # "no" => emit.at # "no" /\ emit'.rec = emit.rec,
         slot.life \in Terminal => slot'.life \in Terminal, tally'.made = tally.made,
         proc.stage = "run" /\ emit'.at # "no" => proc'.stage = "run",
         flush'.at # "no" => flush.at # "no" /\ proc'.stage \in {"run", "backlog", "drain"},
         flush'.call # 0 => flush'.at = "sent"
  PROVE  Tasks'
BY DEF Tasks

\* No task outlives what it works for.
LEMMA TasksStep ==
  ASSUME Rows, Custody, Progress, Tasks, Next
  PROVE  Tasks'
<1>1. CASE Resume
  <2>1. emit' = emit /\ flush' = flush /\ tally' = tally /\ slot' = slot /\ proc.stage = "hello"
    BY <1>1 DEF Resume
  <2> QED
    BY <2>1 DEF Tasks
<1>2. CASE AuthorizeOrphan
  <2>1. emit'.at # "no" => emit.at # "no" /\ emit'.rec = emit.rec
    BY <1>2 DEF AuthorizeOrphan, Stage, Rows, TaskRows, EmitRow
  <2>2. /\ proc.stage = "run" /\ emit'.at # "no" => proc'.stage = "run"
        /\ flush'.at # "no" => flush.at # "no" /\ proc'.stage \in {"run", "backlog", "drain"}
        /\ flush'.call # 0 => flush'.at = "sent"
    BY <1>2 DEF AuthorizeOrphan, Stage, Rows, ProcessRow, TaskRows, FlushRow, Tasks
  <2>3. tally'.made = tally.made
    BY <1>2 DEF AuthorizeOrphan, Faulty, Rows, CallRows
  <2> QED
    BY <2>1, <2>2, <2>3, EmissionKept, TerminalKept
<1>3. CASE ResumeOrphan
  <2>1. emit'.at # "no" => emit.at # "no" /\ emit'.rec = emit.rec
    BY <1>3 DEF ResumeOrphan, Stage, Rows, TaskRows, EmitRow
  <2>2. /\ proc.stage = "run" /\ emit'.at # "no" => proc'.stage = "run"
        /\ flush'.at # "no" => flush.at # "no" /\ proc'.stage \in {"run", "backlog", "drain"}
        /\ flush'.call # 0 => flush'.at = "sent"
    BY <1>3 DEF ResumeOrphan, Stage, Rows, ProcessRow, TaskRows, FlushRow, Tasks
  <2>3. tally'.made = tally.made
    BY <1>3 DEF ResumeOrphan, Faulty, Rows, CallRows
  <2> QED
    BY <2>1, <2>2, <2>3, EmissionKept, TerminalKept
<1>4. CASE AbandonDelivery \/ DestroyIntent \/ DestroySandbox \/ SandboxDestroyed \/ PostResult \/
         ResultAcknowledged \/ CreateIntent \/ CreateSandbox \/ SandboxCreated \/ RecoverSandbox \/
         CommitResult \/ CreateFails \/ LeaseRunsOut \/ CloseSession
  <2>1. emit'.at # "no" => emit.at # "no" /\ emit'.rec = emit.rec
    BY <1>4 DEF AbandonDelivery, DestroyIntent, Cleaning, DestroySandbox, SandboxDestroyed,
       PostResult, ResultAcknowledged, CreateIntent, Executing, CreateSandbox, SandboxCreated,
       RecoverSandbox, CommitResult, CreateFails, Faulty, LeaseRunsOut, CloseSession, Rows,
       TaskRows, EmitRow
  <2>2. /\ proc.stage = "run" /\ emit'.at # "no" => proc'.stage = "run"
        /\ flush'.at # "no" => flush.at # "no" /\ proc'.stage \in {"run", "backlog", "drain"}
        /\ flush'.call # 0 => flush'.at = "sent"
    <3>1. proc' = proc \/ (\E e : proc' = [proc EXCEPT !.exec = e])
                       \/ (\E e : proc' = [proc EXCEPT !.clean = e])
      BY <1>4 DEF AbandonDelivery, DestroyIntent, Cleaning, DestroySandbox, SandboxDestroyed,
         PostResult, ResultAcknowledged, CreateIntent, Executing, CreateSandbox, SandboxCreated,
         RecoverSandbox, CommitResult, CreateFails, LeaseRunsOut, CloseSession
    <3>2. proc'.stage = proc.stage
      BY <3>1 DEF Rows, ProcessRow
    <3>3. flush' = flush
      BY <1>4 DEF AbandonDelivery, DestroyIntent, Cleaning, DestroySandbox, SandboxDestroyed,
         PostResult, ResultAcknowledged, CreateIntent, CreateSandbox, SandboxCreated,
         RecoverSandbox, CommitResult, CreateFails, LeaseRunsOut, CloseSession
    <3> QED
      BY <3>2, <3>3 DEF Tasks
  <2>3. tally'.made = tally.made
    BY <1>4 DEF AbandonDelivery, DestroyIntent, DestroySandbox, SandboxDestroyed, PostResult,
       ResultAcknowledged, CreateIntent, CreateSandbox, SandboxCreated, RecoverSandbox,
       CommitResult, CreateFails, LeaseRunsOut, CloseSession, Faulty, Rows, CallRows
  <2> QED
    BY <2>1, <2>2, <2>3, EmissionKept, TerminalKept
<1>5. CASE ReleaseOrphan
  <2>1. emit'.at # "no" => emit.at # "no" /\ emit'.rec = emit.rec
    BY <1>5 DEF ReleaseOrphan, Stage, ProcessEnds, Restarted, NoEmit, NoFlush, NoLate, Rows,
       TaskRows, EmitRow
  <2>2. /\ proc.stage = "run" /\ emit'.at # "no" => proc'.stage = "run"
        /\ flush'.at # "no" => flush.at # "no" /\ proc'.stage \in {"run", "backlog", "drain"}
        /\ flush'.call # 0 => flush'.at = "sent"
    BY <1>5 DEF ReleaseOrphan, Stage, ProcessEnds, Restarted, NoEmit, NoFlush, NoLate, Rows,
       ProcessRow, TaskRows, FlushRow, Tasks
  <2>3. tally'.made = tally.made
    BY <1>5 DEF ReleaseOrphan, Faulty, Rows, CallRows
  <2> QED
    BY <2>1, <2>2, <2>3, EmissionKept, TerminalKept
<1>6. CASE PersistResult
  <2>1. emit'.at # "no" => emit.at # "no" /\ emit'.rec = emit.rec
    BY <1>6 DEF PersistResult, Stage, Rows, TaskRows, EmitRow
  <2>2. /\ proc.stage = "run" /\ emit'.at # "no" => proc'.stage = "run"
        /\ flush'.at # "no" => flush.at # "no" /\ proc'.stage \in {"run", "backlog", "drain"}
        /\ flush'.call # 0 => flush'.at = "sent"
    BY <1>6 DEF PersistResult, Stage, Rows, ProcessRow, TaskRows, FlushRow, Tasks
  <2>3. tally'.made = tally.made
    BY <1>6 DEF PersistResult, Faulty, Rows, CallRows
  <2> QED
    BY <2>1, <2>2, <2>3, EmissionKept, TerminalKept
<1>7. CASE RecordResult
  <2>1. emit'.at # "no" => emit.at # "no" /\ emit'.rec = emit.rec
    BY <1>7 DEF RecordResult, Stage, ProcessEnds, Restarted, NoEmit, NoFlush, NoLate, Rows,
       TaskRows, EmitRow
  <2>2. /\ proc.stage = "run" /\ emit'.at # "no" => proc'.stage = "run"
        /\ flush'.at # "no" => flush.at # "no" /\ proc'.stage \in {"run", "backlog", "drain"}
        /\ flush'.call # 0 => flush'.at = "sent"
    BY <1>7 DEF RecordResult, Stage, ProcessEnds, Restarted, NoEmit, NoFlush, NoLate, Rows,
       ProcessRow, TaskRows, FlushRow, Tasks
  <2>3. tally'.made = tally.made
    BY <1>7 DEF RecordResult, Faulty, Rows, CallRows
  <2> QED
    BY <2>1, <2>2, <2>3, EmissionKept, TerminalKept
<1>8. CASE CloseBegin
  <2>1. emit'.rec = End /\ slot'.life \in Terminal /\ flush' = flush /\ proc' = proc
    BY <1>8 DEF CloseBegin, NoEmit, Progress, Finishing
  <2> QED
    BY <2>1 DEF Tasks
<1>9. CASE CloseDone
  <2>1. emit'.at # "no" => emit.at # "no" /\ emit'.rec = emit.rec
    BY <1>9 DEF CloseDone, Stage, Rows, TaskRows, EmitRow
  <2>2. /\ proc.stage = "run" /\ emit'.at # "no" => proc'.stage = "run"
        /\ flush'.at # "no" => flush.at # "no" /\ proc'.stage \in {"run", "backlog", "drain"}
        /\ flush'.call # 0 => flush'.at = "sent"
    BY <1>9 DEF CloseDone, Stage, Rows, ProcessRow, TaskRows, FlushRow, Tasks
  <2>3. tally'.made = tally.made
    BY <1>9 DEF CloseDone, Faulty, Rows, CallRows
  <2> QED
    BY <2>1, <2>2, <2>3, EmissionKept, TerminalKept
<1>10. CASE CleanupDone
  <2>1. emit'.at # "no" => emit.at # "no" /\ emit'.rec = emit.rec
    BY <1>10 DEF CleanupDone, Stage, Rows, TaskRows, EmitRow
  <2>2. /\ proc.stage = "run" /\ emit'.at # "no" => proc'.stage = "run"
        /\ flush'.at # "no" => flush.at # "no" /\ proc'.stage \in {"run", "backlog", "drain"}
        /\ flush'.call # 0 => flush'.at = "sent"
    BY <1>10 DEF CleanupDone, Stage, Rows, ProcessRow, TaskRows, FlushRow, Tasks
  <2>3. tally'.made = tally.made
    BY <1>10 DEF CleanupDone, Faulty, Rows, CallRows
  <2> QED
    BY <2>1, <2>2, <2>3, EmissionKept, TerminalKept
<1>11. CASE ReleaseSlot
  <2>1. emit'.at # "no" => emit.at # "no" /\ emit'.rec = emit.rec
    BY <1>11 DEF ReleaseSlot, Stage, Rows, TaskRows, EmitRow
  <2>2. /\ proc.stage = "run" /\ emit'.at # "no" => proc'.stage = "run"
        /\ flush'.at # "no" => flush.at # "no" /\ proc'.stage \in {"run", "backlog", "drain"}
        /\ flush'.call # 0 => flush'.at = "sent"
    BY <1>11 DEF ReleaseSlot, Stage, Rows, ProcessRow, TaskRows, FlushRow, Tasks
  <2>3. tally'.made = tally.made
    BY <1>11 DEF ReleaseSlot, Faulty, Rows, CallRows
  <2> QED
    BY <2>1, <2>2, <2>3, EmissionKept, TerminalKept
<1>12. CASE BeginRunning
  <2>1. emit'.at # "no" => emit.at # "no" /\ emit'.rec = emit.rec
    BY <1>12 DEF BeginRunning, Executing, Rows, TaskRows, EmitRow
  <2>2. /\ proc.stage = "run" /\ emit'.at # "no" => proc'.stage = "run"
        /\ flush'.at # "no" => flush.at # "no" /\ proc'.stage \in {"run", "backlog", "drain"}
        /\ flush'.call # 0 => flush'.at = "sent"
    BY <1>12 DEF BeginRunning, Executing, Rows, ProcessRow, TaskRows, FlushRow, Tasks
  <2>3. tally'.made = tally.made
    BY <1>12 DEF BeginRunning, Faulty, Rows, CallRows
  <2> QED
    BY <2>1, <2>2, <2>3, EmissionKept, TerminalKept
<1>13. CASE FinishExecution
  <2>1. CASE ProcessEnds
    BY <2>1, EndsTasks
  <2>2. CASE emit' = emit /\ emit.at = "no" /\ flush' = NoFlush
    BY <2>2 DEF NoFlush, Tasks
  <2> QED
    BY <1>13, <2>1, <2>2 DEF FinishExecution, Executing, DropDelivery
<1>14. CASE EmitLoad
  <2>1. emit'.at # "no" => emit.at # "no" /\ emit'.rec = emit.rec
    <3>1. emit' = NoEmit \/ (emit.at # "no" /\ (\E x \in {"loaded", "full"} : emit' = [emit EXCEPT !.at = x, !.tail = OpenTail]))
      BY <1>14 DEF EmitLoad, EmitFails
    <3>2. emit \in [at : {"no", "loading", "loaded", "full", "persisted", "adopted", "waiting"},
                    rec : 0 .. End, tail : Seq(Records), moved : BOOLEAN]
      BY DEF Rows, TaskRows, EmitRow
    <3>3. CASE emit' = NoEmit
      BY <3>3 DEF NoEmit
    <3>4. CASE emit.at # "no" /\ emit' = EmitTurn
      BY <3>2, <3>4 DEF EmitTurn
    <3>5. CASE emit.at # "no" /\ emit' # EmitTurn /\ emit' # NoEmit
      BY <3>1, <3>2, <3>5
    <3> QED
      BY <3>1, <3>3, <3>4, <3>5
  <2>2. /\ proc.stage = "run" /\ emit'.at # "no" => proc'.stage = "run"
        /\ flush'.at # "no" => flush.at # "no" /\ proc'.stage \in {"run", "backlog", "drain"}
        /\ flush'.call # 0 => flush'.at = "sent"
    BY <1>14 DEF EmitLoad, EmitFails, NoEmit, Rows, ProcessRow, TaskRows, FlushRow, Tasks
  <2>3. tally'.made = tally.made
    BY <1>14 DEF EmitLoad, Faulty, Rows, CallRows
  <2> QED
    BY <2>1, <2>2, <2>3, EmissionKept, TerminalKept
<1>15. CASE EmitSeal
  <2>1. emit'.at # "no" => emit.at # "no" /\ emit'.rec = emit.rec
    BY <1>15 DEF EmitSeal, EmitTurn, Rows, TaskRows, EmitRow
  <2>2. /\ proc.stage = "run" /\ emit'.at # "no" => proc'.stage = "run"
        /\ flush'.at # "no" => flush.at # "no" /\ proc'.stage \in {"run", "backlog", "drain"}
        /\ flush'.call # 0 => flush'.at = "sent"
    BY <1>15 DEF EmitSeal, EmitTurn, Rows, ProcessRow, TaskRows, FlushRow, Tasks
  <2>3. tally'.made = tally.made
    BY <1>15 DEF EmitSeal, Faulty, Rows, CallRows
  <2> QED
    BY <2>1, <2>2, <2>3, EmissionKept, TerminalKept
<1>16. CASE EmitPersist
  <2>1. emit'.at # "no" => emit.at # "no" /\ emit'.rec = emit.rec
    BY <1>16 DEF EmitPersist, Rows, TaskRows, EmitRow
  <2>2. /\ proc.stage = "run" /\ emit'.at # "no" => proc'.stage = "run"
        /\ flush'.at # "no" => flush.at # "no" /\ proc'.stage \in {"run", "backlog", "drain"}
        /\ flush'.call # 0 => flush'.at = "sent"
    BY <1>16 DEF EmitPersist, Rows, ProcessRow, TaskRows, FlushRow, Tasks
  <2>3. tally'.made = tally.made
    BY <1>16 DEF EmitPersist, Faulty, Rows, CallRows
  <2> QED
    BY <2>1, <2>2, <2>3, EmissionKept, TerminalKept
<1>17. CASE EmitAdopt
  <2>1. emit'.at # "no" => emit.at # "no" /\ emit'.rec = emit.rec
    <3>1. emit' = NoEmit \/ (emit.at # "no" /\ (emit' = EmitTurn \/ \E x \in {"adopted", "waiting"} : emit' = [emit EXCEPT !.at = x]))
      BY <1>17 DEF EmitAdopt, EmitFails
    <3>2. emit \in [at : {"no", "loading", "loaded", "full", "persisted", "adopted", "waiting"},
                    rec : 0 .. End, tail : Seq(Records), moved : BOOLEAN]
      BY DEF Rows, TaskRows, EmitRow
    <3>3. CASE emit' = NoEmit
      BY <3>3 DEF NoEmit
    <3>4. CASE emit.at # "no" /\ emit' = EmitTurn
      BY <3>2, <3>4 DEF EmitTurn
    <3>5. CASE emit.at # "no" /\ emit' # EmitTurn /\ emit' # NoEmit
      BY <3>1, <3>2, <3>5
    <3> QED
      BY <3>1, <3>3, <3>4, <3>5
  <2>2. /\ proc.stage = "run" /\ emit'.at # "no" => proc'.stage = "run"
        /\ flush'.at # "no" => flush.at # "no" /\ proc'.stage \in {"run", "backlog", "drain"}
        /\ flush'.call # 0 => flush'.at = "sent"
    BY <1>17 DEF EmitAdopt, EmitTurn, EmitFails, NoEmit, Rows, ProcessRow, TaskRows, FlushRow, Tasks
  <2>3. tally'.made = tally.made
    BY <1>17 DEF EmitAdopt, Faulty, Rows, CallRows
  <2> QED
    BY <2>1, <2>2, <2>3, EmissionKept, TerminalKept
<1>18. CASE EmitDone
  <2>1. emit'.at # "no" => emit.at # "no" /\ emit'.rec = emit.rec
    BY <1>18 DEF EmitDone, NoEmit, Rows, TaskRows, EmitRow
  <2>2. /\ proc.stage = "run" /\ emit'.at # "no" => proc'.stage = "run"
        /\ flush'.at # "no" => flush.at # "no" /\ proc'.stage \in {"run", "backlog", "drain"}
        /\ flush'.call # 0 => flush'.at = "sent"
    BY <1>18 DEF EmitDone, NoEmit, Rows, ProcessRow, TaskRows, FlushRow, Tasks
  <2>3. tally'.made = tally.made
    BY <1>18 DEF EmitDone, Faulty, Rows, CallRows
  <2> QED
    BY <2>1, <2>2, <2>3, EmissionKept, TerminalKept
<1>19. CASE EmitWait
  <2>1. emit'.at # "no" => emit.at # "no" /\ emit'.rec = emit.rec
    <3>1. emit' = NoEmit \/ (emit.at # "no" /\ (emit' = EmitTurn))
      BY <1>19 DEF EmitWait, EmitFails
    <3>2. emit \in [at : {"no", "loading", "loaded", "full", "persisted", "adopted", "waiting"},
                    rec : 0 .. End, tail : Seq(Records), moved : BOOLEAN]
      BY DEF Rows, TaskRows, EmitRow
    <3>3. CASE emit' = NoEmit
      BY <3>3 DEF NoEmit
    <3>4. CASE emit.at # "no" /\ emit' = EmitTurn
      BY <3>2, <3>4 DEF EmitTurn
    <3>5. CASE emit.at # "no" /\ emit' # EmitTurn /\ emit' # NoEmit
      BY <3>1, <3>2, <3>5
    <3> QED
      BY <3>1, <3>3, <3>4, <3>5
  <2>2. /\ proc.stage = "run" /\ emit'.at # "no" => proc'.stage = "run"
        /\ flush'.at # "no" => flush.at # "no" /\ proc'.stage \in {"run", "backlog", "drain"}
        /\ flush'.call # 0 => flush'.at = "sent"
    BY <1>19 DEF EmitWait, EmitTurn, EmitFails, NoEmit, Rows, ProcessRow, TaskRows, FlushRow, Tasks
  <2>3. tally'.made = tally.made
    BY <1>19 DEF EmitWait, Faulty, Rows, CallRows
  <2> QED
    BY <2>1, <2>2, <2>3, EmissionKept, TerminalKept
<1>20. CASE FlushLoad
  <2>1. /\ emit' = emit /\ tally' = tally /\ proc' = proc /\ proc.stage \in {"run", "backlog", "drain"}
        /\ slot'.life = slot.life /\ flush'.call = 0
    BY <1>20 DEF FlushLoad, Delivering, Rows, SlotRow
  <2> QED
    BY <2>1 DEF Tasks
<1>21. CASE FlushCaughtUp
  <2>1. emit'.at # "no" => emit.at # "no" /\ emit'.rec = emit.rec
    BY <1>21 DEF FlushCaughtUp, Stage, Rows, TaskRows, EmitRow
  <2>2. /\ proc.stage = "run" /\ emit'.at # "no" => proc'.stage = "run"
        /\ flush'.at # "no" => flush.at # "no" /\ proc'.stage \in {"run", "backlog", "drain"}
        /\ flush'.call # 0 => flush'.at = "sent"
    BY <1>21 DEF FlushCaughtUp, Stage, Rows, ProcessRow, TaskRows, FlushRow, Tasks
  <2>3. tally'.made = tally.made
    BY <1>21 DEF FlushCaughtUp, Faulty, Rows, CallRows
  <2> QED
    BY <2>1, <2>2, <2>3, EmissionKept, TerminalKept
<1>22. CASE FlushCall
  <2>1. emit'.at # "no" => emit.at # "no" /\ emit'.rec = emit.rec
    BY <1>22 DEF FlushCall, Rows, TaskRows, EmitRow
  <2>2. /\ proc.stage = "run" /\ emit'.at # "no" => proc'.stage = "run"
        /\ flush'.at # "no" => flush.at # "no" /\ proc'.stage \in {"run", "backlog", "drain"}
        /\ flush'.call # 0 => flush'.at = "sent"
    BY <1>22 DEF FlushCall, Rows, ProcessRow, TaskRows, FlushRow, Tasks
  <2>3. tally'.made = tally.made
    BY <1>22 DEF FlushCall, Faulty, Rows, CallRows
  <2> QED
    BY <2>1, <2>2, <2>3, EmissionKept, TerminalKept
<1>23. CASE FlushAck
  <2>1. emit'.at # "no" => emit.at # "no" /\ emit'.rec = emit.rec
    BY <1>23 DEF FlushAck, Acknowledge, Rows, TaskRows, EmitRow
  <2>2. /\ proc.stage = "run" /\ emit'.at # "no" => proc'.stage = "run"
        /\ flush'.at # "no" => flush.at # "no" /\ proc'.stage \in {"run", "backlog", "drain"}
        /\ flush'.call # 0 => flush'.at = "sent"
    BY <1>23 DEF FlushAck, Acknowledge, Rows, ProcessRow, TaskRows, FlushRow, Tasks
  <2>3. tally'.made = tally.made
    BY <1>23 DEF FlushAck, Faulty, Rows, CallRows
  <2> QED
    BY <2>1, <2>2, <2>3, EmissionKept, TerminalKept
<1>24. CASE FlushRemove
  <2>1. emit'.at # "no" => emit.at # "no" /\ emit'.rec = emit.rec
    BY <1>24 DEF FlushRemove, NoFlush, Rows, TaskRows, EmitRow
  <2>2. /\ proc.stage = "run" /\ emit'.at # "no" => proc'.stage = "run"
        /\ flush'.at # "no" => flush.at # "no" /\ proc'.stage \in {"run", "backlog", "drain"}
        /\ flush'.call # 0 => flush'.at = "sent"
    BY <1>24 DEF FlushRemove, NoFlush, Rows, ProcessRow, TaskRows, FlushRow, Tasks
  <2>3. tally'.made = tally.made
    BY <1>24 DEF FlushRemove, Faulty, Rows, CallRows
  <2> QED
    BY <2>1, <2>2, <2>3, EmissionKept, TerminalKept
<1>25. CASE FlushEnds
  <2>1. emit'.at # "no" => emit.at # "no" /\ emit'.rec = emit.rec
    BY <1>25 DEF FlushEnds, Stage, Restarted, NoEmit, NoFlush, NoLate, Rows, TaskRows, EmitRow
  <2>2. /\ proc.stage = "run" /\ emit'.at # "no" => proc'.stage = "run"
        /\ flush'.at # "no" => flush.at # "no" /\ proc'.stage \in {"run", "backlog", "drain"}
        /\ flush'.call # 0 => flush'.at = "sent"
    BY <1>25 DEF FlushEnds, Stage, Restarted, NoEmit, NoFlush, NoLate, Rows, ProcessRow,
       TaskRows, FlushRow, Tasks
  <2>3. tally'.made = tally.made
    BY <1>25 DEF FlushEnds, Faulty, Rows, CallRows
  <2> QED
    BY <2>1, <2>2, <2>3, EmissionKept, TerminalKept
<1>26. CASE LateTask
  <2>1. emit'.at # "no" => emit.at # "no" /\ emit'.rec = emit.rec
    BY <1>26 DEF LateTask, NoLate, Acknowledge, Rows, TaskRows, EmitRow
  <2>2. /\ proc.stage = "run" /\ emit'.at # "no" => proc'.stage = "run"
        /\ flush'.at # "no" => flush.at # "no" /\ proc'.stage \in {"run", "backlog", "drain"}
        /\ flush'.call # 0 => flush'.at = "sent"
    BY <1>26 DEF LateTask, NoLate, Acknowledge, Rows, ProcessRow, TaskRows, FlushRow, Tasks
  <2>3. tally'.made = tally.made
    BY <1>26 DEF LateTask, Faulty, Rows, CallRows
  <2> QED
    BY <2>1, <2>2, <2>3, EmissionKept, TerminalKept
<1>27. ASSUME NEW c \in Calls, LookupReceipt(c) PROVE Tasks'
  <2>1. emit' = emit /\ proc' = proc /\ tally' = tally
    BY <1>27 DEF LookupReceipt
  <2>2. flush' = flush \/ (flush.at = "sent" /\ \E a : flush' = [flush EXCEPT !.at = a, !.call = 0])
    BY <1>27, AnsweredForms DEF LookupReceipt
  <2>3. /\ flush'.at # "no" => flush.at # "no" /\ proc'.stage \in {"run", "backlog", "drain"}
        /\ flush'.call # 0 => flush'.at = "sent"
    BY <2>1, <2>2 DEF Rows, TaskRows, FlushRow, Tasks
  <2> QED
    BY <2>1, <2>3, EmissionKept, TerminalKept
<1>28. ASSUME NEW c \in Calls, AdmitSegment(c) PROVE Tasks'
  <2>1. emit' = emit /\ proc' = proc /\ tally' = tally
    BY <1>28 DEF AdmitSegment
  <2>2. flush' = flush \/ (flush.at = "sent" /\ \E a : flush' = [flush EXCEPT !.at = a, !.call = 0])
    BY <1>28, AnsweredForms DEF AdmitSegment
  <2>3. /\ flush'.at # "no" => flush.at # "no" /\ proc'.stage \in {"run", "backlog", "drain"}
        /\ flush'.call # 0 => flush'.at = "sent"
    BY <2>1, <2>2 DEF Rows, TaskRows, FlushRow, Tasks
  <2> QED
    BY <2>1, <2>3, EmissionKept, TerminalKept
<1>29. ASSUME NEW c \in Calls, CommitSegment(c) PROVE Tasks'
  <2>1. emit' = emit /\ proc' = proc /\ tally' = tally
    BY <1>29 DEF CommitSegment
  <2>2. flush' = flush \/ (flush.at = "sent" /\ \E a : flush' = [flush EXCEPT !.at = a, !.call = 0])
    BY <1>29, AnsweredForms DEF CommitSegment
  <2>3. /\ flush'.at # "no" => flush.at # "no" /\ proc'.stage \in {"run", "backlog", "drain"}
        /\ flush'.call # 0 => flush'.at = "sent"
    BY <2>1, <2>2 DEF Rows, TaskRows, FlushRow, Tasks
  <2> QED
    BY <2>1, <2>3, EmissionKept, TerminalKept
<1>30. CASE NoticeExpiry
  <2>1. emit'.at # "no" => emit.at # "no" /\ emit'.rec = emit.rec
    BY <1>30 DEF NoticeExpiry, Stop, Maintained, Stage, DropDelivery, NoFlush, NoLate, Rows,
       TaskRows, EmitRow
  <2>2. /\ proc.stage = "run" /\ emit'.at # "no" => proc'.stage = "run"
        /\ flush'.at # "no" => flush.at # "no" /\ proc'.stage \in {"run", "backlog", "drain"}
        /\ flush'.call # 0 => flush'.at = "sent"
    BY <1>30 DEF NoticeExpiry, Stop, Maintained, Stage, DropDelivery, NoFlush, NoLate, Rows,
       ProcessRow, TaskRows, FlushRow, Tasks
  <2>3. tally'.made = tally.made
    BY <1>30 DEF NoticeExpiry, Faulty, Rows, CallRows
  <2> QED
    BY <2>1, <2>2, <2>3, EmissionKept, TerminalKept
<1>31. CASE HeartbeatFails \/ SiblingEndsSession
  <2>1. emit'.at # "no" => emit.at # "no" /\ emit'.rec = emit.rec
    BY <1>31 DEF HeartbeatFails, SiblingEndsSession, Stop, Maintained, Restarted, DropDelivery,
         NoFlush, NoLate,
       Rows, TaskRows, EmitRow
  <2>2. /\ proc.stage = "run" /\ emit'.at # "no" => proc'.stage = "run"
        /\ flush'.at # "no" => flush.at # "no" /\ proc'.stage \in {"run", "backlog", "drain"}
        /\ flush'.call # 0 => flush'.at = "sent"
    BY <1>31 DEF HeartbeatFails, SiblingEndsSession, Stop, Maintained, Restarted, DropDelivery,
         NoFlush, NoLate,
       Rows, ProcessRow, TaskRows, FlushRow, Tasks
  <2>3. tally'.made = tally.made
    BY <1>31 DEF HeartbeatFails, SiblingEndsSession, Faulty, Rows, CallRows
  <2> QED
    BY <2>1, <2>2, <2>3, EmissionKept, TerminalKept
<1>32. CASE EmitRecord
  <2>1. emit'.rec = tally.made + 1 /\ tally'.made = tally.made + 1 /\ flush' = flush /\ proc' = proc /\ proc.stage = "run"
    BY <1>32 DEF EmitRecord, Executing, NoEmit, Rows, CallRows
  <2>2. tally.made + 1 \in 1 .. MaxRecords
    BY <1>32, RunnerSlotAssumption DEF EmitRecord, Rows, CallRows
  <2> QED
    BY <2>1, <2>2 DEF Tasks
<1>33. CASE DestroyFails
  <2>1. emit'.at # "no" => emit.at # "no" /\ emit'.rec = emit.rec
    BY <1>33 DEF DestroyFails, Faulty, ProcessEnds, Restarted, NoEmit, NoFlush, NoLate, Rows,
       TaskRows, EmitRow
  <2>2. /\ proc.stage = "run" /\ emit'.at # "no" => proc'.stage = "run"
        /\ flush'.at # "no" => flush.at # "no" /\ proc'.stage \in {"run", "backlog", "drain"}
        /\ flush'.call # 0 => flush'.at = "sent"
    BY <1>33 DEF DestroyFails, Faulty, ProcessEnds, Restarted, NoEmit, NoFlush, NoLate, Rows,
       ProcessRow, TaskRows, FlushRow, Tasks
  <2>3. tally'.made = tally.made
    BY <1>33 DEF DestroyFails, Faulty, Rows, CallRows
  <2> QED
    BY <2>1, <2>2, <2>3, EmissionKept, TerminalKept
<1>34. CASE Cancel
  <2>1. emit'.at # "no" => emit.at # "no" /\ emit'.rec = emit.rec
    BY <1>34 DEF Cancel, Stop, DropDelivery, NoFlush, NoLate, Rows, TaskRows, EmitRow
  <2>2. /\ proc.stage = "run" /\ emit'.at # "no" => proc'.stage = "run"
        /\ flush'.at # "no" => flush.at # "no" /\ proc'.stage \in {"run", "backlog", "drain"}
        /\ flush'.call # 0 => flush'.at = "sent"
    BY <1>34 DEF Cancel, Stop, DropDelivery, NoFlush, NoLate, Rows, ProcessRow, TaskRows,
       FlushRow, Tasks
  <2>3. tally'.made = tally.made
    BY <1>34 DEF Cancel, Faulty, Rows, CallRows
  <2> QED
    BY <2>1, <2>2, <2>3, EmissionKept, TerminalKept
<1>35. CASE CancelRefused
  BY <1>35, EndsTasks DEF CancelRefused
<1>36. CASE FlushTimeout
  <2>1. emit'.at # "no" => emit.at # "no" /\ emit'.rec = emit.rec
    BY <1>36 DEF FlushTimeout, Faulty, Rows, TaskRows, EmitRow
  <2>2. /\ proc.stage = "run" /\ emit'.at # "no" => proc'.stage = "run"
        /\ flush'.at # "no" => flush.at # "no" /\ proc'.stage \in {"run", "backlog", "drain"}
        /\ flush'.call # 0 => flush'.at = "sent"
    BY <1>36 DEF FlushTimeout, Faulty, Rows, ProcessRow, TaskRows, FlushRow, Tasks
  <2>3. tally'.made = tally.made
    BY <1>36 DEF FlushTimeout, Faulty, Rows, CallRows
  <2> QED
    BY <2>1, <2>2, <2>3, EmissionKept, TerminalKept
<1>37. CASE HeartbeatRefused
  <2>1. emit'.at # "no" => emit.at # "no" /\ emit'.rec = emit.rec
    BY <1>37 DEF HeartbeatRefused, Faulty, ProcessEnds, Restarted, NoEmit, NoFlush, NoLate, Stop,
       DropDelivery, Maintained, Rows, TaskRows, EmitRow
  <2>2. /\ proc.stage = "run" /\ emit'.at # "no" => proc'.stage = "run"
        /\ flush'.at # "no" => flush.at # "no" /\ proc'.stage \in {"run", "backlog", "drain"}
        /\ flush'.call # 0 => flush'.at = "sent"
    BY <1>37 DEF HeartbeatRefused, Faulty, ProcessEnds, Restarted, NoEmit, NoFlush, NoLate, Stop,
       DropDelivery, Maintained, Rows, ProcessRow, TaskRows, FlushRow, Tasks
  <2>3. tally'.made = tally.made
    BY <1>37 DEF HeartbeatRefused, Faulty, Rows, CallRows
  <2> QED
    BY <2>1, <2>2, <2>3, EmissionKept, TerminalKept
<1>38. CASE Crash
  BY <1>38, EndsTasks DEF Crash
<1> QED
  BY <1>1, <1>2, <1>3, <1>4, <1>5, <1>6, <1>7, <1>8, <1>9, <1>10, <1>11, <1>12, <1>13, <1>14, <1>15,
       <1>16, <1>17, <1>18, <1>19, <1>20, <1>21, <1>22, <1>23, <1>24, <1>25, <1>26, <1>27, <1>28,
       <1>29, <1>30, <1>31, <1>32, <1>33, <1>34, <1>35, <1>36, <1>37, <1>38 DEF Next, SlotLoop,
       Executor, Emitter, Flusher, Server, Watch, Environment

\* What the slot's sandbox and its stages need of each other.
Conduct == Rows /\ Custody /\ Progress /\ Tasks

\* It holds in the beginning ...
LEMMA ConductInit ==
  ASSUME Init
  PROVE  Conduct
<1>1. Custody /\ Progress /\ Tasks
  BY DEF Init, Custody, Progress, Tasks, Restarted, NoEmit, NoFlush, Finishing
<1> QED
  BY <1>1, RowsInit DEF Conduct

\* ... and every step keeps it.
LEMMA ConductStep ==
  ASSUME Conduct, [Next]_vars
  PROVE  Conduct'
<1>1. CASE Next
  BY <1>1, RowsStep, CustodyStep, ProgressStep, TasksStep DEF Conduct
<1>2. CASE UNCHANGED vars
  <2>1. Custody' /\ Progress' /\ Tasks'
    BY <1>2 DEF vars, Conduct, Custody, Progress, Tasks, SessionLive
  <2> QED
    BY <1>2, <2>1, RowsStep DEF Conduct
<1> QED
  BY <1>1, <1>2

\* The journal forgets a slot only when no sandbox is left, and when the control
\* plane has the result or has closed the session (release_slot).
THEOREM ReleasesClean == Spec => []ReleasedClean
<1>1. Init => Conduct
  BY ConductInit
<1>2. Conduct /\ [Next]_vars => Conduct'
  BY ConductStep
<1>3. Conduct => ReleasedClean
  BY DEF Conduct, Custody, Progress, ReleasedClean, SessionLive
<1> QED
  BY <1>1, <1>2, <1>3, PTL DEF Spec

-----------------------------------------------------------------------------
(* The spool.                                                              *)

\* What a step does to the backlog: nothing, or it closes the last segment,
\* adopts what an emission has prepared, drops the acknowledged head, or lets
\* the slot go.
Keeps ==
  /\ slot'.segs = slot.segs /\ slot'.acked = slot.acked /\ slot'.eos = slot.eos
  /\ slot'.held = slot.held

Seals ==
  /\ GateFree /\ slot.segs # <<>>
  /\ slot' = [slot EXCEPT !.segs = Seal(slot.segs)]
  /\ UNCHANGED <<spool, proc, server, calls, tally>>

Adopts ==
  /\ emit.at = "persisted" /\ slot.held /\ ~slot.orphan /\ TailUnchanged
  /\ emit.tail = <<>> => Len(slot.segs) < MaxSegments
  /\ slot' = [slot EXCEPT !.segs = SegmentsWith(Candidate), !.eos = emit.rec = End]
  /\ emit' = [emit EXCEPT !.at = "adopted"]
  /\ UNCHANGED <<spool, engine, proc, flush, late, server, calls, tally>>

Drops(b) ==
  /\ GateFree /\ AcknowledgesHead(b)
  /\ slot' = WithoutHead(b)
  /\ UNCHANGED <<spool, engine, proc, server, calls, tally>>

LetsGo ==
  /\ proc.stage \in {"orphan", "deliver"} /\ ReleaseAllowed
  /\ slot' = [slot EXCEPT !.held = FALSE, !.segs = <<>>]
  /\ UNCHANGED <<engine, emit, flush, late, server, calls, tally>>

BacklogChange ==
  \/ Keeps \/ Seals \/ Adopts
  \/ flush.at = "acking" /\ Drops(flush) /\ FlushAck
  \/ late.at = "acking" /\ Drops(late) /\ LateTask
  \/ LetsGo

\* Every step is one of these.
LEMMA BacklogStep ==
  ASSUME Rows, Next
  PROVE  BacklogChange
<1>1. CASE Resume \/ ResumeOrphan \/ CloseBegin \/ CloseDone \/ DestroySandbox \/ CleanupDone \/
         PostResult \/ CreateSandbox \/ RecoverSandbox \/ FinishExecution \/ EmitPersist \/ EmitDone
         \/ EmitWait \/ FlushCaughtUp \/ FlushCall \/ FlushRemove \/ FlushEnds \/ CommitResult \/
         NoticeExpiry \/ HeartbeatFails \/ SiblingEndsSession \/ EmitRecord \/ CancelRefused \/
         FlushTimeout \/
         HeartbeatRefused \/ LeaseRunsOut \/ CloseSession \/ Crash
  BY <1>1 DEF Resume, ResumeOrphan, CloseBegin, CloseDone, DestroySandbox, CleanupDone, PostResult,
       CreateSandbox, RecoverSandbox, FinishExecution, EmitPersist, EmitDone, EmitWait,
       FlushCaughtUp, FlushCall, FlushRemove, FlushEnds, CommitResult, NoticeExpiry,
       HeartbeatFails, SiblingEndsSession,
       EmitRecord, CancelRefused, FlushTimeout, HeartbeatRefused, LeaseRunsOut, CloseSession, Crash,
       Rows, SlotRow, Keeps, BacklogChange
<1>2. CASE AuthorizeOrphan \/ AbandonDelivery \/ PersistResult \/ RecordResult \/ DestroyIntent \/
         SandboxDestroyed \/ ResultAcknowledged \/ CreateIntent \/ SandboxCreated \/ BeginRunning \/
         EmitLoad \/ CreateFails \/ Cancel
  BY <1>2 DEF AuthorizeOrphan, AbandonDelivery, PersistResult, RecordResult, DestroyIntent,
       SandboxDestroyed, ResultAcknowledged, CreateIntent, SandboxCreated, BeginRunning, EmitLoad,
       CreateFails, Cancel, Rows, SlotRow, Keeps, BacklogChange
<1>3. CASE ReleaseOrphan
  BY <1>3 DEF ReleaseOrphan, Keeps, LetsGo, BacklogChange
<1>4. CASE ReleaseSlot
  BY <1>4 DEF ReleaseSlot, LetsGo, BacklogChange
<1>5. CASE EmitSeal
  BY <1>5 DEF EmitSeal, Keeps, Seals, BacklogChange
<1>6. CASE EmitAdopt
  BY <1>6 DEF EmitAdopt, Keeps, Adopts, BacklogChange
<1>7. CASE FlushLoad
  BY <1>7 DEF FlushLoad, Seals, BacklogChange
<1>8. CASE FlushAck
  BY <1>8 DEF FlushAck, Acknowledge, Keeps, Drops, BacklogChange
<1>9. CASE LateTask
  BY <1>9 DEF LateTask, Acknowledge, HasOpen, Keeps, Seals, Drops, BacklogChange
<1>10. ASSUME NEW c \in Calls, LookupReceipt(c) PROVE BacklogChange
  BY <1>10 DEF LookupReceipt, Keeps, BacklogChange
<1>11. ASSUME NEW c \in Calls, AdmitSegment(c) PROVE BacklogChange
  BY <1>11 DEF AdmitSegment, Keeps, BacklogChange
<1>12. ASSUME NEW c \in Calls, CommitSegment(c) PROVE BacklogChange
  BY <1>12 DEF CommitSegment, Keeps, BacklogChange
<1>13. CASE DestroyFails
  BY <1>13, NotDestroyed DEF Rows, SlotRow, Keeps, BacklogChange
<1> QED
  BY <1>1, <1>2, <1>3, <1>4, <1>5, <1>6, <1>7, <1>8, <1>9, <1>10, <1>11, <1>12, <1>13 DEF Next,
       SlotLoop, Executor, Emitter, Flusher, Server, Watch, Environment

\* A new turn of an emission, and none.
LEMMA TurnFields ==
  ASSUME Rows
  PROVE  /\ EmitTurn.at = "loading" /\ EmitTurn.rec = emit.rec /\ EmitTurn.tail = <<>>
         /\ NoEmit.at = "no"
<1>1. EmitTurn.at = "loading" /\ EmitTurn.rec = emit.rec /\ EmitTurn.tail = <<>>
  BY DEF EmitTurn, Rows, TaskRows, EmitRow
<1>2. NoEmit.at = "no"
  BY DEF NoEmit
<1> QED
  BY <1>1, <1>2

\* A process that ends holds nothing ...
LEMMA EndsGate ==
  ASSUME ProcessEnds
  PROVE  Gate'
BY DEF ProcessEnds, NoEmit, NoFlush, NoLate, Restarted, Gate

\* ... and a dropped delivery leaves the gate to its task.
LEMMA DropGate ==
  ASSUME Rows, Gate, DropDelivery, emit' = emit, proc'.stage # "recording"
  PROVE  Gate'
<1>1. flush'.at = "no" /\ (late'.at = "removing" => flush.at = "removing" \/ late.at = "removing")
  BY DEF DropDelivery, NoFlush, NoLate
<1> QED
  BY <1>1 DEF Gate

\* The gate keeps one holder.
LEMMA GateStep ==
  ASSUME Rows, Tasks, Gate, Next
  PROVE  Gate'
<1>1. CASE Resume
  <2>1. proc'.stage # "recording" /\ UNCHANGED <<emit, flush, late>>
    BY <1>1, DispatchedTo DEF Resume
  <2> QED
    BY <2>1 DEF Gate
<1>2. CASE AuthorizeOrphan
  BY <1>2 DEF AuthorizeOrphan, Stage, Rows, ProcessRow, TaskRows, EmitRow, FlushRow, LateRow, Tasks,
       Gate, GateFree
<1>3. CASE ResumeOrphan
  BY <1>3 DEF ResumeOrphan, Stage, Rows, ProcessRow, TaskRows, EmitRow, FlushRow, LateRow, Tasks,
       Gate, GateFree
<1>4. CASE AbandonDelivery \/ DestroyIntent \/ DestroySandbox \/ SandboxDestroyed \/ PostResult \/
         ResultAcknowledged \/ CreateIntent \/ CreateSandbox \/ SandboxCreated \/ RecoverSandbox \/
         BeginRunning \/ CommitResult \/ CreateFails \/ LeaseRunsOut \/ CloseSession
  <2>1. UNCHANGED <<emit, flush, late>> /\ proc'.stage = proc.stage
    BY <1>4 DEF AbandonDelivery, DestroyIntent, DestroySandbox, SandboxDestroyed, PostResult,
       ResultAcknowledged,
         CreateIntent, CreateSandbox, SandboxCreated, RecoverSandbox, BeginRunning, CommitResult, CreateFails,
         LeaseRunsOut, CloseSession, Rows, ProcessRow
  <2> QED
    BY <2>1 DEF Gate
<1>5. CASE ReleaseOrphan
  <2>1. CASE ProcessEnds
    BY <2>1, EndsGate
  <2>2. CASE DropDelivery /\ emit' = emit /\ proc'.stage # "recording"
    BY <2>2, DropGate
  <2>3. CASE UNCHANGED <<emit, flush, late>> /\ (proc'.stage = "recording" => proc.stage = "recording")
    BY <2>3 DEF Gate
  <2> QED
    BY <1>5, <2>1, <2>2, <2>3 DEF ReleaseOrphan, Stage, Rows, ProcessRow
<1>6. CASE PersistResult
  BY <1>6 DEF PersistResult, Stage, Rows, ProcessRow, TaskRows, EmitRow, FlushRow, LateRow, Tasks,
       Gate, GateFree
<1>7. CASE RecordResult
  <2>1. CASE ProcessEnds
    BY <2>1, EndsGate
  <2>2. CASE DropDelivery /\ emit' = emit /\ proc'.stage # "recording"
    BY <2>2, DropGate
  <2>3. CASE UNCHANGED <<emit, flush, late>> /\ (proc'.stage = "recording" => proc.stage = "recording")
    BY <2>3 DEF Gate
  <2> QED
    BY <1>7, <2>1, <2>2, <2>3 DEF RecordResult, Stage, Rows, ProcessRow
<1>8. CASE CloseBegin
  BY <1>8 DEF CloseBegin, NoEmit, Rows, ProcessRow, TaskRows, EmitRow, FlushRow, LateRow, Tasks,
       Gate, GateFree
<1>9. CASE CloseDone
  BY <1>9 DEF CloseDone, Stage, Rows, ProcessRow, TaskRows, EmitRow, FlushRow, LateRow, Tasks, Gate,
       GateFree
<1>10. CASE CleanupDone
  BY <1>10 DEF CleanupDone, Stage, Rows, ProcessRow, TaskRows, EmitRow, FlushRow, LateRow, Tasks,
       Gate, GateFree
<1>11. CASE ReleaseSlot
  BY <1>11 DEF ReleaseSlot, Stage, Rows, ProcessRow, TaskRows, EmitRow, FlushRow, LateRow, Tasks,
       Gate, GateFree
<1>12. CASE FinishExecution
  <2>1. CASE ProcessEnds
    BY <2>1, EndsGate
  <2>2. CASE DropDelivery /\ emit' = emit /\ proc'.stage # "recording"
    BY <2>2, DropGate
  <2>3. CASE UNCHANGED <<emit, flush, late>> /\ (proc'.stage = "recording" => proc.stage = "recording")
    BY <2>3 DEF Gate
  <2> QED
    BY <1>12, <2>1, <2>2, <2>3 DEF FinishExecution, AfterExecution, Restarted, Rows, ProcessRow
<1>13. CASE EmitLoad
  <2>1. flush' = flush /\ late' = late /\ proc'.stage = proc.stage
    BY <1>13 DEF EmitLoad, EmitFails, Rows, ProcessRow
  <2>2. emit'.at \in {"persisted", "adopted"} => emit.at \in {"persisted", "adopted"} 
    BY <1>13, TurnFields DEF EmitLoad, EmitFails, Rows, TaskRows, EmitRow
  <2> QED
    BY <1>13, <2>1, <2>2 DEF EmitLoad, Gate
<1>14. CASE EmitSeal
  <2>1. flush' = flush /\ late' = late /\ proc'.stage = proc.stage
    BY <1>14 DEF EmitSeal, EmitFails, Rows, ProcessRow
  <2>2. emit'.at \in {"persisted", "adopted"} => emit.at \in {"persisted", "adopted"} 
    BY <1>14, TurnFields DEF EmitSeal, EmitFails, Rows, TaskRows, EmitRow
  <2> QED
    BY <1>14, <2>1, <2>2 DEF EmitSeal, Gate
<1>15. CASE EmitPersist
  <2>1. UNCHANGED <<flush, late, proc>> /\ GateFree
    BY <1>15 DEF EmitPersist
  <2> QED
    BY <2>1 DEF Gate, GateFree
<1>16. CASE EmitAdopt
  <2>1. flush' = flush /\ late' = late /\ proc'.stage = proc.stage
    BY <1>16 DEF EmitAdopt, EmitFails, Rows, ProcessRow
  <2>2. emit'.at \in {"persisted", "adopted"} => emit.at \in {"persisted", "adopted"} 
    BY <1>16, TurnFields DEF EmitAdopt, EmitFails, Rows, TaskRows, EmitRow
  <2> QED
    BY <1>16, <2>1, <2>2 DEF EmitAdopt, Gate
<1>17. CASE EmitDone
  BY <1>17 DEF EmitDone, NoEmit, Rows, ProcessRow, TaskRows, EmitRow, FlushRow, LateRow, Tasks,
       Gate, GateFree
<1>18. CASE EmitWait
  <2>1. flush' = flush /\ late' = late /\ proc'.stage = proc.stage
    BY <1>18 DEF EmitWait, EmitFails, Rows, ProcessRow
  <2>2. emit'.at \in {"persisted", "adopted"} => emit.at \in {"persisted", "adopted"} 
    BY <1>18, TurnFields DEF EmitWait, EmitFails, Rows, TaskRows, EmitRow
  <2> QED
    BY <1>18, <2>1, <2>2 DEF EmitWait, Gate
<1>19. CASE FlushLoad
  BY <1>19 DEF FlushLoad, Rows, ProcessRow, TaskRows, EmitRow, FlushRow, LateRow, Tasks, Gate,
       GateFree
<1>20. CASE FlushCaughtUp
  BY <1>20 DEF FlushCaughtUp, Stage, Rows, ProcessRow, TaskRows, EmitRow, FlushRow, LateRow, Tasks,
       Gate, GateFree
<1>21. CASE FlushCall
  BY <1>21 DEF FlushCall, Rows, ProcessRow, TaskRows, EmitRow, FlushRow, LateRow, Tasks, Gate,
       GateFree
<1>22. CASE FlushAck
  <2>1. emit'.at = emit.at /\ late' = late /\ proc' = proc /\ GateFree
    BY <1>22 DEF FlushAck, Acknowledge, Rows, TaskRows, EmitRow
  <2> QED
    BY <2>1 DEF Gate, GateFree
<1>23. CASE FlushRemove
  BY <1>23 DEF FlushRemove, NoFlush, Rows, ProcessRow, TaskRows, EmitRow, FlushRow, LateRow, Tasks,
       Gate, GateFree
<1>24. CASE FlushEnds
  BY <1>24 DEF FlushEnds, Stage, Restarted, NoEmit, NoFlush, NoLate, Rows, ProcessRow, TaskRows,
       EmitRow, FlushRow, LateRow, Tasks, Gate, GateFree
<1>25. CASE LateTask
  <2>1. emit'.at = emit.at /\ flush' = flush /\ proc' = proc
    BY <1>25, LateForms DEF Rows, TaskRows, EmitRow
  <2>2. late'.at = "removing" => GateFree
    BY <1>25 DEF LateTask, NoLate
  <2> QED
    BY <2>1, <2>2 DEF Gate, GateFree
<1>26. ASSUME NEW c \in Calls, LookupReceipt(c) PROVE Gate'
  <2>1. emit' = emit /\ proc' = proc /\ late' = late
    BY <1>26 DEF LookupReceipt
  <2>2. flush' = flush \/ \E a \in {"acking", "refused", "stale"} : flush' = [flush EXCEPT !.at = a, !.call = 0]
    BY <1>26, AnsweredForms DEF LookupReceipt
  <2>3. flush'.at = "removing" => flush.at = "removing"
    BY <2>2 DEF Rows, TaskRows, FlushRow
  <2> QED
    BY <2>1, <2>3 DEF Gate
<1>27. ASSUME NEW c \in Calls, AdmitSegment(c) PROVE Gate'
  <2>1. emit' = emit /\ proc' = proc /\ late' = late
    BY <1>27 DEF AdmitSegment
  <2>2. flush' = flush \/ \E a \in {"acking", "refused", "stale"} : flush' = [flush EXCEPT !.at = a, !.call = 0]
    BY <1>27, AnsweredForms DEF AdmitSegment
  <2>3. flush'.at = "removing" => flush.at = "removing"
    BY <2>2 DEF Rows, TaskRows, FlushRow
  <2> QED
    BY <2>1, <2>3 DEF Gate
<1>28. ASSUME NEW c \in Calls, CommitSegment(c) PROVE Gate'
  <2>1. emit' = emit /\ proc' = proc /\ late' = late
    BY <1>28 DEF CommitSegment
  <2>2. flush' = flush \/ \E a \in {"acking", "refused", "stale"} : flush' = [flush EXCEPT !.at = a, !.call = 0]
    BY <1>28, AnsweredForms DEF CommitSegment
  <2>3. flush'.at = "removing" => flush.at = "removing"
    BY <2>2 DEF Rows, TaskRows, FlushRow
  <2> QED
    BY <2>1, <2>3 DEF Gate
<1>29. CASE NoticeExpiry
  <2>1. CASE ProcessEnds
    BY <2>1, EndsGate
  <2>2. CASE DropDelivery /\ emit' = emit /\ proc'.stage # "recording"
    BY <2>2, DropGate
  <2>3. CASE UNCHANGED <<emit, flush, late>> /\ (proc'.stage = "recording" => proc.stage = "recording")
    BY <2>3 DEF Gate
  <2> QED
    BY <1>29, <2>1, <2>2, <2>3 DEF NoticeExpiry, Stop, Stage, Rows, ProcessRow
<1>30. CASE HeartbeatFails \/ SiblingEndsSession
  <2>1. CASE ProcessEnds
    BY <2>1, EndsGate
  <2>2. CASE DropDelivery /\ emit' = emit /\ proc'.stage # "recording"
    BY <2>2, DropGate
  <2>3. CASE UNCHANGED <<emit, flush, late>> /\ (proc'.stage = "recording" => proc.stage = "recording")
    BY <2>3 DEF Gate
  <2> QED
    BY <1>30, <2>1, <2>2, <2>3 DEF HeartbeatFails, SiblingEndsSession, Stop, Restarted, Rows,
         ProcessRow
<1>31. CASE EmitRecord
  BY <1>31 DEF EmitRecord, NoEmit, Rows, ProcessRow, TaskRows, EmitRow, FlushRow, LateRow, Tasks,
       Gate, GateFree
<1>32. CASE DestroyFails
  BY <1>32, NotDestroyed, EndsGate DEF Gate, Rows, ProcessRow
<1>33. CASE Cancel
  <2>1. CASE ProcessEnds
    BY <2>1, EndsGate
  <2>2. CASE DropDelivery /\ emit' = emit /\ proc'.stage # "recording"
    BY <2>2, DropGate
  <2>3. CASE UNCHANGED <<emit, flush, late>> /\ (proc'.stage = "recording" => proc.stage = "recording")
    BY <2>3 DEF Gate
  <2> QED
    BY <1>33, <2>1, <2>2, <2>3 DEF Cancel, Stop, Rows, ProcessRow
<1>34. CASE CancelRefused
  <2>1. CASE ProcessEnds
    BY <2>1, EndsGate
  <2>2. CASE DropDelivery /\ emit' = emit /\ proc'.stage # "recording"
    BY <2>2, DropGate
  <2>3. CASE UNCHANGED <<emit, flush, late>> /\ (proc'.stage = "recording" => proc.stage = "recording")
    BY <2>3 DEF Gate
  <2> QED
    BY <1>34, <2>1, <2>2, <2>3 DEF CancelRefused, Rows, ProcessRow
<1>35. CASE FlushTimeout
  BY <1>35 DEF FlushTimeout, Rows, ProcessRow, TaskRows, EmitRow, FlushRow, LateRow, Tasks, Gate,
       GateFree
<1>36. CASE HeartbeatRefused
  <2>1. CASE ProcessEnds
    BY <2>1, EndsGate
  <2>2. CASE DropDelivery /\ emit' = emit /\ proc'.stage # "recording"
    BY <2>2, DropGate
  <2>3. CASE UNCHANGED <<emit, flush, late>> /\ (proc'.stage = "recording" => proc.stage = "recording")
    BY <2>3 DEF Gate
  <2> QED
    BY <1>36, <2>1, <2>2, <2>3 DEF HeartbeatRefused, Stop, Rows, ProcessRow
<1>37. CASE Crash
  <2>1. CASE ProcessEnds
    BY <2>1, EndsGate
  <2>2. CASE DropDelivery /\ emit' = emit /\ proc'.stage # "recording"
    BY <2>2, DropGate
  <2>3. CASE UNCHANGED <<emit, flush, late>> /\ (proc'.stage = "recording" => proc.stage = "recording")
    BY <2>3 DEF Gate
  <2> QED
    BY <1>37, <2>1, <2>2, <2>3 DEF Crash, Rows, ProcessRow
<1> QED
  BY <1>1, <1>2, <1>3, <1>4, <1>5, <1>6, <1>7, <1>8, <1>9, <1>10, <1>11, <1>12, <1>13, <1>14, <1>15,
       <1>16, <1>17, <1>18, <1>19, <1>20, <1>21, <1>22, <1>23, <1>24, <1>25, <1>26, <1>27, <1>28,
       <1>29, <1>30, <1>31, <1>32, <1>33, <1>34, <1>35, <1>36, <1>37 DEF Next, SlotLoop, Executor,
       Emitter, Flusher, Server, Watch, Environment

\* What the journal refers to.
LEMMA ReferencesOf ==
  ASSUME Rows
  PROVE  \A x : x \in References <=>
           /\ slot.held
           /\ \/ \E i \in 1 .. Len(slot.segs) : x = slot.segs[i].obj
              \/ slot.result # "none" /\ x = ResultObject
<1>1. DOMAIN slot.segs = 1 .. Len(slot.segs)
  BY SlotParts
<1> QED
  BY <1>1 DEF References

\* A result is recorded once, and acknowledged after that.
LEMMA ResultStep ==
  ASSUME Rows, Next
  PROVE  \/ slot'.result = slot.result
         \/ slot.result = "recorded" /\ slot'.result = "acked"
         \/ proc.stage = "recording"
<1> DEFINE ResultGoal == \/ slot'.result = slot.result
                         \/ slot.result = "recorded" /\ slot'.result = "acked"
                         \/ proc.stage = "recording"
<1>1. CASE Resume \/ AuthorizeOrphan \/ ResumeOrphan \/ AbandonDelivery \/ ReleaseOrphan \/
         PersistResult \/ CloseBegin \/ CloseDone \/ DestroyIntent \/ DestroySandbox \/
         SandboxDestroyed \/ CleanupDone \/ PostResult \/ ReleaseSlot \/ CreateIntent \/
         CreateSandbox \/ SandboxCreated \/ RecoverSandbox \/ BeginRunning \/ FinishExecution \/
         EmitLoad \/ EmitSeal \/ EmitPersist \/ EmitAdopt \/ EmitDone \/ EmitWait \/ FlushLoad \/
         FlushCaughtUp \/ FlushCall \/ FlushRemove \/ FlushEnds \/ CommitResult \/ NoticeExpiry \/
         HeartbeatFails \/ SiblingEndsSession \/ EmitRecord \/ CreateFails \/ Cancel \/
         CancelRefused \/ FlushTimeout \/
         HeartbeatRefused \/ LeaseRunsOut \/ CloseSession \/ Crash
  BY <1>1 DEF Resume, AuthorizeOrphan, ResumeOrphan, AbandonDelivery, ReleaseOrphan, PersistResult,
       CloseBegin, CloseDone, DestroyIntent, DestroySandbox, SandboxDestroyed, CleanupDone,
       PostResult, ReleaseSlot, CreateIntent, CreateSandbox, SandboxCreated, RecoverSandbox,
       BeginRunning, FinishExecution, EmitLoad, EmitSeal, EmitPersist, EmitAdopt, EmitDone,
       EmitWait, FlushLoad, FlushCaughtUp, FlushCall, FlushRemove, FlushEnds, CommitResult,
       NoticeExpiry, HeartbeatFails, SiblingEndsSession, EmitRecord, CreateFails, Cancel,
       CancelRefused, FlushTimeout,
       HeartbeatRefused, LeaseRunsOut, CloseSession, Crash, Rows, SlotRow
<1>2. CASE RecordResult
  BY <1>2 DEF RecordResult, Rows, SlotRow
<1>3. CASE ResultAcknowledged
  BY <1>3 DEF ResultAcknowledged, Rows, SlotRow
<1>4. CASE FlushAck
  BY <1>4 DEF FlushAck, Acknowledge, WithoutHead, Rows, SlotRow
<1>5. CASE LateTask
  BY <1>5, LateForms DEF WithoutHead, Rows, SlotRow
<1>6. ASSUME NEW c \in Calls, LookupReceipt(c) PROVE ResultGoal
  BY <1>6 DEF LookupReceipt
<1>7. ASSUME NEW c \in Calls, AdmitSegment(c) PROVE ResultGoal
  BY <1>7 DEF AdmitSegment
<1>8. ASSUME NEW c \in Calls, CommitSegment(c) PROVE ResultGoal
  BY <1>8 DEF CommitSegment
<1>9. CASE DestroyFails
  BY <1>9, NotDestroyed DEF Rows, SlotRow
<1> QED
  BY <1>1, <1>2, <1>3, <1>4, <1>5, <1>6, <1>7, <1>8, <1>9 DEF Next, SlotLoop, Executor, Emitter,
       Flusher, Server, Watch, Environment

\* What the journal refers to next: nothing new but what was persisted for it.
LEMMA ReferencesStep ==
  ASSUME Rows, Next
  PROVE  \A x \in References' : \/ x \in References
                                \/ Adopts /\ x = Candidate
                                \/ proc.stage = "recording" /\ x = ResultObject
<1>1. Rows'
  BY RowsStep
<1>2. SUFFICES ASSUME NEW x \in References', x \notin References
               PROVE  (Adopts /\ x = Candidate) \/ (proc.stage = "recording" /\ x = ResultObject)
  OBVIOUS
<1>3. /\ slot'.held
      /\ \/ \E i \in 1 .. Len(slot'.segs) : x = slot'.segs[i].obj
         \/ slot'.result # "none" /\ x = ResultObject
  <2>1. slot'.segs \in Seq(Segments)
    BY <1>1 DEF Rows, SlotRow
  <2>2. DOMAIN slot'.segs = 1 .. Len(slot'.segs)
    BY <2>1
  <2> QED
    BY <1>2, <2>2 DEF References
<1>4. slot.segs \in Seq(Segments)
  BY SlotParts
<1>5. CASE Keeps
  BY <1>2, <1>3, <1>5, ResultStep, ReferencesOf DEF Keeps
<1>6. CASE Seals
  <2>1. slot'.segs = Seal(slot.segs) /\ slot'.held = slot.held
    BY <1>6 DEF Seals, Rows, SlotRow
  <2> QED
    BY <1>2, <1>3, <1>4, <2>1, SealType, ResultStep, ReferencesOf
<1>7. CASE Adopts
  <2>1. slot'.segs = SegmentsWith(Candidate) /\ slot'.held = slot.held /\ emit.at # "no"
    BY <1>7 DEF Adopts, Rows, SlotRow
  <2>2. PICK seg : seg = [obj |-> Candidate, sealed |-> Last(Candidate) = End]
    OBVIOUS
  <2>3. emit.tail # <<>> => slot.segs # <<>>
    BY <1>7 DEF Adopts, TailUnchanged, OpenTail, HasOpen
  <2>4. SegmentsWith(Candidate) = IF emit.tail # <<>> THEN [slot.segs EXCEPT ![Len(slot.segs)] = seg]
                                  ELSE Append(slot.segs, seg)
    BY <2>2 DEF SegmentsWith
  <2>5. \A i \in 1 .. Len(slot'.segs) : slot'.segs[i] = seg \/ (i \in 1 .. Len(slot.segs) /\ slot'.segs[i] = slot.segs[i])
    BY <1>4, <2>1, <2>3, <2>4
  <2>6. seg.obj = Candidate
    BY <2>2
  <2> QED
    BY <1>2, <1>3, <1>7, <2>1, <2>5, <2>6, ResultStep, ReferencesOf
<1>8. ASSUME NEW b, Drops(b) PROVE (Adopts /\ x = Candidate) \/ (proc.stage = "recording" /\ x = ResultObject)
  <2>1. slot'.segs = Tail(slot.segs) /\ slot'.held = slot.held /\ slot.segs # <<>>
    BY <1>8 DEF Drops, AcknowledgesHead, WithoutHead, Rows, SlotRow
  <2>2. \A i \in 1 .. Len(slot'.segs) : i + 1 \in 1 .. Len(slot.segs) /\ slot'.segs[i] = slot.segs[i + 1]
    BY <1>4, <2>1
  <2> QED
    BY <1>2, <1>3, <2>1, <2>2, ResultStep, ReferencesOf
<1>9. CASE LetsGo
  BY <1>3, <1>9 DEF LetsGo, Rows, SlotRow
<1> QED
  BY <1>5, <1>6, <1>7, <1>8, <1>9, BacklogStep DEF BacklogChange

\* What leaves the spool: objects that nobody refers to, while the gate is held.
LEMMA SpoolStep ==
  ASSUME Rows, Next
  PROVE  \/ spool \subseteq spool'
         \/ proc.stage = "hello" /\ GateFree /\ spool' = References
         \/ LetsGo /\ GateFree
         \/ /\ \E x : spool' = spool \ ({x} \ References)
            /\ emit.at = "adopted" \/ flush.at = "removing" \/ late.at = "removing"
<1> DEFINE Goal == \/ spool \subseteq spool'
                   \/ proc.stage = "hello" /\ GateFree /\ spool' = References
                   \/ LetsGo /\ GateFree
                   \/ /\ \E x : spool' = spool \ ({x} \ References)
                      /\ emit.at = "adopted" \/ flush.at = "removing" \/ late.at = "removing"
<1>1. CASE Resume
  BY <1>1 DEF Resume
<1>2. CASE AuthorizeOrphan \/ ResumeOrphan \/ AbandonDelivery \/ ReleaseOrphan \/ PersistResult \/
         RecordResult \/ CloseBegin \/ CloseDone \/ DestroyIntent \/ DestroySandbox \/
         SandboxDestroyed \/ CleanupDone \/ PostResult \/ ResultAcknowledged \/ CreateIntent \/
         CreateSandbox \/ SandboxCreated \/ RecoverSandbox \/ BeginRunning \/ FinishExecution \/
         EmitLoad \/ EmitSeal \/ EmitPersist \/ EmitAdopt \/ EmitWait \/ FlushLoad \/ FlushCaughtUp
         \/ FlushCall \/ FlushAck \/ FlushEnds \/ CommitResult \/ NoticeExpiry \/
            HeartbeatFails \/ SiblingEndsSession \/
         EmitRecord \/ CreateFails \/ DestroyFails \/ Cancel \/ CancelRefused \/ FlushTimeout \/
         HeartbeatRefused \/ LeaseRunsOut \/ CloseSession \/ Crash
  BY <1>2 DEF AuthorizeOrphan, ResumeOrphan, AbandonDelivery, ReleaseOrphan, PersistResult,
       RecordResult, CloseBegin, CloseDone, DestroyIntent, DestroySandbox, SandboxDestroyed,
       CleanupDone, PostResult, ResultAcknowledged, CreateIntent, CreateSandbox, SandboxCreated,
       RecoverSandbox, BeginRunning, FinishExecution, EmitLoad, EmitSeal, EmitPersist, EmitAdopt,
       EmitWait, FlushLoad, FlushCaughtUp, FlushCall, FlushAck, FlushEnds, CommitResult,
       NoticeExpiry, HeartbeatFails, SiblingEndsSession, EmitRecord, CreateFails, DestroyFails,
       Cancel, CancelRefused,
       FlushTimeout, HeartbeatRefused, LeaseRunsOut, CloseSession, Crash
<1>3. CASE ReleaseSlot
  BY <1>3 DEF ReleaseSlot, LetsGo
<1>4. CASE EmitDone
  BY <1>4 DEF EmitDone
<1>5. CASE FlushRemove
  BY <1>5 DEF FlushRemove
<1>6. CASE LateTask
  BY <1>6 DEF LateTask
<1>7. ASSUME NEW c \in Calls, LookupReceipt(c) PROVE Goal
  BY <1>7 DEF LookupReceipt
<1>8. ASSUME NEW c \in Calls, AdmitSegment(c) PROVE Goal
  BY <1>8 DEF AdmitSegment
<1>9. ASSUME NEW c \in Calls, CommitSegment(c) PROVE Goal
  BY <1>9 DEF CommitSegment
<1> QED
  BY <1>1, <1>2, <1>3, <1>4, <1>5, <1>6, <1>7, <1>8, <1>9 DEF Next, SlotLoop, Executor, Emitter,
       Flusher, Server, Watch, Environment

\* What a step keeps of an emission: nothing, its record and its tail, or its
\* record alone.
LEMMA EmitStep ==
  ASSUME Rows, Next
  PROVE  \/ emit'.at = "no"
         \/ emit'.at = emit.at /\ emit'.rec = emit.rec /\ emit'.tail = emit.tail
         \/ CloseBegin \/ EmitRecord
         \/ /\ emit.at \in {"full", "persisted", "waiting"} /\ emit'.at = "loading"
            /\ emit'.rec = emit.rec
         \/ /\ emit.at = "loading" /\ emit'.at \in {"loaded", "full"} /\ EmitLoad
            /\ emit'.rec = emit.rec /\ emit'.tail = OpenTail
         \/ EmitPersist /\ emit'.at = "persisted" /\ emit'.rec = emit.rec /\ emit'.tail = emit.tail
         \/ Adopts /\ emit'.at = "adopted" /\ emit'.rec = emit.rec
         \/ emit.at = "persisted" /\ emit'.at = "waiting" /\ emit'.rec = emit.rec
<1> DEFINE Goal == \/ emit'.at = "no"
                   \/ emit'.at = emit.at /\ emit'.rec = emit.rec /\ emit'.tail = emit.tail
                   \/ CloseBegin \/ EmitRecord
                   \/ /\ emit.at \in {"full", "persisted", "waiting"} /\ emit'.at = "loading"
                      /\ emit'.rec = emit.rec
                   \/ /\ emit.at = "loading" /\ emit'.at \in {"loaded", "full"} /\ EmitLoad
                      /\ emit'.rec = emit.rec /\ emit'.tail = OpenTail
                   \/ EmitPersist /\ emit'.at = "persisted" /\ emit'.rec = emit.rec /\ emit'.tail = emit.tail
                   \/ Adopts /\ emit'.at = "adopted" /\ emit'.rec = emit.rec
                   \/ emit.at = "persisted" /\ emit'.at = "waiting" /\ emit'.rec = emit.rec
<1>1. CASE Resume \/ AuthorizeOrphan \/ ResumeOrphan \/ AbandonDelivery \/ PersistResult \/
         CloseDone \/ DestroyIntent \/ DestroySandbox \/ SandboxDestroyed \/ CleanupDone \/
         PostResult \/ ResultAcknowledged \/ ReleaseSlot \/ CreateIntent \/ CreateSandbox \/
         SandboxCreated \/ RecoverSandbox \/ BeginRunning \/ FlushLoad \/ FlushCaughtUp \/ FlushCall
         \/ FlushRemove \/ CommitResult \/ CreateFails \/ FlushTimeout \/ LeaseRunsOut \/
         CloseSession
  BY <1>1 DEF Resume, AuthorizeOrphan, ResumeOrphan, AbandonDelivery, PersistResult, CloseDone,
       DestroyIntent, DestroySandbox, SandboxDestroyed, CleanupDone, PostResult, ResultAcknowledged,
       ReleaseSlot, CreateIntent, CreateSandbox, SandboxCreated, RecoverSandbox, BeginRunning,
       FlushLoad, FlushCaughtUp, FlushCall, FlushRemove, CommitResult, CreateFails, FlushTimeout,
       LeaseRunsOut, CloseSession
<1>2. CASE ReleaseOrphan \/ RecordResult \/ FinishExecution \/ FlushEnds \/ NoticeExpiry \/
         HeartbeatFails \/ SiblingEndsSession \/ Cancel \/ CancelRefused \/ HeartbeatRefused \/
         Crash
  BY <1>2, TurnFields DEF ReleaseOrphan, RecordResult, FinishExecution, HeartbeatRefused,
     CancelRefused, Crash,
       FlushEnds, NoticeExpiry, HeartbeatFails, SiblingEndsSession, Cancel, Stop, ProcessEnds
<1>3. CASE CloseBegin
  BY <1>3
<1>4. CASE EmitLoad
  <2>1. emit' = NoEmit \/ (emit.at = "loading" /\ \E a \in {"loaded", "full"} : emit' = [emit EXCEPT !.at = a, !.tail = OpenTail])
    BY <1>4 DEF EmitLoad, EmitFails
  <2> QED
    BY <1>4, <2>1, TurnFields DEF Rows, TaskRows, EmitRow
<1>5. CASE EmitSeal
  BY <1>5, TurnFields DEF EmitSeal
<1>6. CASE EmitPersist
  BY <1>6 DEF EmitPersist, Rows, TaskRows, EmitRow
<1>7. CASE EmitAdopt
  <2>1. /\ emit.at = "persisted"
        /\ \/ emit' = NoEmit \/ emit' = EmitTurn
           \/ Adopts /\ emit' = [emit EXCEPT !.at = "adopted"]
           \/ emit' = [emit EXCEPT !.at = "waiting"]
    BY <1>7 DEF EmitAdopt, EmitFails, Adopts
  <2> QED
    BY <2>1, TurnFields DEF Rows, TaskRows, EmitRow
<1>8. CASE EmitDone
  BY <1>8, TurnFields DEF EmitDone
<1>9. CASE EmitWait
  BY <1>9, TurnFields DEF EmitWait, EmitFails
<1>10. CASE FlushAck
  <2>1. emit'.at = emit.at /\ emit'.rec = emit.rec /\ emit'.tail = emit.tail
    BY <1>10 DEF FlushAck, Acknowledge, Rows, TaskRows, EmitRow
  <2> QED
    BY <2>1
<1>11. CASE LateTask
  <2>1. emit'.at = emit.at /\ emit'.rec = emit.rec /\ emit'.tail = emit.tail
    BY <1>11, LateForms DEF Rows, TaskRows, EmitRow
  <2> QED
    BY <2>1
<1>12. ASSUME NEW c \in Calls, LookupReceipt(c) PROVE Goal
  BY <1>12 DEF LookupReceipt
<1>13. ASSUME NEW c \in Calls, AdmitSegment(c) PROVE Goal
  BY <1>13 DEF AdmitSegment
<1>14. ASSUME NEW c \in Calls, CommitSegment(c) PROVE Goal
  BY <1>14 DEF CommitSegment
<1>15. CASE EmitRecord
  BY <1>15
<1>16. CASE DestroyFails
  BY <1>16, NotDestroyed, TurnFields DEF ProcessEnds
<1> QED
  BY <1>1, <1>2, <1>3, <1>4, <1>5, <1>6, <1>7, <1>8, <1>9, <1>10, <1>11, <1>12, <1>13, <1>14, <1>15,
       <1>16 DEF Next, SlotLoop, Executor, Emitter, Flusher, Server, Watch, Environment

\* Only the commit of a result enters the section that records it.
LEMMA RecordingStep ==
  ASSUME Rows, Next, proc'.stage = "recording"
  PROVE  proc.stage = "recording" \/ ResultObject \in spool'
<1>1. CASE Resume
  BY <1>1, DispatchedTo
<1>2. CASE AuthorizeOrphan
  BY <1>2 DEF AuthorizeOrphan, Stage, Rows, ProcessRow
<1>3. CASE ResumeOrphan
  BY <1>3 DEF ResumeOrphan, Stage, Rows, ProcessRow
<1>4. CASE AbandonDelivery \/ CloseBegin \/ DestroyIntent \/ DestroySandbox \/ SandboxDestroyed \/
         PostResult \/ ResultAcknowledged \/ CreateIntent \/ CreateSandbox \/ SandboxCreated \/
         RecoverSandbox \/ BeginRunning \/ EmitLoad \/ EmitSeal \/ EmitPersist \/ EmitAdopt \/
         EmitDone \/ EmitWait \/ FlushLoad \/ FlushCall \/ FlushAck \/ FlushRemove \/ LateTask \/
         CommitResult \/ EmitRecord \/ CreateFails \/ FlushTimeout \/ LeaseRunsOut \/ CloseSession
  BY <1>4 DEF AbandonDelivery, CloseBegin, DestroyIntent, DestroySandbox, SandboxDestroyed,
       PostResult, ResultAcknowledged, CreateIntent, CreateSandbox, SandboxCreated, RecoverSandbox,
       BeginRunning, EmitLoad, EmitFails, EmitSeal, EmitPersist, EmitAdopt, EmitDone, EmitWait,
       FlushLoad, FlushCall, FlushAck, FlushRemove, LateTask, CommitResult, EmitRecord, CreateFails,
       FlushTimeout, LeaseRunsOut, CloseSession, Rows, ProcessRow
<1>5. CASE ReleaseOrphan
  BY <1>5 DEF ReleaseOrphan, Stage, ProcessEnds, Restarted, Rows, ProcessRow
<1>6. CASE PersistResult
  BY <1>6 DEF PersistResult
<1>7. CASE RecordResult
  BY <1>7 DEF RecordResult, Stage, ProcessEnds, Restarted, Rows, ProcessRow
<1>8. CASE CloseDone
  BY <1>8 DEF CloseDone, Stage, Rows, ProcessRow
<1>9. CASE CleanupDone
  BY <1>9 DEF CleanupDone, Stage, Rows, ProcessRow
<1>10. CASE ReleaseSlot
  BY <1>10 DEF ReleaseSlot, Stage, Rows, ProcessRow
<1>11. CASE FinishExecution
  BY <1>11 DEF FinishExecution, ProcessEnds, AfterExecution, Restarted, Rows, ProcessRow
<1>12. CASE FlushCaughtUp
  BY <1>12 DEF FlushCaughtUp, Stage, Rows, ProcessRow
<1>13. CASE FlushEnds
  BY <1>13 DEF FlushEnds, Stage, Restarted, Rows, ProcessRow
<1>14. ASSUME NEW c \in Calls, LookupReceipt(c) PROVE proc.stage = "recording" \/ ResultObject \in spool'
  BY <1>14 DEF LookupReceipt
<1>15. ASSUME NEW c \in Calls, AdmitSegment(c) PROVE proc.stage = "recording" \/ ResultObject \in spool'
  BY <1>15 DEF AdmitSegment
<1>16. ASSUME NEW c \in Calls, CommitSegment(c) PROVE proc.stage = "recording" \/ ResultObject \in spool'
  BY <1>16 DEF CommitSegment
<1>17. CASE NoticeExpiry
  BY <1>17 DEF NoticeExpiry, Stop, Stage, Rows, ProcessRow
<1>18. CASE HeartbeatFails \/ SiblingEndsSession
  BY <1>18 DEF HeartbeatFails, SiblingEndsSession, Stop, Restarted, Rows, ProcessRow
<1>19. CASE DestroyFails
  BY <1>19, NotDestroyed DEF ProcessEnds, Restarted, Rows, ProcessRow
<1>20. CASE Cancel
  BY <1>20 DEF Cancel, Stop, Rows, ProcessRow
<1>21. CASE CancelRefused
  BY <1>21 DEF CancelRefused, ProcessEnds, Restarted, Rows, ProcessRow
<1>22. CASE HeartbeatRefused
  BY <1>22 DEF HeartbeatRefused, ProcessEnds, Restarted, Stop, Rows, ProcessRow
<1>23. CASE Crash
  BY <1>23 DEF Crash, ProcessEnds, Restarted, Rows, ProcessRow
<1> QED
  BY <1>1, <1>2, <1>3, <1>4, <1>5, <1>6, <1>7, <1>8, <1>9, <1>10, <1>11, <1>12, <1>13, <1>14, <1>15,
       <1>16, <1>17, <1>18, <1>19, <1>20, <1>21, <1>22, <1>23 DEF Next, SlotLoop, Executor, Emitter,
       Flusher, Server, Watch, Environment

\* Whatever step the runner stops after, what the journal refers to is there.
LEMMA ContentStep ==
  ASSUME Conduct, Gate, Content, Next
  PROVE  Content'
<1>1. Rows /\ Tasks
  BY DEF Conduct
<1>2. emit'.at = "persisted" => Candidate' \in spool'
  <2>1. SUFFICES ASSUME emit'.at = "persisted" PROVE Candidate' \in spool'
    OBVIOUS
  <2>2. CASE EmitPersist
    <3>1. spool' = spool \cup {Candidate} /\ emit' = [emit EXCEPT !.at = "persisted"]
      BY <2>2 DEF EmitPersist
    <3>2. emit'.tail = emit.tail /\ emit'.rec = emit.rec
      BY <1>1, <3>1 DEF Rows, TaskRows, EmitRow
    <3> QED
      BY <3>1, <3>2 DEF Candidate
  <2>3. CASE emit.at = "persisted" /\ emit'.rec = emit.rec /\ emit'.tail = emit.tail
    <3>1. Candidate' = Candidate /\ Candidate \in spool
      BY <2>3 DEF Candidate, Content
    <3>2. ~GateFree /\ flush.at # "removing" /\ late.at # "removing" /\ emit.at # "adopted"
      BY <2>3 DEF GateFree, Gate
    <3> QED
      BY <1>1, <3>1, <3>2, SpoolStep
  <2> QED
    BY <1>1, <2>1, <2>2, <2>3, EmitStep DEF CloseBegin, EmitRecord, NoEmit
<1>3. proc'.stage = "recording" => ResultObject \in spool'
  <2>1. SUFFICES ASSUME proc'.stage = "recording", proc.stage = "recording" PROVE ResultObject \in spool'
    BY <1>1, RecordingStep
  <2>2. ~GateFree /\ flush.at # "removing" /\ late.at # "removing" /\ emit.at # "adopted"
    BY <2>1 DEF GateFree, Gate
  <2> QED
    BY <1>1, <2>1, <2>2, SpoolStep DEF Content
<1>4. References' \subseteq spool'
  <2>1. SUFFICES ASSUME NEW x \in References' PROVE x \in spool'
    OBVIOUS
  <2>2. \/ x \in References
        \/ Adopts /\ x = Candidate
        \/ proc.stage = "recording" /\ x = ResultObject
    BY <1>1, <2>1, ReferencesStep
  <2>3. x \in spool
    BY <2>2 DEF Content, Adopts
  <2>4. ~LetsGo
    BY <1>1, <2>1 DEF LetsGo, References, Rows, SlotRow
  <2>5. CASE spool \subseteq spool'
    BY <2>3, <2>5
  <2>6. CASE proc.stage = "hello" /\ GateFree /\ spool' = References
    BY <2>2, <2>6 DEF GateFree, Adopts
  <2>7. CASE /\ \E y : spool' = spool \ ({y} \ References)
             /\ emit.at = "adopted" \/ flush.at = "removing" \/ late.at = "removing"
    <3>1. x \in References
      BY <2>2, <2>7 DEF Gate, Adopts
    <3> QED
      BY <2>3, <2>7, <3>1
  <2> QED
    BY <1>1, <2>4, <2>5, <2>6, <2>7, SpoolStep
<1> QED
  BY <1>2, <1>3, <1>4 DEF Content

-----------------------------------------------------------------------------
(* The backlog and its frames.                                             *)

\* The objects of the segments, in their order.
Objects(segs) == [i \in DOMAIN segs |-> segs[i].obj]

\* They are a sequence of sequences of records, as long as the segments.
LEMMA ObjectsType ==
  ASSUME NEW segs \in Seq(Segments)
  PROVE  /\ Objects(segs) \in Seq(Seq(Records)) /\ Len(Objects(segs)) = Len(segs)
         /\ \A i \in 1 .. Len(segs) : Objects(segs)[i] = segs[i].obj /\ segs[i].obj \in Seq(Records)
         /\ Frames(segs) = FlattenSeq(Objects(segs)) /\ Frames(segs) \in Seq(Records)
<1>1. DOMAIN segs = 1 .. Len(segs) /\ \A i \in 1 .. Len(segs) : segs[i] \in Segments
  OBVIOUS
<1>2. \A i \in 1 .. Len(segs) : segs[i].obj \in Seq(Records)
  BY <1>1 DEF Segments
<1>3. PICK Q : Q = Seq(Records)
  OBVIOUS
<1>4. Objects(segs) = [i \in 1 .. Len(segs) |-> segs[i].obj] /\ \A i \in 1 .. Len(segs) : segs[i].obj \in Q
  BY <1>1, <1>2, <1>3 DEF Objects
<1>5. Objects(segs) \in Seq(Q) /\ Len(Objects(segs)) = Len(segs)
  BY <1>4
<1>6. \A i \in 1 .. Len(segs) : Objects(segs)[i] = segs[i].obj
  BY <1>4
<1>7. Frames(segs) = FlattenSeq(Objects(segs))
  BY DEF Frames, Objects
<1>8. Objects(segs) \in Seq(Seq(Records))
  BY <1>3, <1>5
<1>9. Frames(segs) \in Seq(Records)
  BY <1>7, <1>8, FlattenType
<1> QED
  BY <1>2, <1>5, <1>6, <1>7, <1>8, <1>9

\* No segments, no frames.
LEMMA FramesEmpty == Frames(<<>>) = <<>>
<1>1. Len([i \in DOMAIN <<>> |-> <<>>[i].obj]) = 0
  OBVIOUS
<1> QED
  BY <1>1 DEF Frames, FlattenSeq

\* Sealing changes no frame.
LEMMA FramesSeal ==
  ASSUME NEW segs \in Seq(Segments)
  PROVE  Frames(Seal(segs)) = Frames(segs)
<1>1. DOMAIN segs = 1 .. Len(segs) /\ DOMAIN Seal(segs) = 1 .. Len(segs)
  BY SealType
<1>2. Objects(Seal(segs)) = Objects(segs)
  BY <1>1, SealType DEF Objects
<1> QED
  BY <1>2 DEF Frames, Objects

\* A segment more brings its frames last.
LEMMA FramesAppend ==
  ASSUME NEW segs \in Seq(Segments), NEW seg \in Segments
  PROVE  Frames(Append(segs, seg)) = Frames(segs) \o seg.obj
<1>1. Append(segs, seg) \in Seq(Segments) /\ Len(Append(segs, seg)) = Len(segs) + 1 /\ Len(segs) \in Nat
  OBVIOUS
<1>2. PICK Q : Q = Seq(Records)
  OBVIOUS
<1>3. Objects(segs) \in Seq(Q) /\ seg.obj \in Q
  BY <1>2, ObjectsType DEF Segments
<1>4. Append(Objects(segs), seg.obj) \in Seq(Q) /\ Len(Append(Objects(segs), seg.obj)) = Len(segs) + 1
  BY <1>3, ObjectsType
<1>5. Objects(Append(segs, seg)) \in Seq(Q) /\ Len(Objects(Append(segs, seg))) = Len(segs) + 1
  BY <1>1, <1>2, ObjectsType
<1>6. \A i \in 1 .. (Len(segs) + 1) : Objects(Append(segs, seg))[i] = Append(Objects(segs), seg.obj)[i]
  <2>1. SUFFICES ASSUME NEW i \in 1 .. (Len(segs) + 1)
                 PROVE  Objects(Append(segs, seg))[i] = Append(Objects(segs), seg.obj)[i]
    OBVIOUS
  <2>2. Objects(Append(segs, seg))[i] = Append(segs, seg)[i].obj
    BY <1>1, <2>1, ObjectsType
  <2>3. CASE i = Len(segs) + 1
    <3>1. Append(segs, seg)[i] = seg
      BY <2>3
    <3>2. Append(Objects(segs), seg.obj)[i] = seg.obj
      BY <1>3, <2>3, ObjectsType
    <3> QED
      BY <2>2, <3>1, <3>2
  <2>4. CASE i \in 1 .. Len(segs)
    <3>1. Append(segs, seg)[i] = segs[i]
      BY <2>4
    <3>2. Append(Objects(segs), seg.obj)[i] = Objects(segs)[i]
      BY <1>3, <2>4, ObjectsType
    <3>3. Objects(segs)[i] = segs[i].obj
      BY <2>4, ObjectsType
    <3> QED
      BY <2>2, <3>1, <3>2, <3>3
  <2>5. i = Len(segs) + 1 \/ i \in 1 .. Len(segs)
    BY <1>1, <2>1
  <2> QED
    BY <2>3, <2>4, <2>5
<1>7. Objects(Append(segs, seg)) = Append(Objects(segs), seg.obj)
  BY <1>4, <1>5, <1>6, SeqEqual
<1>8. Objects(segs) \in Seq(Seq(Records)) /\ seg.obj \in Seq(Records)
  BY <1>2, <1>3
<1>9. Frames(segs) = FlattenSeq(Objects(segs))
  BY ObjectsType
<1>10. Frames(Append(segs, seg)) = FlattenSeq(Objects(Append(segs, seg)))
  BY <1>1, ObjectsType
<1>11. FlattenSeq(Append(Objects(segs), seg.obj)) = FlattenSeq(Objects(segs)) \o seg.obj
  BY <1>8, FlattenAppend
<1> QED
  BY <1>7, <1>9, <1>10, <1>11

\* The frames of the head come first.
LEMMA FramesHead ==
  ASSUME NEW segs \in Seq(Segments), segs # <<>>
  PROVE  Frames(segs) = Head(segs).obj \o Frames(Tail(segs))
<1>1. Tail(segs) \in Seq(Segments) /\ Len(Tail(segs)) = Len(segs) - 1 /\ Len(segs) \in Nat \ {0} /\ Head(segs) = segs[1]
  OBVIOUS
<1>2. PICK Q : Q = Seq(Records)
  OBVIOUS
<1>3. Objects(segs) \in Seq(Q) /\ Len(Objects(segs)) = Len(segs) /\ Objects(segs) # <<>>
  BY <1>1, <1>2, ObjectsType
<1>4. Tail(Objects(segs)) \in Seq(Q) /\ Len(Tail(Objects(segs))) = Len(segs) - 1 /\ Head(Objects(segs)) = Objects(segs)[1]
  BY <1>3
<1>5. Objects(Tail(segs)) \in Seq(Q) /\ Len(Objects(Tail(segs))) = Len(segs) - 1
  BY <1>1, <1>2, ObjectsType
<1>6. \A i \in 1 .. (Len(segs) - 1) : Objects(Tail(segs))[i] = Tail(Objects(segs))[i]
  <2>1. SUFFICES ASSUME NEW i \in 1 .. (Len(segs) - 1) PROVE Objects(Tail(segs))[i] = Tail(Objects(segs))[i]
    OBVIOUS
  <2>2. Tail(segs)[i] = segs[i + 1] /\ i + 1 \in 1 .. Len(segs)
    BY <1>1, <2>1
  <2>3. Tail(Objects(segs))[i] = Objects(segs)[i + 1]
    BY <1>3, <2>1
  <2>4. Objects(Tail(segs))[i] = Tail(segs)[i].obj
    BY <1>1, <2>1, ObjectsType
  <2> QED
    BY <2>2, <2>3, <2>4, ObjectsType
<1>7. Objects(Tail(segs)) = Tail(Objects(segs))
  BY <1>4, <1>5, <1>6, SeqEqual
<1>8. Objects(segs) \in Seq(Seq(Records))
  BY <1>2, <1>3
<1>9. Objects(segs)[1] = segs[1].obj
  BY <1>1, ObjectsType
<1> QED
  BY <1>1, <1>3, <1>4, <1>7, <1>8, <1>9, ObjectsType, FlattenHead

\* A record more in the last segment is the last frame.
LEMMA FramesExtend ==
  ASSUME NEW segs \in Seq(Segments), segs # <<>>, NEW r \in Records, NEW seg \in Segments,
         seg.obj = Append(Last(segs).obj, r)
  PROVE  Frames([segs EXCEPT ![Len(segs)] = seg]) = Append(Frames(segs), r)
<1>1. PICK front \in Seq(Segments), last \in Segments : segs = Append(front, last)
  BY SequenceEmptyOrAppend
<1>2. Last(segs) = last /\ [segs EXCEPT ![Len(segs)] = seg] = Append(front, seg)
  <2>1. Len(segs) = Len(front) + 1 /\ segs[Len(front) + 1] = last /\ \A i \in 1 .. Len(front) : segs[i] = front[i]
    BY <1>1
  <2>2. Last(segs) = last
    BY <2>1 DEF Last
  <2>3. PICK other : other = [segs EXCEPT ![Len(segs)] = seg]
    OBVIOUS
  <2>4. other \in Seq(Segments) /\ Len(other) = Len(segs) /\ \A i \in 1 .. Len(segs) : other[i] = IF i = Len(segs) THEN seg ELSE segs[i]
    BY <2>3
  <2>5. /\ Append(front, seg) \in Seq(Segments) /\ Len(Append(front, seg)) = Len(front) + 1
        /\ \A i \in 1 .. (Len(front) + 1) : Append(front, seg)[i] = IF i = Len(front) + 1 THEN seg ELSE front[i]
    OBVIOUS
  <2>6. \A i \in 1 .. Len(other) : other[i] = Append(front, seg)[i]
    <3>1. SUFFICES ASSUME NEW i \in 1 .. Len(other) PROVE other[i] = Append(front, seg)[i]
      OBVIOUS
    <3>2. i \in 1 .. (Len(front) + 1) /\ (i # Len(front) + 1 => i \in 1 .. Len(front)) /\ i \in 1 .. Len(segs)
      BY <2>1, <2>4, <3>1
    <3> QED
      BY <2>1, <2>4, <2>5, <3>2
  <2>7. other = Append(front, seg)
    BY <2>1, <2>4, <2>5, <2>6, SeqEqual
  <2> QED
    BY <2>2, <2>3, <2>7
<1>3. Frames(segs) = Frames(front) \o last.obj /\ Frames([segs EXCEPT ![Len(segs)] = seg]) = Frames(front) \o seg.obj
  BY <1>1, <1>2, FramesAppend
<1>4. ASSUME NEW a \in Seq(Records), NEW b \in Seq(Records) PROVE a \o Append(b, r) = Append(a \o b, r)
  OBVIOUS
<1>5. Frames(front) \in Seq(Records) /\ last.obj \in Seq(Records)
  BY ObjectsType DEF Segments
<1> QED
  BY <1>2, <1>3, <1>4, <1>5

\* Segments that are not empty have frames.
LEMMA FramesNotEmpty ==
  ASSUME NEW segs \in Seq(Segments), segs # <<>>, \A i \in 1 .. Len(segs) : segs[i].obj # <<>>
  PROVE  Frames(segs) # <<>>
<1>1. Head(segs) = segs[1] /\ 1 \in 1 .. Len(segs) /\ Tail(segs) \in Seq(Segments)
  OBVIOUS
<1>2. Head(segs).obj \in Seq(Records) /\ Head(segs).obj # <<>> /\ Frames(Tail(segs)) \in Seq(Records)
  BY <1>1, ObjectsType
<1>3. ASSUME NEW a \in Seq(Records), NEW b \in Seq(Records), a # <<>> PROVE a \o b # <<>>
  BY <1>3
<1> QED
  BY <1>2, <1>3, FramesHead

\* The cursor's validation of a backlog with the frames f.
ValidWith(segs, f, eos) ==
  /\ \A i \in 1 .. Len(segs) : i < Len(segs) => segs[i].sealed
  /\ \A i \in 1 .. Len(f) : f[i] = End => i = Len(f)
  /\ segs # <<>> => (eos <=> f[Len(f)] = End)

\* It is CursorValid.
LEMMA CursorForm ==
  ASSUME Rows
  PROVE  CursorValid <=> ValidWith(slot.segs, Frames(slot.segs), slot.eos)
<1>1. DOMAIN slot.segs = 1 .. Len(slot.segs) /\ slot.segs \in Seq(Segments)
  BY SlotParts
<1>2. DOMAIN Frames(slot.segs) = 1 .. Len(Frames(slot.segs))
  BY <1>1, ObjectsType
<1> QED
  BY <1>1, <1>2 DEF CursorValid, ValidWith, Last

\* What the journal adopts: one record more, the last one, in a segment that
\* closes with the end of the stream.
LEMMA AdoptForms ==
  ASSUME Rows, Adopts
  PROVE  /\ emit.rec \in Records
         /\ Frames(slot'.segs) = Append(Frames(slot.segs), emit.rec)
         /\ slot'.segs \in Seq(Segments) /\ slot'.segs # <<>>
         /\ Last(slot'.segs).obj = Candidate
         /\ \A i \in 1 .. Len(slot'.segs) : \/ i = Len(slot'.segs) /\ slot'.segs[i].obj = Candidate
                                            \/ i \in 1 .. Len(slot.segs) /\ slot'.segs[i] = slot.segs[i]
         /\ \/ emit.tail # <<>> /\ HasOpen /\ Len(slot'.segs) = Len(slot.segs)
            \/ emit.tail = <<>> /\ Len(slot'.segs) = Len(slot.segs) + 1 /\ Len(slot.segs) < MaxSegments
         /\ slot'.eos = (emit.rec = End) /\ slot'.acked = slot.acked /\ slot'.held = slot.held
         /\ slot'.orphan = slot.orphan /\ slot'.life = slot.life
<1>1. /\ slot'.segs = SegmentsWith(Candidate) /\ emit.at # "no"
      /\ slot'.eos = (emit.rec = End) /\ slot'.acked = slot.acked /\ slot'.held = slot.held
      /\ slot'.orphan = slot.orphan /\ slot'.life = slot.life
  BY DEF Adopts, Rows, SlotRow
<1>2. PICK seg : seg = [obj |-> Candidate, sealed |-> Last(Candidate) = End]
  OBVIOUS
<1>3. seg \in Segments /\ seg.obj = Candidate /\ emit.rec \in Records
  BY <1>1, <1>2, CandidateType DEF Segments
<1>4. slot.segs \in Seq(Segments)
  BY SlotParts
<1>5. CASE emit.tail # <<>>
  <2>1. HasOpen /\ Last(slot.segs).obj = emit.tail /\ slot.segs # <<>>
    BY <1>5 DEF Adopts, TailUnchanged, OpenTail, HasOpen
  <2>2. slot'.segs = [slot.segs EXCEPT ![Len(slot.segs)] = seg]
    BY <1>1, <1>2, <1>5 DEF SegmentsWith
  <2>3. seg.obj = Append(Last(slot.segs).obj, emit.rec)
    BY <1>3, <2>1 DEF Candidate
  <2>4. Frames(slot'.segs) = Append(Frames(slot.segs), emit.rec)
    <3>1. slot.segs # <<>>
      BY <2>1
    <3>2. Frames([slot.segs EXCEPT ![Len(slot.segs)] = seg]) = Append(Frames(slot.segs), emit.rec)
      BY <1>3, <1>4, <2>3, <3>1, FramesExtend
    <3> QED
      BY <2>2, <3>2
  <2>5. /\ slot'.segs \in Seq(Segments) /\ slot'.segs # <<>> /\ Len(slot'.segs) = Len(slot.segs)
        /\ slot'.segs[Len(slot'.segs)] = seg
        /\ \A i \in 1 .. Len(slot'.segs) : \/ i = Len(slot'.segs) /\ slot'.segs[i] = seg
                                           \/ i \in 1 .. Len(slot.segs) /\ slot'.segs[i] = slot.segs[i]
    BY <1>3, <1>4, <2>1, <2>2
  <2> QED
    BY <1>1, <1>3, <1>5, <2>1, <2>4, <2>5 DEF Last
<1>6. CASE emit.tail = <<>>
  <2>1. slot'.segs = Append(slot.segs, seg) /\ Len(slot.segs) < MaxSegments
    BY <1>1, <1>2, <1>6 DEF SegmentsWith, Adopts
  <2>2. seg.obj = <<emit.rec>>
    BY <1>3, <1>6 DEF Candidate
  <2>3. ASSUME NEW a \in Seq(Records) PROVE a \o <<emit.rec>> = Append(a, emit.rec)
    BY <1>3
  <2>4. Frames(slot'.segs) = Append(Frames(slot.segs), emit.rec)
    <3>1. Frames(slot'.segs) = Frames(slot.segs) \o <<emit.rec>>
      BY <1>3, <1>4, <2>1, <2>2, FramesAppend
    <3>2. Frames(slot.segs) \in Seq(Records)
      BY <1>4, ObjectsType
    <3> QED
      BY <2>3, <3>1, <3>2
  <2>5. /\ slot'.segs \in Seq(Segments) /\ slot'.segs # <<>> /\ Len(slot'.segs) = Len(slot.segs) + 1
        /\ slot'.segs[Len(slot'.segs)] = seg
        /\ \A i \in 1 .. Len(slot'.segs) : \/ i = Len(slot'.segs) /\ slot'.segs[i] = seg
                                           \/ i \in 1 .. Len(slot.segs) /\ slot'.segs[i] = slot.segs[i]
    BY <1>3, <1>4, <2>1
  <2> QED
    BY <1>1, <1>3, <1>6, <2>1, <2>4, <2>5 DEF Last
<1> QED
  BY <1>5, <1>6

\* What an acknowledgement leaves.
LEMMA DropForms ==
  ASSUME Rows, NEW b, Drops(b)
  PROVE  /\ slot.segs \in Seq(Segments) /\ slot.segs # <<>> /\ Head(slot.segs).sealed /\ Head(slot.segs).obj = b.obj
         /\ slot'.segs = Tail(slot.segs) /\ slot'.segs \in Seq(Segments)
         /\ Len(slot'.segs) = Len(slot.segs) - 1
         /\ \A i \in 1 .. Len(slot'.segs) : i + 1 \in 1 .. Len(slot.segs) /\ slot'.segs[i] = slot.segs[i + 1]
         /\ Frames(slot.segs) = Head(slot.segs).obj \o Frames(slot'.segs)
         /\ slot'.eos = slot.eos /\ slot'.held = slot.held /\ slot'.orphan = slot.orphan /\ slot'.life = slot.life
         /\ slot.held /\ slot.acked + 1 = b.first /\ slot'.acked = Through(b)
<1>1. /\ slot'.segs = Tail(slot.segs) /\ slot'.eos = slot.eos /\ slot'.held = slot.held
      /\ slot'.orphan = slot.orphan /\ slot'.life = slot.life /\ slot'.acked = Through(b)
  BY DEF Drops, WithoutHead, Rows, SlotRow
<1>2. slot.held /\ slot.segs # <<>> /\ Head(slot.segs).sealed /\ Head(slot.segs).obj = b.obj /\ slot.acked + 1 = b.first
  BY DEF Drops, AcknowledgesHead
<1>3. slot.segs \in Seq(Segments)
  BY SlotParts
<1>4. ASSUME NEW segs \in Seq(Segments), segs # <<>>
      PROVE  /\ Tail(segs) \in Seq(Segments) /\ Len(Tail(segs)) = Len(segs) - 1
             /\ \A i \in 1 .. Len(Tail(segs)) : i + 1 \in 1 .. Len(segs) /\ Tail(segs)[i] = segs[i + 1]
  BY <1>4
<1>5. Frames(slot.segs) = Head(slot.segs).obj \o Frames(Tail(slot.segs))
  BY <1>2, <1>3, FramesHead
<1> QED
  BY <1>1, <1>2, <1>3, <1>4, <1>5

\* What sealing leaves.
LEMMA SealForms ==
  ASSUME Rows, Seals
  PROVE  /\ slot.segs \in Seq(Segments) /\ slot'.segs = Seal(slot.segs) /\ slot'.segs \in Seq(Segments)
         /\ Len(slot'.segs) = Len(slot.segs) /\ slot'.segs # <<>> /\ slot.segs # <<>>
         /\ \A i \in 1 .. Len(slot.segs) : /\ slot'.segs[i].obj = slot.segs[i].obj
                                           /\ slot'.segs[i].sealed = (slot.segs[i].sealed \/ i = Len(slot.segs))
         /\ Frames(slot'.segs) = Frames(slot.segs)
         /\ slot'.eos = slot.eos /\ slot'.held = slot.held /\ slot'.orphan = slot.orphan /\ slot'.life = slot.life
         /\ slot'.acked = slot.acked
<1>1. /\ slot'.segs = Seal(slot.segs) /\ slot'.eos = slot.eos /\ slot'.held = slot.held
      /\ slot'.orphan = slot.orphan /\ slot'.life = slot.life /\ slot'.acked = slot.acked /\ slot.segs # <<>>
  BY DEF Seals, Rows, SlotRow
<1>2. slot.segs \in Seq(Segments)
  BY SlotParts
<1>3. Seal(slot.segs) # <<>>
  <2>1. Len(slot.segs) # 0
    BY <1>1, <1>2
  <2> QED
    BY <1>2, <2>1, SealType
<1> QED
  BY <1>1, <1>2, <1>3, SealType, FramesSeal

\* The backlog stays valid.
LEMMA SegmentRowsStep ==
  ASSUME Conduct, Emission, SegmentRows, Next
  PROVE  SegmentRows'
<1>1. Rows /\ Rows'
  BY RowsStep DEF Conduct
<1>2. slot.segs \in Seq(Segments) /\ Frames(slot.segs) \in Seq(Records) /\ Len(slot.segs) \in Nat /\ Len(Frames(slot.segs)) \in Nat
  BY <1>1, SlotParts, ObjectsType
<1>3. ValidWith(slot.segs, Frames(slot.segs), slot.eos)
  BY <1>1, CursorForm DEF SegmentRows
<1>4. SUFFICES /\ \A i \in 1 .. Len(slot'.segs) : slot'.segs[i].obj # <<>>
               /\ Len(slot'.segs) <= MaxSegments
               /\ ValidWith(slot'.segs, Frames(slot'.segs), slot'.eos)
  <2>1. DOMAIN slot'.segs = 1 .. Len(slot'.segs) /\ slot'.segs \in Seq(Segments)
    BY <1>1 DEF Rows, SlotRow
  <2>2. DOMAIN Frames(slot'.segs) = 1 .. Len(Frames(slot'.segs))
    BY <2>1, ObjectsType
  <2>3. CursorValid' <=> ValidWith(slot'.segs, Frames(slot'.segs), slot'.eos)
    BY <2>1, <2>2 DEF CursorValid, ValidWith, Last
  <2> QED
    BY <2>3 DEF SegmentRows
<1>5. CASE Keeps
  BY <1>3, <1>5 DEF Keeps, SegmentRows
<1>6. CASE Seals
  <2>1. /\ \A i \in 1 .. Len(slot'.segs) : slot'.segs[i].obj # <<>>
        /\ Len(slot'.segs) <= MaxSegments
    BY <1>1, <1>6, SealForms DEF SegmentRows
  <2>2. ValidWith(slot'.segs, Frames(slot'.segs), slot'.eos)
    BY <1>1, <1>3, <1>6, SealForms DEF ValidWith
  <2> QED
    BY <2>1, <2>2
<1>7. CASE Adopts
  <2>1. Candidate # <<>> /\ emit.at = "persisted" /\ ~slot.eos
    BY <1>1, <1>7, CandidateType DEF Adopts, Emission
  <2>2. /\ \A i \in 1 .. Len(slot'.segs) : slot'.segs[i].obj # <<>>
        /\ Len(slot'.segs) <= MaxSegments
    <3>1. /\ \A i \in 1 .. Len(slot.segs) : slot.segs[i].obj # <<>>
          /\ Len(slot.segs) <= MaxSegments
      BY <1>1 DEF SegmentRows
    <3>2. \A i \in 1 .. Len(slot'.segs) : \/ slot'.segs[i].obj = Candidate
                                          \/ i \in 1 .. Len(slot.segs) /\ slot'.segs[i] = slot.segs[i]
      BY <1>1, <1>7, AdoptForms
    <3>3. \/ Len(slot'.segs) = Len(slot.segs)
          \/ Len(slot'.segs) = Len(slot.segs) + 1 /\ Len(slot.segs) < MaxSegments
      BY <1>1, <1>7, AdoptForms
    <3>4. Len(slot.segs) \in Nat /\ MaxSegments \in Nat
      BY <1>1, <1>2, RunnerSlotAssumption DEF Rows, SlotRow
    <3>5. Len(slot'.segs) <= MaxSegments
      BY <3>1, <3>3, <3>4
    <3>6. \A i \in 1 .. Len(slot'.segs) : slot'.segs[i].obj # <<>>
      BY <2>1, <3>1, <3>2
    <3> QED
      BY <3>5, <3>6
  <2>3. \A i \in 1 .. Len(slot'.segs) : i < Len(slot'.segs) => slot'.segs[i].sealed
    <3>1. SUFFICES ASSUME NEW i \in 1 .. Len(slot'.segs), i < Len(slot'.segs) PROVE slot'.segs[i].sealed
      OBVIOUS
    <3>2. i \in 1 .. Len(slot.segs) /\ slot'.segs[i] = slot.segs[i]
      BY <1>1, <1>7, <3>1, AdoptForms
    <3>3. CASE i < Len(slot.segs)
      BY <1>3, <3>2, <3>3 DEF ValidWith
    <3>4. CASE i = Len(slot.segs)
      <4>1. emit.tail = <<>>
        BY <1>1, <1>7, <3>1, <3>4, AdoptForms
      <4>2. ~HasOpen /\ slot.segs # <<>>
        BY <1>2, <2>1, <3>2, <4>1 DEF Emission
      <4> QED
        BY <3>2, <3>4, <4>2 DEF HasOpen, Last
    <3> QED
      BY <1>2, <3>2, <3>3, <3>4
  <2>4. PICK f : f = Frames(slot.segs)
    OBVIOUS
  <2>5. f \in Seq(Records) /\ Frames(slot'.segs) = Append(f, emit.rec) /\ emit.rec \in Records /\ slot'.eos = (emit.rec = End)
    BY <1>1, <1>2, <1>7, <2>4, AdoptForms
  <2>6. \A i \in 1 .. Len(f) : f[i] # End
    <3>1. CASE slot.segs = <<>>
      <4>1. f = <<>>
        BY <2>4, <3>1, FramesEmpty
      <4> QED
        BY <4>1
    <3>2. CASE slot.segs # <<>>
      BY <1>3, <2>1, <2>4, <3>2 DEF ValidWith
    <3> QED
      BY <3>1, <3>2
  <2>7. /\ Len(Append(f, emit.rec)) = Len(f) + 1 /\ Append(f, emit.rec)[Len(f) + 1] = emit.rec
        /\ \A i \in 1 .. Len(f) : Append(f, emit.rec)[i] = f[i]
        /\ \A i \in 1 .. (Len(f) + 1) : i \in 1 .. Len(f) \/ i = Len(f) + 1
    BY <2>5
  <2>8. ValidWith(slot'.segs, Append(f, emit.rec), slot'.eos)
    BY <2>3, <2>5, <2>6, <2>7 DEF ValidWith
  <2> QED
    BY <2>2, <2>5, <2>8
<1>8. ASSUME NEW b, Drops(b)
      PROVE  /\ \A i \in 1 .. Len(slot'.segs) : slot'.segs[i].obj # <<>>
             /\ Len(slot'.segs) <= MaxSegments
             /\ ValidWith(slot'.segs, Frames(slot'.segs), slot'.eos)
  <2>1. PICK f, g, h : f = Frames(slot.segs) /\ g = Frames(slot'.segs) /\ h = Head(slot.segs).obj
    OBVIOUS
  <2>2. f \in Seq(Records) /\ g \in Seq(Records) /\ h \in Seq(Records) /\ f = h \o g
    BY <1>1, <1>2, <1>8, <2>1, DropForms, ObjectsType, SlotParts DEF Segments
  <2>3. /\ Len(f) = Len(h) + Len(g) /\ \A i \in 1 .. Len(g) : f[Len(h) + i] = g[i]
        /\ \A i \in 1 .. Len(g) : Len(h) + i \in 1 .. Len(f)
        /\ Len(h) \in Nat /\ Len(g) \in Nat
    BY <2>2
  <2>4. /\ \A i \in 1 .. Len(slot'.segs) : slot'.segs[i].obj # <<>>
        /\ Len(slot'.segs) <= MaxSegments
    <3>1. \A i \in 1 .. Len(slot.segs) : slot.segs[i].obj # <<>>
      BY DEF SegmentRows
    <3>2. \A i \in 1 .. Len(slot'.segs) : i + 1 \in 1 .. Len(slot.segs) /\ slot'.segs[i] = slot.segs[i + 1]
      BY <1>1, <1>8, DropForms
    <3>3. Len(slot'.segs) = Len(slot.segs) - 1 /\ Len(slot.segs) <= MaxSegments
      BY <1>1, <1>8, DropForms DEF SegmentRows
    <3> QED
      BY <1>2, <3>1, <3>2, <3>3, RunnerSlotAssumption
  <2>5. \A i \in 1 .. Len(slot'.segs) : i < Len(slot'.segs) => slot'.segs[i].sealed
    <3>1. SUFFICES ASSUME NEW i \in 1 .. Len(slot'.segs), i < Len(slot'.segs) PROVE slot'.segs[i].sealed
      OBVIOUS
    <3>2. /\ i + 1 \in 1 .. Len(slot.segs) /\ slot'.segs[i] = slot.segs[i + 1]
          /\ Len(slot'.segs) = Len(slot.segs) - 1
      BY <1>1, <1>8, <3>1, DropForms
    <3>3. i + 1 < Len(slot.segs)
      BY <1>2, <3>1, <3>2
    <3> QED
      BY <1>3, <3>2, <3>3 DEF ValidWith
  <2>6. \A i \in 1 .. Len(g) : g[i] = End => i = Len(g)
    <3>1. SUFFICES ASSUME NEW i \in 1 .. Len(g), g[i] = End PROVE i = Len(g)
      OBVIOUS
    <3>2. f[Len(h) + i] = End /\ Len(h) + i \in 1 .. Len(f)
      BY <2>3, <3>1
    <3>3. Len(h) + i = Len(f)
      BY <1>3, <2>1, <3>2 DEF ValidWith
    <3> QED
      BY <2>3, <3>3
  <2>7. slot'.segs # <<>> => (slot'.eos <=> g[Len(g)] = End)
    <3>1. SUFFICES ASSUME slot'.segs # <<>> PROVE slot'.eos <=> g[Len(g)] = End
      OBVIOUS
    <3>2. g # <<>>
      BY <1>1, <1>8, <2>1, <2>4, <3>1, DropForms, FramesNotEmpty
    <3>3. Len(g) \in 1 .. Len(g) /\ f[Len(f)] = g[Len(g)]
      BY <2>2, <2>3, <3>2
    <3> QED
      BY <1>1, <1>3, <1>8, <2>1, <3>3, DropForms DEF ValidWith
  <2> QED
    BY <2>1, <2>4, <2>5, <2>6, <2>7 DEF ValidWith
<1>9. CASE LetsGo
  <2>1. slot'.segs = <<>> /\ Frames(slot'.segs) = <<>> /\ Len(<<>>) = 0
    BY <1>1, <1>9, FramesEmpty DEF LetsGo, Rows, SlotRow
  <2> QED
    BY <2>1, RunnerSlotAssumption DEF ValidWith
<1> QED
  BY <1>1, <1>5, <1>6, <1>7, <1>8, <1>9, BacklogStep DEF BacklogChange

\* How a slot comes to drain its stream, to clean up and to deliver.
LEMMA StageStep ==
  ASSUME Rows, Next, proc'.stage \in {"drain", "cleanup", "deliver"}
  PROVE  \/ proc'.stage = proc.stage
         \/ CloseDone /\ proc'.stage = "drain"
         \/ FlushCaughtUp /\ proc.stage = "drain" /\ proc'.stage = "cleanup"
         \/ CleanupDone /\ proc.stage = "cleanup" /\ proc'.stage = "deliver"
<1> DEFINE Goal == \/ proc'.stage = proc.stage
                   \/ CloseDone /\ proc'.stage = "drain"
                   \/ FlushCaughtUp /\ proc.stage = "drain" /\ proc'.stage = "cleanup"
                   \/ CleanupDone /\ proc.stage = "cleanup" /\ proc'.stage = "deliver"
<1>1. CASE Resume
  BY <1>1, DispatchedTo
<1>2. CASE AuthorizeOrphan
  BY <1>2 DEF AuthorizeOrphan, Stage, Rows, ProcessRow
<1>3. CASE ResumeOrphan
  BY <1>3 DEF ResumeOrphan, Stage, Rows, ProcessRow
<1>4. CASE AbandonDelivery \/ CloseBegin \/ DestroyIntent \/ DestroySandbox \/ SandboxDestroyed \/
         PostResult \/ ResultAcknowledged \/ CreateIntent \/ CreateSandbox \/ SandboxCreated \/
         RecoverSandbox \/ BeginRunning \/ EmitLoad \/ EmitSeal \/ EmitPersist \/ EmitAdopt \/
         EmitDone \/ EmitWait \/ FlushLoad \/ FlushCall \/ FlushAck \/ FlushRemove \/ LateTask \/
         CommitResult \/ EmitRecord \/ CreateFails \/ FlushTimeout \/ LeaseRunsOut \/ CloseSession
  BY <1>4 DEF AbandonDelivery, CloseBegin, DestroyIntent, DestroySandbox, SandboxDestroyed,
       PostResult, ResultAcknowledged, CreateIntent, CreateSandbox, SandboxCreated, RecoverSandbox,
       BeginRunning, EmitLoad, EmitFails, EmitSeal, EmitPersist, EmitAdopt, EmitDone, EmitWait,
       FlushLoad, FlushCall, FlushAck, FlushRemove, LateTask, CommitResult, EmitRecord, CreateFails,
       FlushTimeout, LeaseRunsOut, CloseSession, Rows, ProcessRow
<1>5. CASE ReleaseOrphan
  BY <1>5 DEF ReleaseOrphan, Stage, ProcessEnds, Restarted, Rows, ProcessRow
<1>6. CASE PersistResult
  BY <1>6 DEF PersistResult, Stage, Rows, ProcessRow
<1>7. CASE RecordResult
  BY <1>7 DEF RecordResult, Stage, ProcessEnds, Restarted, Rows, ProcessRow
<1>8. CASE CloseDone
  BY <1>8 DEF CloseDone, Stage, Rows, ProcessRow
<1>9. CASE CleanupDone
  BY <1>9 DEF CleanupDone, Stage, Rows, ProcessRow
<1>10. CASE ReleaseSlot
  BY <1>10 DEF ReleaseSlot, Stage, Rows, ProcessRow
<1>11. CASE FinishExecution
  BY <1>11 DEF FinishExecution, ProcessEnds, AfterExecution, Restarted, Rows, ProcessRow
<1>12. CASE FlushCaughtUp
  BY <1>12 DEF FlushCaughtUp, Stage, Rows, ProcessRow
<1>13. CASE FlushEnds
  BY <1>13 DEF FlushEnds, Stage, Restarted, Rows, ProcessRow
<1>14. ASSUME NEW c \in Calls, LookupReceipt(c) PROVE Goal
  BY <1>14 DEF LookupReceipt
<1>15. ASSUME NEW c \in Calls, AdmitSegment(c) PROVE Goal
  BY <1>15 DEF AdmitSegment
<1>16. ASSUME NEW c \in Calls, CommitSegment(c) PROVE Goal
  BY <1>16 DEF CommitSegment
<1>17. CASE NoticeExpiry
  BY <1>17 DEF NoticeExpiry, Stop, Stage, Rows, ProcessRow
<1>18. CASE HeartbeatFails \/ SiblingEndsSession
  BY <1>18 DEF HeartbeatFails, SiblingEndsSession, Stop, Restarted, Rows, ProcessRow
<1>19. CASE DestroyFails
  BY <1>19, NotDestroyed DEF ProcessEnds, Restarted, Rows, ProcessRow
<1>20. CASE Cancel
  BY <1>20 DEF Cancel, Stop, Rows, ProcessRow
<1>21. CASE CancelRefused
  BY <1>21 DEF CancelRefused, ProcessEnds, Restarted, Rows, ProcessRow
<1>22. CASE HeartbeatRefused
  BY <1>22 DEF HeartbeatRefused, ProcessEnds, Restarted, Stop, Rows, ProcessRow
<1>23. CASE Crash
  BY <1>23 DEF Crash, ProcessEnds, Restarted, Rows, ProcessRow
<1> QED
  BY <1>1, <1>2, <1>3, <1>4, <1>5, <1>6, <1>7, <1>8, <1>9, <1>10, <1>11, <1>12, <1>13, <1>14, <1>15,
       <1>16, <1>17, <1>18, <1>19, <1>20, <1>21, <1>22, <1>23 DEF Next, SlotLoop, Executor, Emitter,
       Flusher, Server, Watch, Environment

\* What Emission says of the record and the stage is kept.
LEMMA EmissionStep ==
  ASSUME Conduct, Emission, SegmentRows, Next
  PROVE  Emission'
<1>1. Rows /\ Progress /\ Tasks
  BY DEF Conduct
<1>2. slot.segs \in Seq(Segments)
  BY <1>1, SlotParts
<1>3. slot'.eos = slot.eos \/ Adopts
  <2>1. CASE \E b : Drops(b)
    BY <1>1, <2>1, DropForms
  <2>2. CASE LetsGo
    BY <1>1, <2>2 DEF LetsGo, Rows, SlotRow
  <2> QED
    BY <1>1, <2>1, <2>2, BacklogStep, SealForms DEF BacklogChange, Keeps
<1>4. emit.at = "no" => emit'.at = "no" \/ CloseBegin \/ EmitRecord
  BY <1>1, EmitStep DEF Adopts, EmitPersist
<1>5. emit'.at \notin {"no", "adopted"} => ~slot'.eos
  <2>1. SUFFICES ASSUME emit'.at \notin {"no", "adopted"} PROVE ~slot'.eos
    OBVIOUS
  <2>2. CASE CloseBegin
    BY <2>2 DEF CloseBegin
  <2>3. CASE EmitRecord
    BY <1>1, <2>3 DEF EmitRecord, Executing, Progress
  <2>4. CASE ~CloseBegin /\ ~EmitRecord
    <3>1. ~Adopts /\ emit.at \notin {"no", "adopted"}
      BY <1>1, <2>1, <2>4, EmitStep DEF Adopts, EmitPersist, Rows, TaskRows, EmitRow
    <3> QED
      BY <1>3, <3>1 DEF Emission
  <2> QED
    BY <2>2, <2>3, <2>4
<1>6. HasOpen' => HasOpen \/ Adopts
  <2>1. SUFFICES ASSUME HasOpen', ~Adopts PROVE HasOpen
    OBVIOUS
  <2>2. slot'.segs # <<>> /\ ~slot'.segs[Len(slot'.segs)].sealed
    BY <2>1 DEF HasOpen, Last
  <2>3. CASE Keeps
    BY <2>2, <2>3 DEF Keeps, HasOpen, Last
  <2>4. CASE Seals
    <3>1. Len(slot'.segs) \in 1 .. Len(slot.segs) /\ Len(slot'.segs) = Len(slot.segs)
      BY <1>1, <1>2, <2>4, SealForms
    <3> QED
      BY <1>1, <2>2, <2>4, <3>1, SealForms
  <2>5. ASSUME NEW b, Drops(b) PROVE HasOpen
    <3>1. Len(slot'.segs) \in 1 .. Len(slot'.segs) /\ Len(slot'.segs) + 1 = Len(slot.segs)
      <4>1. slot'.segs \in Seq(Segments) /\ slot'.segs # <<>> /\ Len(slot'.segs) = Len(slot.segs) - 1
        BY <1>1, <2>2, <2>5, DropForms
      <4>2. Len(slot'.segs) \in 1 .. Len(slot'.segs) /\ Len(slot.segs) \in Nat
        BY <1>2, <4>1
      <4> QED
        BY <4>1, <4>2
    <3>2. slot'.segs[Len(slot'.segs)] = slot.segs[Len(slot.segs)] /\ slot.segs # <<>>
      BY <1>1, <2>5, <3>1, DropForms
    <3> QED
      BY <2>2, <3>2 DEF HasOpen, Last
  <2>6. CASE LetsGo
    BY <1>1, <2>2, <2>6 DEF LetsGo, Rows, SlotRow
  <2> QED
    BY <1>1, <2>1, <2>3, <2>4, <2>5, <2>6, BacklogStep DEF BacklogChange
<1>7. emit'.at \in {"loaded", "persisted"} /\ emit'.tail = <<>> => ~HasOpen'
  <2>1. SUFFICES ASSUME emit'.at \in {"loaded", "persisted"}, emit'.tail = <<>> PROVE ~HasOpen'
    OBVIOUS
  <2>2. ~Adopts /\ ~CloseBegin /\ ~EmitRecord
    BY <1>1, <2>1 DEF Adopts, CloseBegin, EmitRecord, NoEmit, Rows, TaskRows, EmitRow
  <2>3. \/ emit.at \in {"loaded", "persisted"} /\ emit.tail = <<>>
        \/ OpenTail = <<>>
    BY <1>1, <2>1, <2>2, EmitStep DEF EmitPersist
  <2>4. ~HasOpen
    <3>1. OpenTail = <<>> => ~HasOpen
      <4>1. slot.segs # <<>> => Last(slot.segs).obj # <<>>
        BY <1>1, SlotParts DEF SegmentRows
      <4> QED
        BY <4>1 DEF OpenTail, HasOpen
    <3> QED
      BY <2>3, <3>1 DEF Emission
  <2> QED
    BY <1>6, <2>2, <2>4
<1>8. proc'.stage \in {"drain", "cleanup", "deliver"} => emit'.at = "no" /\ slot'.eos
  <2>1. SUFFICES ASSUME proc'.stage \in {"drain", "cleanup", "deliver"} PROVE emit'.at = "no" /\ slot'.eos
    OBVIOUS
  <2>2. emit.at = "no" /\ slot.eos
    BY <1>1, <2>1, StageStep DEF CloseDone, Emission
  <2>3. ~CloseBegin /\ ~EmitRecord
    BY <1>1, <2>1, <2>2 DEF CloseBegin, EmitRecord, Executing
  <2> QED
    BY <1>3, <1>4, <2>2, <2>3 DEF Adopts
<1>9. proc'.stage \in {"cleanup", "deliver"} => slot'.segs = <<>>
  <2>1. SUFFICES ASSUME proc'.stage \in {"cleanup", "deliver"} PROVE slot'.segs = <<>>
    OBVIOUS
  <2>2. slot.segs = <<>> /\ emit.at = "no"
    BY <1>1, <2>1, StageStep DEF FlushCaughtUp, Emission
  <2> QED
    BY <1>1, <2>2, BacklogStep DEF BacklogChange, Keeps, Seals, Adopts, Drops, AcknowledgesHead,
       LetsGo, Rows, SlotRow
<1> QED
  BY <1>5, <1>7, <1>8, <1>9 DEF Emission

\* The journal can be read, and what it refers to is there.
Recoverable == Conduct /\ Gate /\ Content /\ Emission /\ SegmentRows

\* It holds in the beginning ...
LEMMA RecoverableInit ==
  ASSUME Init
  PROVE  Recoverable
<1>1. Conduct
  BY ConductInit
<1>2. Gate /\ Emission
  BY DEF Init, Gate, Emission, Restarted, NoEmit, NoFlush, NoLate, HasOpen
<1>3. slot.segs = <<>> /\ Len(<<>>) = 0 /\ slot.held /\ slot.result = "none" /\ emit.at = "no" /\ proc.stage = "hello"
  BY DEF Init, NoEmit, Restarted
<1>4. Content
  <2>1. Rows
    BY <1>1 DEF Conduct
  <2>2. References = {}
    BY <1>3, <2>1, ReferencesOf
  <2> QED
    BY <1>3, <2>2 DEF Content
<1>5. SegmentRows
  <2>1. Rows
    BY <1>1 DEF Conduct
  <2>2. ValidWith(slot.segs, Frames(slot.segs), slot.eos)
    BY <1>3, FramesEmpty DEF ValidWith
  <2> QED
    BY <1>3, <2>1, <2>2, CursorForm, RunnerSlotAssumption DEF SegmentRows
<1> QED
  BY <1>1, <1>2, <1>4, <1>5 DEF Recoverable

\* ... and every step keeps it.
LEMMA RecoverableStep ==
  ASSUME Recoverable, [Next]_vars
  PROVE  Recoverable'
<1>1. Conduct /\ Conduct' /\ Rows /\ Tasks
  BY ConductStep DEF Recoverable, Conduct
<1>2. CASE Next
  BY <1>1, <1>2, GateStep, ContentStep, EmissionStep, SegmentRowsStep DEF Recoverable
<1>3. CASE UNCHANGED vars
  <2>1. Gate' /\ Content' /\ Emission'
    BY <1>3 DEF vars, Recoverable, Gate, Content, Emission, Candidate, References, HasOpen
  <2>2. SegmentRows'
    BY <1>3 DEF vars, Recoverable, SegmentRows, CursorValid
  <2> QED
    BY <1>1, <2>1, <2>2 DEF Recoverable
<1> QED
  BY <1>2, <1>3

\* Whatever step the runner stops after, the journal decodes and every object
\* it refers to is in the spool (publish_log_segment_once, acknowledge_log_segment,
\* reconcile).
THEOREM SlotsRecoverable == Spec => []SlotRecoverable
<1>1. Init => Recoverable
  BY RecoverableInit
<1>2. Recoverable /\ [Next]_vars => Recoverable'
  BY RecoverableStep
<1>3. Recoverable => SlotRecoverable
  <2>1. SUFFICES ASSUME Recoverable PROVE SlotRecoverable
    OBVIOUS
  <2>2. Rows /\ CursorValid /\ References \subseteq spool /\ Len(slot.segs) <= MaxSegments
    BY <2>1 DEF Recoverable, Conduct, Content, SegmentRows
  <2>3. /\ slot.held \in BOOLEAN /\ slot.box \in BOOLEAN /\ slot.cancel \in BOOLEAN
        /\ slot.life \in {"Preparing", "Running", "Cancelling", "Finalizing"} \cup Terminal
        /\ slot.op \in {"none", "create", "destroy"}
        /\ slot.result \in {"none", "recorded", "acked"}
        /\ slot.abandoned \subseteq {"log", "result"}
    BY <2>2 DEF Rows, SlotRow, Lives
  <2>4. engine \in BOOLEAN /\ proc.stage \in Stages
    BY <2>2 DEF Rows, ProcessRow
  <2>5. /\ emit.at \in {"no", "loading", "loaded", "full", "persisted", "adopted", "waiting"}
        /\ flush.at \in {"no", "sent", "acking", "removing", "refused", "stale"}
        /\ flush.call \in Calls \cup {0}
    BY <2>2 DEF Rows, TaskRows, EmitRow, FlushRow
  <2>6. /\ \A c \in Calls : calls[c].at \in {"idle", "called", "fresh", "admitted"}
        /\ tally.told \subseteq 1 .. End /\ tally.faults \in 0 .. MaxFaults
    BY <2>2 DEF Rows, CallRows, Records
  <2> QED
    BY <2>2, <2>3, <2>4, <2>5, <2>6 DEF SlotRecoverable, SlotTypeOK, Stages
<1> QED
  BY <1>1, <1>2, <1>3, PTL DEF Spec

-----------------------------------------------------------------------------
(* The log.                                                                *)

\* A slot that was let go or given up stays so.
LEMMA FlagsStep ==
  ASSUME Rows, Next
  PROVE  (slot.orphan => slot'.orphan) /\ (slot'.held => slot.held)
<1>1. CASE Resume \/ AuthorizeOrphan \/ ResumeOrphan \/ AbandonDelivery \/ ReleaseOrphan \/
         PersistResult \/ RecordResult \/ CloseBegin \/ CloseDone \/ DestroyIntent \/
         DestroySandbox \/ SandboxDestroyed \/ CleanupDone \/ PostResult \/ ResultAcknowledged
  BY <1>1 DEF Resume, AuthorizeOrphan, ResumeOrphan, AbandonDelivery, ReleaseOrphan,
       PersistResult, RecordResult, CloseBegin, CloseDone, DestroyIntent, DestroySandbox,
       SandboxDestroyed, CleanupDone, PostResult, ResultAcknowledged, Rows, SlotRow
<1>1a. CASE ReleaseSlot \/ CreateIntent \/ CreateSandbox \/ SandboxCreated \/ RecoverSandbox \/
         BeginRunning \/ FinishExecution \/ EmitLoad \/ EmitSeal \/ EmitPersist \/ EmitAdopt \/
         EmitDone \/ EmitWait \/ EmitRecord \/ CreateFails
  BY <1>1a DEF ReleaseSlot, CreateIntent, CreateSandbox, SandboxCreated, RecoverSandbox,
       BeginRunning, FinishExecution, EmitLoad, EmitSeal, EmitPersist, EmitAdopt, EmitDone,
       EmitWait, EmitRecord, CreateFails, Rows, SlotRow
<1>1b. CASE FlushLoad \/ FlushCaughtUp \/ FlushCall \/ FlushRemove \/ FlushEnds \/ CommitResult
         \/ NoticeExpiry \/ HeartbeatFails \/ SiblingEndsSession \/ Cancel \/ CancelRefused \/
            FlushTimeout \/
         HeartbeatRefused \/ LeaseRunsOut \/ CloseSession \/ Crash
  BY <1>1b DEF FlushLoad, FlushCaughtUp, FlushCall, FlushRemove, FlushEnds, CommitResult,
       NoticeExpiry, HeartbeatFails, SiblingEndsSession, Cancel, CancelRefused, FlushTimeout,
       HeartbeatRefused,
       LeaseRunsOut, CloseSession, Crash, Rows, SlotRow
<1>2. CASE FlushAck
  BY <1>2 DEF FlushAck, Acknowledge, WithoutHead, Rows, SlotRow
<1>3. CASE LateTask
  BY <1>3, LateForms DEF WithoutHead, Rows, SlotRow
<1>4. ASSUME NEW c \in Calls, LookupReceipt(c) PROVE (slot.orphan => slot'.orphan) /\ (slot'.held => slot.held)
  BY <1>4 DEF LookupReceipt
<1>5. ASSUME NEW c \in Calls, AdmitSegment(c) PROVE (slot.orphan => slot'.orphan) /\ (slot'.held => slot.held)
  BY <1>5 DEF AdmitSegment
<1>6. ASSUME NEW c \in Calls, CommitSegment(c) PROVE (slot.orphan => slot'.orphan) /\ (slot'.held => slot.held)
  BY <1>6 DEF CommitSegment
<1>7. CASE DestroyFails
  BY <1>7, NotDestroyed DEF Rows, SlotRow
<1> QED
  BY <1>1, <1>1a, <1>1b, <1>2, <1>3, <1>4, <1>5, <1>6, <1>7 DEF Next, SlotLoop, Executor, Emitter, Flusher,
       Server, Watch, Environment

\* An execution stores its batch.
Stores(c) ==
  /\ calls[c].at = "admitted" /\ AttemptActive /\ ~HasReceipt(c) /\ PositionOpen(calls[c])
  /\ server' = [server EXCEPT !.stored = @ \o calls[c].obj, !.receipts = @ \cup {Span(calls[c])}]
  /\ Answered(c, "acking")
  /\ UNCHANGED <<slot, spool, engine, proc, emit, late, tally>>

\* Nothing else changes what is stored.
LEMMA StoredStep ==
  ASSUME Rows, Next
  PROVE  (server'.stored = server.stored /\ server'.receipts = server.receipts) \/ \E d \in Calls : Stores(d)
<1>1. CASE Resume \/ AuthorizeOrphan \/ ResumeOrphan \/ AbandonDelivery \/ ReleaseOrphan \/
         PersistResult \/ RecordResult \/ CloseBegin \/ CloseDone \/ DestroyIntent \/ DestroySandbox
         \/ SandboxDestroyed \/ CleanupDone \/ PostResult \/ ResultAcknowledged \/ ReleaseSlot \/
         CreateIntent \/ CreateSandbox \/ SandboxCreated \/ RecoverSandbox \/ BeginRunning \/
         FinishExecution \/ EmitLoad \/ EmitSeal \/ EmitPersist \/ EmitAdopt \/ EmitDone \/ EmitWait
         \/ FlushLoad \/ FlushCaughtUp \/ FlushCall \/ FlushAck \/ FlushRemove \/ FlushEnds \/
         LateTask \/ CommitResult \/ NoticeExpiry \/ HeartbeatFails \/ SiblingEndsSession \/
         EmitRecord \/ CreateFails \/
         DestroyFails \/ Cancel \/ CancelRefused \/ FlushTimeout \/ HeartbeatRefused \/ LeaseRunsOut
         \/ CloseSession \/ Crash
  BY <1>1 DEF Resume, AuthorizeOrphan, ResumeOrphan, AbandonDelivery, ReleaseOrphan, PersistResult,
       RecordResult, CloseBegin, CloseDone, DestroyIntent, DestroySandbox, SandboxDestroyed,
       CleanupDone, PostResult, ResultAcknowledged, ReleaseSlot, CreateIntent, CreateSandbox,
       SandboxCreated, RecoverSandbox, BeginRunning, FinishExecution, EmitLoad, EmitSeal,
       EmitPersist, EmitAdopt, EmitDone, EmitWait, FlushLoad, FlushCaughtUp, FlushCall, FlushAck,
       FlushRemove, FlushEnds, LateTask, CommitResult, NoticeExpiry, HeartbeatFails,
       SiblingEndsSession, EmitRecord,
       CreateFails, DestroyFails, Cancel, CancelRefused, FlushTimeout, HeartbeatRefused,
       LeaseRunsOut, CloseSession, Crash, Rows, ServerRow
<1>2. ASSUME NEW c \in Calls, LookupReceipt(c) PROVE (server'.stored = server.stored /\ server'.receipts = server.receipts) \/ \E d \in Calls : Stores(d)
  BY <1>2 DEF LookupReceipt
<1>3. ASSUME NEW c \in Calls, AdmitSegment(c) PROVE (server'.stored = server.stored /\ server'.receipts = server.receipts) \/ \E d \in Calls : Stores(d)
  BY <1>3 DEF AdmitSegment
<1>4. ASSUME NEW c \in Calls, CommitSegment(c) PROVE (server'.stored = server.stored /\ server'.receipts = server.receipts) \/ \E d \in Calls : Stores(d)
  BY <1>4 DEF CommitSegment, Stores
<1> QED
  BY <1>1, <1>2, <1>3, <1>4 DEF Next, SlotLoop, Executor, Emitter, Flusher, Server, Watch,
       Environment

\* A common beginning can be left out.
LEMMA ConcatCancel ==
  ASSUME NEW a \in Seq(Records), NEW b \in Seq(Records), NEW c \in Seq(Records), a \o b = a \o c
  PROVE  b = c
<1>1. Len(a \o b) = Len(a) + Len(b) /\ Len(a \o c) = Len(a) + Len(c)
  OBVIOUS
<1>2. Len(b) = Len(c)
  BY <1>1
<1>3. \A i \in 1 .. Len(b) : (a \o b)[Len(a) + i] = b[i]
  OBVIOUS
<1>4. \A i \in 1 .. Len(c) : (a \o c)[Len(a) + i] = c[i]
  OBVIOUS
<1>5. \A i \in 1 .. Len(b) : b[i] = c[i]
  BY <1>2, <1>3, <1>4
<1> QED
  BY <1>2, <1>5, SeqEqual

\* What is stored is the acknowledged log, and perhaps its head.
LEMMA LogParts ==
  ASSUME Rows, Stored, Kept
  PROVE  /\ server.stored \in Seq(Records) /\ slot.acked \in Nat /\ slot.segs \in Seq(Segments)
         /\ Unstored \in Seq(Segments) /\ Frames(Unstored) \in Seq(Records) /\ Log \in Seq(Records)
<1>1. server.stored \in Seq(Records) /\ slot.acked \in Nat /\ slot.segs \in Seq(Segments)
  BY SlotParts
<1>2. Unstored \in Seq(Segments)
  BY <1>1, SlotParts DEF Unstored, Stored, HeadStored
<1>3. Frames(Unstored) \in Seq(Records)
  BY <1>2, ObjectsType
<1> QED
  BY <1>1, <1>2, <1>3 DEF Log

\* The head segment is not empty, so that it tells the two apart.
LEMMA HeadLength ==
  ASSUME Rows, SegmentRows, slot.segs # <<>>
  PROVE  /\ Head(slot.segs).obj \in Seq(Records) /\ Len(Head(slot.segs).obj) \in Nat \ {0}
         /\ Head(slot.segs) = slot.segs[1] /\ 1 \in 1 .. Len(slot.segs)
<1>1. Head(slot.segs) = slot.segs[1] /\ Head(slot.segs) \in Segments /\ Len(slot.segs) \in 1 .. Len(slot.segs) /\ slot.segs \in Seq(Segments)
  BY SlotParts
<1>2. 1 \in 1 .. Len(slot.segs)
  BY <1>1
<1>3. Head(slot.segs).obj \in Seq(Records) /\ Head(slot.segs).obj # <<>>
  BY <1>1, <1>2 DEF SegmentRows, Segments
<1> QED
  BY <1>1, <1>2, <1>3

\* Sealing changes nothing of the log.
LEMMA LogSeal ==
  ASSUME Rows, SegmentRows, Stored, Kept, Seals
  PROVE  Log' = Log /\ Stored'
<1>1. server' = server /\ slot'.acked = slot.acked
  BY SealForms DEF Seals
<1>2. Head(slot'.segs).obj = Head(slot.segs).obj /\ (Head(slot.segs).sealed => Head(slot'.segs).sealed)
  <2>1. Head(slot'.segs) = slot'.segs[1] /\ Head(slot.segs) = slot.segs[1] /\ 1 \in 1 .. Len(slot.segs)
    BY SealForms
  <2> QED
    BY <2>1, SealForms
<1>3. Frames(Tail(slot'.segs)) = Frames(Tail(slot.segs))
  <2>1. Frames(slot.segs) = Head(slot.segs).obj \o Frames(Tail(slot.segs))
    BY SealForms, FramesHead
  <2>2. Frames(slot'.segs) = Head(slot'.segs).obj \o Frames(Tail(slot'.segs))
    BY SealForms, FramesHead
  <2>3. Tail(slot.segs) \in Seq(Segments) /\ Tail(slot'.segs) \in Seq(Segments)
    BY SealForms
  <2>4. Frames(Tail(slot.segs)) \in Seq(Records) /\ Frames(Tail(slot'.segs)) \in Seq(Records)
    BY <2>3, ObjectsType
  <2>5. Head(slot.segs).obj \in Seq(Records)
    BY HeadLength, SealForms
  <2>6. Head(slot.segs).obj \o Frames(Tail(slot.segs)) = Head(slot.segs).obj \o Frames(Tail(slot'.segs))
    BY <1>2, <2>1, <2>2, SealForms
  <2> QED
    BY <2>4, <2>5, <2>6, ConcatCancel
<1>4. Log' = Log
  BY <1>1, <1>3, SealForms DEF Log, Unstored
<1>5. Stored'
  BY <1>1, <1>2, SealForms DEF Stored, HeadStored, Kept
<1> QED
  BY <1>4, <1>5

\* An acknowledgement of what is stored changes nothing of the log.
LEMMA LogDrop ==
  ASSUME Rows, SegmentRows, Stored, Kept, NEW b, Drops(b), Through(b) <= Len(server.stored)
  PROVE  Log' = Log /\ Stored' /\ HeadStored /\ slot'.acked = Len(server.stored) /\ server' = server
<1>1. server' = server /\ slot.acked + 1 = b.first /\ slot.segs # <<>> /\ Head(slot.segs).obj = b.obj
  BY DropForms DEF Drops
<1>2. Len(b.obj) \in Nat \ {0} /\ slot.acked \in Nat /\ Len(server.stored) \in Nat
  BY <1>1, HeadLength, SlotParts
<1>3. Through(b) = slot.acked + Len(b.obj)
  <2>1. ASSUME NEW m \in Nat, NEW n \in Nat PROVE (m + 1) + n - 1 = m + n
    OBVIOUS
  <2> QED
    BY <1>1, <1>2, <2>1 DEF Through
<1>4. Len(server.stored) # slot.acked
  BY <1>2, <1>3
<1>5. HeadStored
  BY <1>4 DEF Stored
<1>6. Len(server.stored) = Through(b)
  BY <1>1, <1>3, <1>5 DEF HeadStored
<1>7. Log' = Log
  BY <1>1, <1>4, <1>6, DropForms DEF Log, Unstored
<1>8. Stored'
  BY <1>1, <1>6, DropForms DEF Stored
<1> QED
  BY <1>1, <1>5, <1>6, <1>7, <1>8, DropForms

\* What an emission hands over is the last record of the log.
LEMMA LogAdopt ==
  ASSUME Rows, SegmentRows, Stored, Adopts
  PROVE  /\ Kept /\ Log' = Append(Log, emit.rec) /\ Stored' /\ emit.rec \in Records
         /\ slot.segs # <<>> /\ Head(slot.segs).sealed => Head(slot'.segs) = Head(slot.segs)
<1>1. server' = server /\ slot'.acked = slot.acked /\ Kept /\ slot'.held = slot.held /\ slot'.orphan = slot.orphan
  BY AdoptForms DEF Adopts, Kept
<1>2. slot.segs # <<>> /\ Head(slot.segs).sealed => Head(slot'.segs) = Head(slot.segs)
  <2>1. SUFFICES ASSUME slot.segs # <<>>, Head(slot.segs).sealed PROVE Head(slot'.segs) = Head(slot.segs)
    OBVIOUS
  <2>2. /\ slot.segs \in Seq(Segments) /\ Head(slot.segs) = slot.segs[1] /\ 1 \in 1 .. Len(slot.segs)
        /\ Len(slot.segs) \in Nat
    BY <2>1, HeadLength, SlotParts
  <2>3. slot'.segs \in Seq(Segments) /\ slot'.segs # <<>>
    BY AdoptForms
  <2>4. Head(slot'.segs) = slot'.segs[1] /\ 1 \in 1 .. Len(slot'.segs) /\ Len(slot'.segs) \in Nat
    BY <2>3
  <2>5. 1 # Len(slot'.segs)
    <3>1. CASE emit.tail # <<>>
      <4>1. ~slot.segs[Len(slot.segs)].sealed /\ Len(slot'.segs) = Len(slot.segs)
        BY <3>1, AdoptForms DEF HasOpen, Last
      <4> QED
        BY <2>1, <2>2, <4>1
    <3>2. CASE emit.tail = <<>>
      BY <2>2, <3>2, AdoptForms
    <3> QED
      BY <3>1, <3>2
  <2> QED
    BY <2>2, <2>4, <2>5, AdoptForms
<1>3. emit.rec \in Records /\ Frames(slot'.segs) = Append(Frames(slot.segs), emit.rec)
  BY AdoptForms
<1>4. server.stored \in Seq(Records) /\ slot.segs \in Seq(Segments) /\ Frames(Unstored) \in Seq(Records)
  BY <1>1, LogParts
<1>5. ASSUME NEW a \in Seq(Records), NEW b \in Seq(Records), NEW r \in Records PROVE a \o Append(b, r) = Append(a \o b, r)
  OBVIOUS
<1>6. Frames(Unstored') = Append(Frames(Unstored), emit.rec)
  <2>1. CASE Len(server.stored) = slot.acked
    BY <1>1, <1>3, <2>1 DEF Unstored
  <2>2. CASE Len(server.stored) # slot.acked
    <3>1. slot.segs # <<>> /\ Head(slot.segs).sealed /\ Unstored = Tail(slot.segs) /\ Unstored' = Tail(slot'.segs)
      BY <1>1, <2>2 DEF Stored, HeadStored, Unstored
    <3>2. PICK h, t, u : h = Head(slot.segs).obj /\ t = Frames(Tail(slot.segs)) /\ u = Frames(Tail(slot'.segs))
      OBVIOUS
    <3>3. h \in Seq(Records) /\ t \in Seq(Records)
      BY <1>4, <3>1, <3>2, HeadLength
    <3>4. u \in Seq(Records)
      <4>1. Tail(slot'.segs) \in Seq(Segments)
        BY AdoptForms
      <4> QED
        BY <3>2, <4>1, ObjectsType
    <3>5. Frames(slot.segs) = h \o t
      BY <1>4, <3>1, <3>2, FramesHead
    <3>6. Frames(slot'.segs) = h \o u
      BY <1>2, <3>1, <3>2, AdoptForms, FramesHead
    <3>7. h \o u = h \o Append(t, emit.rec)
      BY <1>3, <1>5, <3>3, <3>5, <3>6
    <3>8. Append(t, emit.rec) \in Seq(Records)
      BY <1>3, <3>3
    <3>9. u = Append(t, emit.rec)
      BY <3>3, <3>4, <3>7, <3>8, ConcatCancel
    <3> QED
      BY <3>1, <3>2, <3>9
  <2> QED
    BY <2>1, <2>2
<1>7. Log' = Append(Log, emit.rec)
  <2>1. Log' = server.stored \o Append(Frames(Unstored), emit.rec)
    BY <1>1, <1>6 DEF Log
  <2> QED
    BY <1>3, <1>4, <1>5, <2>1 DEF Log
<1>8. Stored'
  BY <1>1, <1>2, AdoptForms DEF Stored, HeadStored, Kept
<1> QED
  BY <1>1, <1>2, <1>3, <1>7, <1>8

\* What an execution stores is the head, next to what is stored.
LEMMA LogStore ==
  ASSUME Rows, Progress, SegmentRows, Stored, Deliveries, NEW c \in Calls, Stores(c)
  PROVE  /\ Kept /\ Log' = Log /\ Stored' /\ slot' = slot
         /\ server'.stored = server.stored \o calls[c].obj
         /\ server'.receipts = server.receipts \cup {Span(calls[c])}
         /\ calls[c].first = slot.acked + 1 /\ slot.segs # <<>>
         /\ Head(slot.segs).sealed /\ Head(slot.segs).obj = calls[c].obj
         /\ Len(server.stored) = slot.acked
         /\ Len(server'.stored) = Through(calls[c]) /\ Len(server'.stored) > slot.acked
<1>1. /\ slot' = slot /\ server'.stored = server.stored \o calls[c].obj
      /\ server'.receipts = server.receipts \cup {Span(calls[c])}
  BY DEF Stores, Rows, ServerRow
<1>2. Kept
  BY DEF Stores, AttemptActive, Progress, Kept
<1>3. Batch(calls[c]) /\ Span(calls[c]) \notin server.receipts /\ calls[c].first = Len(server.stored) + 1
  BY <1>2 DEF Stores, Deliveries, HasReceipt, PositionOpen
<1>4. /\ calls[c].first = slot.acked + 1 /\ slot.segs # <<>>
      /\ Head(slot.segs).sealed /\ Head(slot.segs).obj = calls[c].obj
  BY <1>3 DEF Batch
<1>5. server.stored \in Seq(Records) /\ slot.acked \in Nat /\ slot.segs \in Seq(Segments)
  BY <1>2, LogParts
<1>6. PICK h, t, m : h = calls[c].obj /\ t = Frames(Tail(slot.segs)) /\ m = slot.acked
  OBVIOUS
<1>7. h \in Seq(Records) /\ Len(h) \in Nat \ {0} /\ m \in Nat
  BY <1>4, <1>5, <1>6, HeadLength
<1>8. t \in Seq(Records)
  <2>1. Tail(slot.segs) \in Seq(Segments)
    BY <1>4, <1>5
  <2> QED
    BY <1>6, <2>1, ObjectsType
<1>9. Len(server.stored) = m
  <2>1. Len(server.stored) \in Nat /\ m + 1 = Len(server.stored) + 1
    BY <1>3, <1>4, <1>5, <1>6
  <2> QED
    BY <1>7, <2>1
<1>10. /\ Len(server'.stored) = m + Len(h)
       /\ \A i \in 1 .. Len(h) : server'.stored[m + i] = h[i]
  <2>1. ASSUME NEW a \in Seq(Records), NEW b \in Seq(Records)
        PROVE  Len(a \o b) = Len(a) + Len(b) /\ \A i \in 1 .. Len(b) : (a \o b)[Len(a) + i] = b[i]
    OBVIOUS
  <2>2. /\ Len(server.stored \o h) = Len(server.stored) + Len(h)
        /\ \A i \in 1 .. Len(h) : (server.stored \o h)[Len(server.stored) + i] = h[i]
    BY <1>5, <1>7, <2>1
  <2>3. server'.stored = server.stored \o h
    BY <1>1, <1>6
  <2> QED
    BY <1>9, <2>2, <2>3
<1>11. Through(calls[c]) = m + Len(h)
  <2>1. ASSUME NEW k \in Nat, NEW n \in Nat PROVE (k + 1) + n - 1 = k + n
    OBVIOUS
  <2>2. Through(calls[c]) = (m + 1) + Len(h) - 1
    BY <1>4, <1>6 DEF Through
  <2> QED
    BY <1>7, <2>1, <2>2
<1>12. Len(server'.stored) # m /\ Len(server'.stored) > m
  BY <1>7, <1>10
<1>13. Log' = Log
  <2>1. Frames(slot.segs) = h \o t
    BY <1>4, <1>5, <1>6, FramesHead
  <2>2. Log = server.stored \o (h \o t)
    BY <1>6, <1>9, <2>1 DEF Log, Unstored
  <2>3. Log' = (server.stored \o h) \o t
    BY <1>1, <1>6, <1>12 DEF Log, Unstored
  <2>4. ASSUME NEW a \in Seq(Records), NEW b \in Seq(Records), NEW d \in Seq(Records) PROVE (a \o b) \o d = a \o (b \o d)
    OBVIOUS
  <2> QED
    BY <1>5, <1>7, <1>8, <2>2, <2>3, <2>4
<1>14. Stored'
  <2>1. <<slot.acked + 1, Len(server'.stored)>> \in server'.receipts
    BY <1>1, <1>4, <1>6, <1>10, <1>11 DEF Span
  <2>2. \A i \in 1 .. Len(Head(slot'.segs).obj) :
            server'.stored[slot'.acked + i] = Head(slot'.segs).obj[i]
    BY <1>1, <1>4, <1>6, <1>10
  <2>3. slot'.segs # <<>> /\ Head(slot'.segs).sealed
    BY <1>1, <1>4
  <2>4. Len(server'.stored) = slot'.acked + Len(Head(slot'.segs).obj)
    BY <1>1, <1>4, <1>6, <1>10
  <2>5. <<slot'.acked + 1, Len(server'.stored)>> \in server'.receipts
    BY <1>1, <2>1
  <2>6. HeadStored'
    BY <2>2, <2>3, <2>4, <2>5 DEF HeadStored
  <2> QED
    BY <2>6 DEF Stored
<1> QED
  BY <1>1, <1>2, <1>4, <1>6, <1>9, <1>10, <1>11, <1>12, <1>13, <1>14

\* A log that is not given up was not before.
LEMMA KeptStep ==
  ASSUME Rows, Next, Kept'
  PROVE  Kept
BY FlagsStep DEF Kept, Rows, SlotRow

\* What a step does to a log that is not given up: the record of an emission is
\* added, or nothing.
LEMMA LogStep ==
  ASSUME Recoverable, Stored, Deliveries, Next, Kept'
  PROVE  /\ Log' = Log \/ (Adopts /\ Log' = Append(Log, emit.rec))
         /\ Stored'
<1>1. Rows /\ Progress /\ SegmentRows /\ Emission
  BY DEF Recoverable, Conduct
<1>2. Kept
  BY <1>1, KeptStep
<1>3. ASSUME NEW c \in Calls, Stores(c) PROVE Log' = Log /\ Stored'
  BY <1>1, <1>3, LogStore
<1>4. ASSUME server'.stored = server.stored, server'.receipts = server.receipts
      PROVE  (Log' = Log \/ (Adopts /\ Log' = Append(Log, emit.rec))) /\ Stored'
  <2>1. CASE Keeps
    <3>1. slot'.segs = slot.segs /\ slot'.acked = slot.acked
      BY <2>1 DEF Keeps
    <3>2. Log' = Log
      BY <1>4, <3>1 DEF Log, Unstored
    <3>3. Stored'
      BY <1>2, <1>4, <3>1 DEF Stored, HeadStored
    <3> QED
      BY <3>2, <3>3
  <2>2. CASE Seals
    BY <1>1, <1>2, <2>2, LogSeal
  <2>3. CASE Adopts
    BY <1>1, <2>3, LogAdopt
  <2>4. CASE flush.at = "acking" /\ Drops(flush)
    <3>1. Through(flush) <= Len(server.stored)
      BY <2>4 DEF Deliveries
    <3> QED
      BY <1>1, <1>2, <2>4, <3>1, LogDrop
  <2>5. CASE late.at = "acking" /\ Drops(late)
    <3>1. Through(late) <= Len(server.stored)
      BY <2>5 DEF Deliveries
    <3> QED
      BY <1>1, <1>2, <2>5, <3>1, LogDrop
  <2>6. CASE LetsGo
    <3>1. slot'.segs = <<>> /\ slot'.acked = slot.acked /\ ~slot'.held /\ slot'.orphan = slot.orphan
      BY <1>1, <2>6 DEF LetsGo, Rows, SlotRow
    <3>2. proc.stage = "deliver"
      BY <1>1, <2>6, <3>1 DEF LetsGo, Kept, Progress
    <3>3. slot.segs = <<>>
      BY <1>1, <3>2 DEF Emission
    <3>4. Len(server.stored) = slot.acked
      BY <1>2, <3>3 DEF Stored, HeadStored
    <3>5. Log' = Log
      BY <1>4, <3>1, <3>3, <3>4 DEF Log, Unstored
    <3>6. Stored'
      BY <1>4, <3>1, <3>4 DEF Stored
    <3> QED
      BY <3>5, <3>6
  <2> QED
    BY <1>1, <2>1, <2>2, <2>3, <2>4, <2>5, <2>6, BacklogStep DEF BacklogChange
<1> QED
  BY <1>1, <1>3, <1>4, StoredStep

\* The records begun only grow, and one is reported durable by its emission.
LEMMA TallyStep ==
  ASSUME Rows, Next
  PROVE  tally'.made >= tally.made /\ (tally'.told = tally.told \/ (emit.at = "adopted" /\ tally'.told = tally.told \cup {emit.rec}))
<1>1. CASE Resume \/ AuthorizeOrphan \/ ResumeOrphan \/ AbandonDelivery \/ ReleaseOrphan \/
         PersistResult \/ RecordResult \/ CloseBegin \/ CloseDone \/ DestroyIntent \/ DestroySandbox
         \/ SandboxDestroyed \/ CleanupDone \/ PostResult \/ ResultAcknowledged \/ ReleaseSlot \/
         CreateIntent \/ CreateSandbox \/ SandboxCreated \/ RecoverSandbox \/ BeginRunning \/
         FinishExecution \/ EmitLoad \/ EmitSeal \/ EmitPersist \/ EmitAdopt \/ EmitWait \/
         FlushLoad \/ FlushCaughtUp \/ FlushCall \/ FlushAck \/ FlushRemove \/ FlushEnds \/ LateTask
         \/ CommitResult \/ NoticeExpiry \/ HeartbeatFails \/ SiblingEndsSession \/ Cancel \/
            LeaseRunsOut \/ CloseSession
  <2>1. UNCHANGED tally
    BY <1>1 DEF Resume, AuthorizeOrphan, ResumeOrphan, AbandonDelivery, ReleaseOrphan,
       PersistResult,
         RecordResult, CloseBegin, CloseDone, DestroyIntent, DestroySandbox, SandboxDestroyed,
         CleanupDone, PostResult, ResultAcknowledged, ReleaseSlot, CreateIntent, CreateSandbox,
         SandboxCreated, RecoverSandbox, BeginRunning, FinishExecution, EmitLoad, EmitSeal,
         EmitPersist, EmitAdopt, EmitWait, FlushLoad, FlushCaughtUp, FlushCall, FlushAck,
         FlushRemove, FlushEnds, LateTask, CommitResult, NoticeExpiry, HeartbeatFails,
         SiblingEndsSession, Cancel,
         LeaseRunsOut, CloseSession
  <2> QED
    BY <2>1, RunnerSlotAssumption DEF Rows, CallRows
<1>2. CASE EmitDone
  BY <1>2, RunnerSlotAssumption DEF EmitDone, Rows, CallRows
<1>3. ASSUME NEW c \in Calls, LookupReceipt(c) PROVE tally'.made >= tally.made /\ (tally'.told = tally.told \/ (emit.at = "adopted" /\ tally'.told = tally.told \cup {emit.rec}))
  BY <1>3, RunnerSlotAssumption DEF LookupReceipt, Rows, CallRows
<1>4. ASSUME NEW c \in Calls, AdmitSegment(c) PROVE tally'.made >= tally.made /\ (tally'.told = tally.told \/ (emit.at = "adopted" /\ tally'.told = tally.told \cup {emit.rec}))
  BY <1>4, RunnerSlotAssumption DEF AdmitSegment, Rows, CallRows
<1>5. ASSUME NEW c \in Calls, CommitSegment(c) PROVE tally'.made >= tally.made /\ (tally'.told = tally.told \/ (emit.at = "adopted" /\ tally'.told = tally.told \cup {emit.rec}))
  BY <1>5, RunnerSlotAssumption DEF CommitSegment, Rows, CallRows
<1>6. CASE EmitRecord
  BY <1>6, RunnerSlotAssumption DEF EmitRecord, Rows, CallRows
<1>7. CASE CreateFails \/ DestroyFails \/ CancelRefused \/ FlushTimeout \/ HeartbeatRefused \/ Crash
  <2>1. tally' = [tally EXCEPT !.faults = @ + 1]
    BY <1>7 DEF Faulty, CreateFails, DestroyFails, CancelRefused, FlushTimeout, HeartbeatRefused,
       Crash
  <2>2. tally'.made = tally.made /\ tally'.told = tally.told /\ tally.made \in 0 .. MaxRecords
    BY <2>1 DEF Rows, CallRows
  <2> QED
    BY <2>2, RunnerSlotAssumption
<1> QED
  BY <1>1, <1>2, <1>3, <1>4, <1>5, <1>6, <1>7 DEF Next, SlotLoop, Executor, Emitter, Flusher,
       Server, Watch, Environment

\* The log and what was emitted stay in step.
LEMMA LogRowsStep ==
  ASSUME Recoverable, Stored, Deliveries, LogRows, Next
  PROVE  LogRows'
<1>1. Rows /\ Progress /\ Tasks /\ SegmentRows /\ Emission
  BY DEF Recoverable, Conduct
<1>2. SUFFICES ASSUME Kept'
      PROVE  /\ Increasing(Log')
             /\ tally'.told \subseteq Range(Log')
             /\ emit'.at = "adopted" => emit'.rec \in Range(Log')
             /\ slot'.eos <=> End \in Range(Log')
             /\ \A r \in Range(Log') : r # End => r <= tally'.made
             /\ emit'.at \notin {"no", "adopted"} => \A r \in Range(Log') : r < emit'.rec
  BY DEF LogRows, Increasing
<1>3. Kept
  BY <1>1, <1>2, KeptStep
<1>4. /\ Increasing(Log)
      /\ tally.told \subseteq Range(Log)
      /\ emit.at = "adopted" => emit.rec \in Range(Log)
      /\ slot.eos <=> End \in Range(Log)
      /\ \A r \in Range(Log) : r # End => r <= tally.made
      /\ emit.at \notin {"no", "adopted"} => \A r \in Range(Log) : r < emit.rec
  BY <1>3 DEF LogRows
<1>5. Log \in Seq(Records) /\ Range(Log) \subseteq Records
  <2>1. Log \in Seq(Records)
    BY <1>1, <1>3, LogParts
  <2> QED
    BY <2>1 DEF Range
<1>6. \A r \in Records : r \in Nat /\ (r # End => r <= MaxRecords /\ r < End)
  BY RunnerSlotAssumption DEF Records, End
<1>7. tally.made \in Nat /\ tally'.made \in Nat /\ tally'.made >= tally.made
  <2>1. Rows'
    BY <1>1, RowsStep
  <2>2. tally.made \in 0 .. MaxRecords /\ tally'.made \in 0 .. MaxRecords
    BY <1>1, <2>1 DEF Rows, CallRows
  <2> QED
    BY <1>1, <2>2, TallyStep, RunnerSlotAssumption
<1>8. CASE Adopts
  <2>1. PICK l, r : l = Log /\ r = emit.rec
    OBVIOUS
  <2>2. l \in Seq(Records) /\ r \in Records /\ Log' = Append(l, r)
    BY <1>1, <1>5, <1>8, <2>1, LogAdopt DEF Recoverable
  <2>3. emit.at = "persisted" /\ emit'.at = "adopted" /\ emit'.rec = r /\ tally' = tally
    BY <1>1, <1>8, <2>1 DEF Adopts, Rows, TaskRows, EmitRow
  <2>4. ~slot.eos /\ End \notin Range(l) /\ \A q \in Range(l) : q < r
    BY <1>1, <1>4, <2>1, <2>3 DEF Emission
  <2>5. r = End \/ r = tally.made
    BY <1>1, <2>1, <2>3 DEF Tasks
  <2>6. /\ Len(Append(l, r)) = Len(l) + 1 /\ Append(l, r)[Len(l) + 1] = r /\ Len(l) \in Nat
        /\ \A i \in 1 .. Len(l) : Append(l, r)[i] = l[i]
        /\ DOMAIN Append(l, r) = 1 .. (Len(l) + 1) /\ DOMAIN l = 1 .. Len(l)
        /\ \A i \in 1 .. (Len(l) + 1) : i \in 1 .. Len(l) \/ i = Len(l) + 1
        /\ Len(l) + 1 \in 1 .. (Len(l) + 1) /\ \A i \in 1 .. Len(l) : i \in 1 .. (Len(l) + 1)
    BY <2>2
  <2>7. Range(Append(l, r)) = Range(l) \cup {r}
    <3>1. \A q \in Range(Append(l, r)) : q \in Range(l) \cup {r}
      <4>1. SUFFICES ASSUME NEW q \in Range(Append(l, r)) PROVE q \in Range(l) \cup {r}
        OBVIOUS
      <4>2. PICK i \in 1 .. (Len(l) + 1) : q = Append(l, r)[i]
        BY <2>6, <4>1 DEF Range
      <4>3. CASE i \in 1 .. Len(l)
        BY <2>6, <4>2, <4>3 DEF Range
      <4>4. CASE i = Len(l) + 1
        BY <2>6, <4>2, <4>4
      <4> QED
        BY <2>6, <4>3, <4>4
    <3>2. \A q \in Range(l) : q \in Range(Append(l, r))
      BY <2>6 DEF Range
    <3>3. r \in Range(Append(l, r))
      BY <2>6 DEF Range
    <3> QED
      BY <3>1, <3>2, <3>3
  <2>8. Increasing(Append(l, r))
    <3>1. SUFFICES ASSUME NEW i \in DOMAIN Append(l, r), NEW j \in DOMAIN Append(l, r), i < j
                   PROVE  Append(l, r)[i] < Append(l, r)[j]
      BY DEF Increasing
    <3>2. i \in 1 .. Len(l) /\ Append(l, r)[i] = l[i]
      BY <2>6, <3>1
    <3>3. CASE j \in 1 .. Len(l)
      <4>1. l[i] < l[j]
        BY <1>4, <2>1, <2>6, <3>1, <3>2, <3>3 DEF Increasing
      <4> QED
        BY <2>6, <3>2, <3>3, <4>1
    <3>4. CASE j = Len(l) + 1
      <4>1. l[i] \in Range(l)
        BY <2>6, <3>2 DEF Range
      <4> QED
        BY <2>4, <2>6, <3>2, <3>4, <4>1
    <3> QED
      BY <2>6, <3>1, <3>3, <3>4
  <2>9. slot'.eos = (r = End)
    BY <1>1, <1>8, <2>1, AdoptForms
  <2>10. slot'.eos <=> End \in Range(Append(l, r))
    BY <2>4, <2>7, <2>9
  <2>11. tally'.told \subseteq Range(Append(l, r))
    BY <1>4, <2>1, <2>3, <2>7
  <2>12. \A q \in Range(Append(l, r)) : q # End => q <= tally'.made
    BY <1>4, <1>7, <2>1, <2>3, <2>5, <2>7
  <2> QED
    BY <2>2, <2>3, <2>7, <2>8, <2>10, <2>11, <2>12
<1>9. CASE ~Adopts
  <2>1. Log' = Log
    BY <1>2, <1>9, LogStep
  <2>2. slot'.eos = slot.eos
    <3>1. CASE Keeps
      BY <3>1 DEF Keeps
    <3>2. CASE Seals
      BY <1>1, <3>2, SealForms
    <3>3. ASSUME NEW b, Drops(b) PROVE slot'.eos = slot.eos
      BY <1>1, <3>3, DropForms
    <3>4. CASE LetsGo
      BY <1>1, <3>4 DEF LetsGo, Rows, SlotRow
    <3> QED
      BY <1>1, <1>9, <3>1, <3>2, <3>3, <3>4, BacklogStep DEF BacklogChange
  <2>3. tally'.told \subseteq Range(Log)
    BY <1>1, <1>4, TallyStep
  <2>4. emit'.at = "adopted" => emit'.rec \in Range(Log)
    <3>1. emit'.at = "adopted" => emit.at = "adopted" /\ emit'.rec = emit.rec
      <4>1. CloseBegin \/ EmitRecord => emit'.at = "loading"
        BY TurnFields DEF CloseBegin, EmitRecord, NoEmit
      <4> QED
        BY <1>1, <1>9, <4>1, EmitStep
    <3> QED
      BY <1>4, <3>1
  <2>5. \A r \in Range(Log) : r # End => r <= tally'.made
    BY <1>4, <1>5, <1>6, <1>7
  <2>6. ASSUME emit'.at \notin {"no", "adopted"}, NEW r \in Range(Log) PROVE r < emit'.rec
    <3>1. CASE CloseBegin
      <4>1. emit'.rec = End /\ ~slot.eos
        BY <3>1 DEF CloseBegin, NoEmit
      <4> QED
        BY <1>4, <1>5, <1>6, <2>6, <4>1
    <3>2. CASE EmitRecord
      <4>1. emit'.rec = tally.made + 1 /\ proc.stage = "run"
        BY <3>2 DEF EmitRecord, NoEmit, Executing
      <4>2. ~slot.eos
        BY <1>1, <4>1 DEF Progress
      <4>3. r # End
        BY <1>4, <2>6, <4>2
      <4>4. r <= tally.made /\ r \in Nat
        BY <1>4, <1>5, <1>6, <2>6, <4>3
      <4> QED
        BY <1>7, <4>1, <4>4
    <3>3. CASE ~CloseBegin /\ ~EmitRecord
      <4>1. emit.at \notin {"no", "adopted"} /\ emit'.rec = emit.rec
        BY <1>1, <1>9, <2>6, <3>3, EmitStep DEF EmitPersist
      <4> QED
        BY <1>4, <2>6, <4>1
    <3> QED
      BY <3>1, <3>2, <3>3
  <2> QED
    BY <1>4, <2>1, <2>2, <2>3, <2>4, <2>5, <2>6
<1> QED
  BY <1>8, <1>9

-----------------------------------------------------------------------------
(* Deliveries.                                                             *)

\* The delivery hears of its execution d: the batch has a receipt, or it is
\* refused.
Answers(d) ==
  /\ calls[d].at # "idle" /\ flush.call = d /\ flush'.obj = flush.obj /\ flush'.first = flush.first
  /\ \/ flush'.at = "acking" /\ Span(calls[d]) \in server'.receipts
     \/ /\ flush'.at = "refused" /\ server' = server
        /\ Span(calls[d]) \in server.receipts \/ ~AttemptActive \/ ~PositionOpen(calls[d])

\* What a step does to a delivery: it ends, goes on, begins or is answered.
Delivers ==
  \/ flush'.at \in {"no", "removing", "stale"}
  \/ flush'.at = flush.at /\ flush'.obj = flush.obj /\ flush'.first = flush.first
  \/ FlushLoad
  \/ \E d \in Calls : Answers(d)

\* A delivery whose answer no longer matters goes on as it was or turns stale.
LEMMA AnsweredStale ==
  ASSUME Rows, Tasks, NEW c \in Calls, Answered(c, "stale")
  PROVE  Delivers
<1>1. CASE flush' = flush
  BY <1>1 DEF Delivers
<1>2. CASE flush' = [flush EXCEPT !.at = "stale", !.call = 0]
  <2>1. flush'.at = "stale"
    BY <1>2 DEF Rows, TaskRows, FlushRow
  <2> QED
    BY <2>1 DEF Delivers
<1> QED
  BY <1>1, <1>2, AnsweredForms

\* Every step is one of these.
LEMMA DeliveryStep ==
  ASSUME Rows, Tasks, Next
  PROVE  Delivers
<1>1. CASE Resume \/ AuthorizeOrphan \/ ResumeOrphan \/ AbandonDelivery \/ PersistResult \/
         CloseBegin \/ CloseDone \/ DestroyIntent \/ DestroySandbox \/ SandboxDestroyed \/
         CleanupDone \/ PostResult \/ ResultAcknowledged \/ ReleaseSlot \/ CreateIntent \/
         CreateSandbox \/ SandboxCreated \/ RecoverSandbox \/ BeginRunning \/ EmitLoad \/ EmitSeal
         \/ EmitPersist \/ EmitAdopt \/ EmitDone \/ EmitWait \/ FlushCaughtUp \/ CommitResult \/
         EmitRecord \/ CreateFails \/ LeaseRunsOut \/ CloseSession
  BY <1>1 DEF Resume, AuthorizeOrphan, ResumeOrphan, AbandonDelivery, PersistResult, CloseBegin,
       CloseDone, DestroyIntent, DestroySandbox, SandboxDestroyed, CleanupDone, PostResult,
       ResultAcknowledged, ReleaseSlot, CreateIntent, CreateSandbox, SandboxCreated, RecoverSandbox,
       BeginRunning, EmitLoad, EmitSeal, EmitPersist, EmitAdopt, EmitDone, EmitWait, FlushCaughtUp,
       CommitResult, EmitRecord, CreateFails, LeaseRunsOut, CloseSession, Delivers
<1>2. CASE ReleaseOrphan \/ RecordResult \/ FinishExecution \/ FlushRemove \/ FlushEnds \/
         NoticeExpiry \/ HeartbeatFails \/ SiblingEndsSession \/ Cancel \/ CancelRefused \/
         HeartbeatRefused \/ Crash
  <2>1. flush' = flush \/ flush' = NoFlush
    BY <1>2 DEF ProcessEnds, Stop, DropDelivery, ReleaseOrphan, RecordResult, FinishExecution,
         FlushRemove, FlushEnds, NoticeExpiry, HeartbeatFails, SiblingEndsSession, Cancel,
         CancelRefused,
         HeartbeatRefused, Crash
  <2> QED
    BY <2>1 DEF NoFlush, Delivers
<1>3. CASE FlushLoad
  BY <1>3 DEF Delivers
<1>4. CASE FlushCall
  BY <1>4 DEF FlushCall, Delivers, Rows, TaskRows, FlushRow
<1>5. CASE FlushAck
  BY <1>5 DEF FlushAck, Delivers, Rows, TaskRows, FlushRow
<1>6. CASE LateTask
  BY <1>6, LateForms DEF Delivers
<1>7. ASSUME NEW c \in Calls, LookupReceipt(c) PROVE Delivers
  <2>1. CASE Answered(c, "stale")
    BY <2>1, AnsweredStale
  <2>2. CASE HasReceipt(c) /\ Answered(c, "acking") /\ server' = server /\ calls[c].at # "idle"
    <3>1. CASE flush' = flush
      BY <3>1 DEF Delivers
    <3>2. CASE flush.call = c /\ flush' = [flush EXCEPT !.at = "acking", !.call = 0]
      <4>1. flush'.at = "acking" /\ flush'.obj = flush.obj /\ flush'.first = flush.first
        BY <3>2 DEF Rows, TaskRows, FlushRow
      <4> QED
        BY <2>2, <3>2, <4>1 DEF HasReceipt, Answers, Delivers
    <3> QED
      BY <2>2, <3>1, <3>2, AnsweredForms
  <2>3. CASE flush' = flush
    BY <2>3 DEF Delivers
  <2> QED
    BY <1>7, <2>1, <2>2, <2>3 DEF LookupReceipt
<1>8. ASSUME NEW c \in Calls, AdmitSegment(c) PROVE Delivers
  <2>1. CASE Answered(c, "stale")
    BY <2>1, AnsweredStale
  <2>2. CASE ~(AttemptActive /\ PositionOpen(calls[c])) /\ Answered(c, "refused") /\ server' = server /\ calls[c].at # "idle"
    <3>1. CASE flush' = flush
      BY <3>1 DEF Delivers
    <3>2. CASE flush.call = c /\ flush' = [flush EXCEPT !.at = "refused", !.call = 0]
      <4>1. flush'.at = "refused" /\ flush'.obj = flush.obj /\ flush'.first = flush.first
        BY <3>2 DEF Rows, TaskRows, FlushRow
      <4> QED
        BY <2>2, <3>2, <4>1 DEF Answers, Delivers
    <3> QED
      BY <2>2, <3>1, <3>2, AnsweredForms
  <2>3. CASE flush' = flush
    BY <2>3 DEF Delivers
  <2> QED
    BY <1>8, <2>1, <2>2, <2>3 DEF AdmitSegment
<1>9. ASSUME NEW c \in Calls, CommitSegment(c) PROVE Delivers
  <2>1. CASE Answered(c, "stale")
    BY <2>1, AnsweredStale
  <2>2. CASE Answered(c, "acking") /\ Span(calls[c]) \in server'.receipts /\ calls[c].at # "idle"
    <3>1. CASE flush' = flush
      BY <3>1 DEF Delivers
    <3>2. CASE flush.call = c /\ flush' = [flush EXCEPT !.at = "acking", !.call = 0]
      <4>1. flush'.at = "acking" /\ flush'.obj = flush.obj /\ flush'.first = flush.first
        BY <3>2 DEF Rows, TaskRows, FlushRow
      <4> QED
        BY <2>2, <3>2, <4>1 DEF Answers, Delivers
    <3> QED
      BY <2>2, <3>1, <3>2, AnsweredForms
  <2>3. CASE /\ Answered(c, "refused") /\ server' = server /\ calls[c].at # "idle"
             /\ HasReceipt(c) \/ ~(AttemptActive /\ PositionOpen(calls[c]))
    <3>1. CASE flush' = flush
      BY <3>1 DEF Delivers
    <3>2. CASE flush.call = c /\ flush' = [flush EXCEPT !.at = "refused", !.call = 0]
      <4>1. flush'.at = "refused" /\ flush'.obj = flush.obj /\ flush'.first = flush.first
        BY <3>2 DEF Rows, TaskRows, FlushRow
      <4> QED
        BY <2>3, <3>2, <4>1 DEF HasReceipt, Answers, Delivers
    <3> QED
      BY <2>3, <3>1, <3>2, AnsweredForms
  <2>4. CASE /\ Answered(c, "acking") /\ calls[c].at # "idle"
             /\ server' = [server EXCEPT !.stored = @ \o calls[c].obj, !.receipts = @ \cup {Span(calls[c])}]
    <3>1. Span(calls[c]) \in server'.receipts
      BY <2>4 DEF Rows, ServerRow
    <3> QED
      BY <2>2, <2>4, <3>1
  <2>5. CASE HasReceipt(c) /\ (Answered(c, "acking") \/ Answered(c, "refused")) /\ server' = server /\ calls[c].at # "idle"
    <3>1. Span(calls[c]) \in server'.receipts
      BY <2>5 DEF HasReceipt
    <3> QED
      BY <2>2, <2>3, <2>5, <3>1
  <2> QED
    BY <1>9, <2>1, <2>3, <2>4, <2>5 DEF CommitSegment
<1>10. CASE DestroyFails
  BY <1>10, NotDestroyed DEF ProcessEnds, NoFlush, Delivers
<1>11. CASE FlushTimeout
  BY <1>11 DEF FlushTimeout, Delivers, Rows, TaskRows, FlushRow
<1> QED
  BY <1>1, <1>2, <1>3, <1>4, <1>5, <1>6, <1>7, <1>8, <1>9, <1>10, <1>11 DEF Next, SlotLoop,
       Executor, Emitter, Flusher, Server, Watch, Environment

\* An acknowledgement without a caller was one that had one.
LEMMA LateStep ==
  ASSUME Rows, Next, late'.at = "acking"
  PROVE  \/ late.at = "acking" /\ late'.obj = late.obj /\ late'.first = late.first
         \/ flush.at = "acking" /\ late'.obj = flush.obj /\ late'.first = flush.first
<1> DEFINE Goal == \/ late.at = "acking" /\ late'.obj = late.obj /\ late'.first = late.first
                   \/ flush.at = "acking" /\ late'.obj = flush.obj /\ late'.first = flush.first
<1>1. CASE Resume \/ AuthorizeOrphan \/ ResumeOrphan \/ AbandonDelivery \/ PersistResult \/
         CloseBegin \/ CloseDone \/ DestroyIntent \/ DestroySandbox \/ SandboxDestroyed \/
         CleanupDone \/ PostResult \/ ResultAcknowledged \/ ReleaseSlot \/ CreateIntent \/
         CreateSandbox \/ SandboxCreated \/ RecoverSandbox \/ BeginRunning \/ EmitLoad \/ EmitSeal
         \/ EmitPersist \/ EmitAdopt \/ EmitDone \/ EmitWait \/ FlushLoad \/ FlushCaughtUp \/
         FlushCall \/ FlushAck \/ FlushRemove \/ CommitResult \/ EmitRecord \/ CreateFails \/
         FlushTimeout \/ LeaseRunsOut \/ CloseSession
  BY <1>1 DEF Resume, AuthorizeOrphan, ResumeOrphan, AbandonDelivery, PersistResult, CloseBegin,
       CloseDone, DestroyIntent, DestroySandbox, SandboxDestroyed, CleanupDone, PostResult,
       ResultAcknowledged, ReleaseSlot, CreateIntent, CreateSandbox, SandboxCreated, RecoverSandbox,
       BeginRunning, EmitLoad, EmitSeal, EmitPersist, EmitAdopt, EmitDone, EmitWait, FlushLoad,
       FlushCaughtUp, FlushCall, FlushAck, FlushRemove, CommitResult, EmitRecord, CreateFails,
       FlushTimeout, LeaseRunsOut, CloseSession
<1>2. CASE ReleaseOrphan \/ RecordResult \/ FinishExecution \/ FlushEnds \/ NoticeExpiry \/
         HeartbeatFails \/ SiblingEndsSession \/ Cancel \/ CancelRefused \/ HeartbeatRefused \/
         Crash
  <2>1. late' = late \/ late' = NoLate \/ DropDelivery
    BY <1>2 DEF ProcessEnds, Stop, ReleaseOrphan, RecordResult, FinishExecution, FlushEnds,
         NoticeExpiry, HeartbeatFails, SiblingEndsSession, Cancel, CancelRefused,
         HeartbeatRefused, Crash
  <2>2. CASE DropDelivery
    BY <2>2 DEF DropDelivery, NoLate, NoFlush, Rows, TaskRows, FlushRow
  <2> QED
    BY <2>1, <2>2 DEF NoLate
<1>3. CASE LateTask
  BY <1>3 DEF LateTask, NoLate, Rows, TaskRows, LateRow
<1>4. ASSUME NEW c \in Calls, LookupReceipt(c) PROVE Goal
  BY <1>4 DEF LookupReceipt
<1>5. ASSUME NEW c \in Calls, AdmitSegment(c) PROVE Goal
  BY <1>5 DEF AdmitSegment
<1>6. ASSUME NEW c \in Calls, CommitSegment(c) PROVE Goal
  BY <1>6 DEF CommitSegment
<1>7. CASE DestroyFails
  BY <1>7, NotDestroyed DEF ProcessEnds, NoLate
<1> QED
  BY <1>1, <1>2, <1>3, <1>4, <1>5, <1>6, <1>7 DEF Next, SlotLoop, Executor, Emitter, Flusher,
       Server, Watch, Environment

\* An execution is over, goes on with its batch or begins with the delivery's.
LEMMA CallsStep ==
  ASSUME Rows, Next, NEW d \in Calls
  PROVE  \/ calls'[d].at = "idle"
         \/ calls[d].at # "idle" /\ calls'[d].obj = calls[d].obj /\ calls'[d].first = calls[d].first
         \/ flush.at = "sent" /\ calls'[d].obj = flush.obj /\ calls'[d].first = flush.first
<1> DEFINE Goal == \/ calls'[d].at = "idle"
                   \/ calls[d].at # "idle" /\ calls'[d].obj = calls[d].obj /\ calls'[d].first = calls[d].first
                   \/ flush.at = "sent" /\ calls'[d].obj = flush.obj /\ calls'[d].first = flush.first
<1>1. CASE Resume \/ AuthorizeOrphan \/ ResumeOrphan \/ AbandonDelivery \/ ReleaseOrphan \/
         PersistResult \/ RecordResult \/ CloseBegin \/ CloseDone \/ DestroyIntent \/ DestroySandbox
         \/ SandboxDestroyed \/ CleanupDone \/ PostResult \/ ResultAcknowledged \/ ReleaseSlot \/
         CreateIntent \/ CreateSandbox \/ SandboxCreated \/ RecoverSandbox \/ BeginRunning \/
         FinishExecution \/ EmitLoad \/ EmitSeal \/ EmitPersist \/ EmitAdopt \/ EmitDone \/ EmitWait
         \/ FlushLoad \/ FlushCaughtUp \/ FlushAck \/ FlushRemove \/ FlushEnds \/ LateTask \/
         CommitResult \/ NoticeExpiry \/ HeartbeatFails \/ SiblingEndsSession \/ EmitRecord \/
         CreateFails \/ DestroyFails
         \/ Cancel \/ CancelRefused \/ FlushTimeout \/ HeartbeatRefused \/ LeaseRunsOut \/ Crash
  <2>1. calls' = calls
    BY <1>1 DEF Resume, AuthorizeOrphan, ResumeOrphan, AbandonDelivery, ReleaseOrphan,
       PersistResult,
         RecordResult, CloseBegin, CloseDone, DestroyIntent, DestroySandbox, SandboxDestroyed,
         CleanupDone, PostResult, ResultAcknowledged, ReleaseSlot, CreateIntent, CreateSandbox,
         SandboxCreated, RecoverSandbox, BeginRunning, FinishExecution, EmitLoad, EmitSeal,
         EmitPersist, EmitAdopt, EmitDone, EmitWait, FlushLoad, FlushCaughtUp, FlushAck,
         FlushRemove, FlushEnds, LateTask, CommitResult, NoticeExpiry, HeartbeatFails,
         SiblingEndsSession, EmitRecord,
         CreateFails, DestroyFails, Cancel, CancelRefused, FlushTimeout, HeartbeatRefused,
         LeaseRunsOut, Crash
  <2> QED
    BY <2>1
<1>2. CASE FlushCall
  <2>1. PICK c \in Calls : calls' = [calls EXCEPT ![c] = [at |-> "called", obj |-> flush.obj, first |-> flush.first]]
    BY <1>2 DEF FlushCall
  <2>2. flush.at = "sent"
    BY <1>2 DEF FlushCall
  <2>3. CASE c = d
    BY <2>1, <2>2, <2>3 DEF Rows, CallRows
  <2>4. CASE c # d
    BY <2>1, <2>4 DEF Rows, CallRows
  <2> QED
    BY <2>3, <2>4
<1>3. ASSUME NEW c \in Calls, LookupReceipt(c) PROVE Goal
  <2>1. calls[c].at # "idle" /\ (calls' = [calls EXCEPT ![c] = IdleCall] \/ calls' = [calls EXCEPT ![c].at = "fresh"])
    BY <1>3 DEF LookupReceipt, Answered
  <2>2. CASE calls' = [calls EXCEPT ![c] = IdleCall]
    BY <2>2 DEF IdleCall, Rows, CallRows
  <2>3. CASE calls' = [calls EXCEPT ![c].at = "fresh"]
    BY <2>1, <2>3 DEF Rows, CallRows
  <2> QED
    BY <2>1, <2>2, <2>3
<1>4. ASSUME NEW c \in Calls, AdmitSegment(c) PROVE Goal
  <2>1. calls[c].at # "idle" /\ (calls' = [calls EXCEPT ![c] = IdleCall] \/ calls' = [calls EXCEPT ![c].at = "admitted"])
    BY <1>4 DEF AdmitSegment, Answered
  <2>2. CASE calls' = [calls EXCEPT ![c] = IdleCall]
    BY <2>2 DEF IdleCall, Rows, CallRows
  <2>3. CASE calls' = [calls EXCEPT ![c].at = "admitted"]
    BY <2>1, <2>3 DEF Rows, CallRows
  <2> QED
    BY <2>1, <2>2, <2>3
<1>5. ASSUME NEW c \in Calls, CommitSegment(c) PROVE Goal
  <2>1. calls' = [calls EXCEPT ![c] = IdleCall]
    BY <1>5 DEF CommitSegment, Answered
  <2> QED
    BY <2>1 DEF IdleCall, Rows, CallRows
<1>6. CASE CloseSession
  <2>1. calls'[d] = calls[d] \/ calls'[d] = IdleCall
    BY <1>6 DEF CloseSession
  <2> QED
    BY <2>1 DEF IdleCall
<1> QED
  BY <1>1, <1>2, <1>3, <1>4, <1>5, <1>6 DEF Next, SlotLoop, Executor, Emitter, Flusher, Server,
       Watch, Environment

\* A delivery waits for nothing else.
LEMMA MatchStep ==
  ASSUME Rows, Tasks, Matched, Next
  PROVE  Matched'
<1>1. CASE Resume \/ AuthorizeOrphan \/ ResumeOrphan \/ AbandonDelivery \/ PersistResult \/
         CloseBegin \/ CloseDone \/ DestroyIntent \/ DestroySandbox \/ SandboxDestroyed \/
         CleanupDone \/ PostResult \/ ResultAcknowledged \/ ReleaseSlot \/ CreateIntent \/
         CreateSandbox \/ SandboxCreated \/ RecoverSandbox \/ BeginRunning \/ EmitLoad \/ EmitSeal
         \/ EmitPersist \/ EmitAdopt \/ EmitDone \/ EmitWait \/ FlushCaughtUp \/ CommitResult \/
         EmitRecord \/ CreateFails \/ LeaseRunsOut
  <2>1. calls' = calls /\ flush' = flush
    BY <1>1 DEF Resume, AuthorizeOrphan, ResumeOrphan, AbandonDelivery, PersistResult, CloseBegin,
         CloseDone, DestroyIntent, DestroySandbox, SandboxDestroyed, CleanupDone, PostResult,
         ResultAcknowledged, ReleaseSlot, CreateIntent, CreateSandbox, SandboxCreated,
         RecoverSandbox, BeginRunning, EmitLoad, EmitSeal, EmitPersist, EmitAdopt, EmitDone,
         EmitWait, FlushCaughtUp, CommitResult, EmitRecord, CreateFails, LeaseRunsOut
  <2> QED
    BY <2>1 DEF Matched
<1>2. CASE ReleaseOrphan \/ RecordResult \/ FinishExecution \/ FlushRemove \/ FlushEnds \/
         NoticeExpiry \/ HeartbeatFails \/ SiblingEndsSession \/ Cancel \/ CancelRefused \/
         HeartbeatRefused \/ Crash
  <2>1. flush' = NoFlush \/ (flush' = flush /\ calls' = calls)
    BY <1>2 DEF ProcessEnds, Stop, DropDelivery, ReleaseOrphan, RecordResult, FinishExecution,
         FlushRemove, FlushEnds, NoticeExpiry, HeartbeatFails, SiblingEndsSession, Cancel,
         CancelRefused,
         HeartbeatRefused, Crash
  <2> QED
    BY <2>1 DEF NoFlush, Matched
<1>3. CASE FlushLoad
  BY <1>3 DEF FlushLoad, Matched
<1>4. CASE FlushCall
  <2>1. PICK d \in Calls : /\ calls' = [calls EXCEPT ![d] = [at |-> "called", obj |-> flush.obj, first |-> flush.first]]
                           /\ flush' = [flush EXCEPT !.call = d]
    BY <1>4 DEF FlushCall
  <2>2. flush'.call = d /\ flush'.obj = flush.obj /\ flush'.first = flush.first
    BY <2>1 DEF Rows, TaskRows, FlushRow
  <2>3. calls'[d] = [at |-> "called", obj |-> flush.obj, first |-> flush.first]
    BY <2>1 DEF Rows, CallRows
  <2> QED
    BY <2>2, <2>3 DEF Matched
<1>5. CASE FlushAck
  <2>1. flush'.call = flush.call /\ flush.call = 0
    BY <1>5 DEF FlushAck, Tasks, Rows, TaskRows, FlushRow
  <2> QED
    BY <2>1 DEF Matched
<1>6. CASE LateTask
  BY <1>6 DEF LateTask, Matched
<1>7. ASSUME NEW c \in Calls, LookupReceipt(c) PROVE Matched'
  <2>1. calls[c].at # "idle" /\ c # 0
    BY <1>7, RunnerSlotAssumption DEF LookupReceipt
  <2>2. ASSUME NEW answer, Answered(c, answer) PROVE Matched'
    <3>1. CASE flush' = flush /\ flush.call # c
      BY <2>2, <3>1 DEF Answered, Matched, Rows, CallRows
    <3>2. CASE flush' = [flush EXCEPT !.at = answer, !.call = 0]
      <4>1. flush'.call = 0
        BY <3>2 DEF Rows, TaskRows, FlushRow
      <4> QED
        BY <4>1 DEF Matched
    <3> QED
      BY <2>2, <3>1, <3>2, AnsweredForms
  <2>3. CASE calls' = [calls EXCEPT ![c].at = "fresh"] /\ flush' = flush
    BY <2>1, <2>3 DEF Matched, Rows, CallRows, TaskRows, FlushRow
  <2> QED
    BY <1>7, <2>2, <2>3 DEF LookupReceipt
<1>8. ASSUME NEW c \in Calls, AdmitSegment(c) PROVE Matched'
  <2>1. calls[c].at # "idle" /\ c # 0
    BY <1>8, RunnerSlotAssumption DEF AdmitSegment
  <2>2. ASSUME NEW answer, Answered(c, answer) PROVE Matched'
    <3>1. CASE flush' = flush /\ flush.call # c
      BY <2>2, <3>1 DEF Answered, Matched, Rows, CallRows
    <3>2. CASE flush' = [flush EXCEPT !.at = answer, !.call = 0]
      <4>1. flush'.call = 0
        BY <3>2 DEF Rows, TaskRows, FlushRow
      <4> QED
        BY <4>1 DEF Matched
    <3> QED
      BY <2>2, <3>1, <3>2, AnsweredForms
  <2>3. CASE calls' = [calls EXCEPT ![c].at = "admitted"] /\ flush' = flush
    BY <2>1, <2>3 DEF Matched, Rows, CallRows, TaskRows, FlushRow
  <2> QED
    BY <1>8, <2>2, <2>3 DEF AdmitSegment
<1>9. ASSUME NEW c \in Calls, CommitSegment(c) PROVE Matched'
  <2>1. calls[c].at # "idle" /\ c # 0
    BY <1>9, RunnerSlotAssumption DEF CommitSegment
  <2>2. ASSUME NEW answer, Answered(c, answer) PROVE Matched'
    <3>1. CASE flush' = flush /\ flush.call # c
      BY <2>2, <3>1 DEF Answered, Matched, Rows, CallRows
    <3>2. CASE flush' = [flush EXCEPT !.at = answer, !.call = 0]
      <4>1. flush'.call = 0
        BY <3>2 DEF Rows, TaskRows, FlushRow
      <4> QED
        BY <4>1 DEF Matched
    <3> QED
      BY <2>2, <3>1, <3>2, AnsweredForms
  <2> QED
    BY <1>9, <2>2 DEF CommitSegment
<1>10. CASE DestroyFails
  <2>1. calls' = calls
    BY <1>10 DEF DestroyFails
  <2> QED
    BY <1>10, <2>1, NotDestroyed DEF ProcessEnds, NoFlush, Matched
<1>11. CASE FlushTimeout
  <2>1. flush'.call = 0
    BY <1>11 DEF FlushTimeout, Rows, TaskRows, FlushRow
  <2> QED
    BY <2>1 DEF Matched
<1>12. CASE CloseSession
  <2>1. flush' = flush /\ (flush.call # 0 => flush.call \in Calls)
    BY <1>12 DEF CloseSession, Rows, TaskRows, FlushRow
  <2>2. flush.call # 0 => calls'[flush.call] = calls[flush.call]
    BY <1>12, <2>1 DEF CloseSession
  <2> QED
    BY <2>1, <2>2 DEF Matched
<1> QED
  BY <1>1, <1>2, <1>3, <1>4, <1>5, <1>6, <1>7, <1>8, <1>9, <1>10, <1>11, <1>12 DEF Next, SlotLoop,
       Executor, Emitter, Flusher, Server, Watch, Environment

\* How far a batch that begins after the first m records reaches.
LEMMA ThroughHead ==
  ASSUME NEW b, NEW m \in Nat, Len(b.obj) \in Nat, b.first = m + 1
  PROVE  Through(b) = m + Len(b.obj) /\ Span(b) = <<m + 1, m + Len(b.obj)>>
<1>1. ASSUME NEW k \in Nat, NEW n \in Nat PROVE (k + 1) + n - 1 = k + n
  OBVIOUS
<1>2. Through(b) = m + Len(b.obj)
  BY <1>1 DEF Through
<1> QED
  BY <1>2 DEF Span

\* A batch stays one.
LEMMA BatchStep ==
  ASSUME Recoverable, Stored, Deliveries, Next, Kept', NEW b, Batch(b), Through(b) \in Int
  PROVE  \/ Through(b) <= slot'.acked /\ Span(b) \in server'.receipts
         \/ /\ b.first = slot'.acked + 1
            /\ slot'.segs # <<>> /\ Head(slot'.segs).sealed /\ Head(slot'.segs).obj = b.obj
<1> DEFINE Goal == \/ Through(b) <= slot'.acked /\ Span(b) \in server'.receipts
                   \/ /\ b.first = slot'.acked + 1
                      /\ slot'.segs # <<>> /\ Head(slot'.segs).sealed /\ Head(slot'.segs).obj = b.obj
<1>1. Rows /\ Progress /\ SegmentRows /\ Emission
  BY DEF Recoverable, Conduct
<1>2. Kept
  BY <1>1, KeptStep
<1>3. ASSUME NEW c \in Calls, Stores(c) PROVE Goal
  BY <1>1, <1>3, LogStore DEF Batch
<1>4. ASSUME server'.stored = server.stored, server'.receipts = server.receipts PROVE Goal
  <2>1. CASE Keeps
    BY <1>4, <2>1 DEF Keeps, Batch
  <2>2. CASE Seals
    <3>1. slot'.acked = slot.acked /\ slot'.segs # <<>>
      BY <1>1, <2>2, SealForms
    <3>2. Head(slot'.segs).obj = Head(slot.segs).obj /\ (Head(slot.segs).sealed => Head(slot'.segs).sealed)
      <4>1. Head(slot'.segs) = slot'.segs[1] /\ Head(slot.segs) = slot.segs[1] /\ 1 \in 1 .. Len(slot.segs)
        BY <1>1, <2>2, SealForms
      <4> QED
        BY <1>1, <2>2, <4>1, SealForms
    <3> QED
      BY <1>4, <3>1, <3>2 DEF Batch
  <2>3. CASE Adopts
    <3>1. slot'.acked = slot.acked /\ slot'.segs # <<>>
      BY <1>1, <2>3, AdoptForms
    <3>2. slot.segs # <<>> /\ Head(slot.segs).sealed => Head(slot'.segs) = Head(slot.segs)
      BY <1>1, <2>3, LogAdopt
    <3> QED
      BY <1>4, <3>1, <3>2 DEF Batch
  <2>4. ASSUME NEW x, Drops(x), Through(x) <= Len(server.stored) PROVE Goal
    <3>1. HeadStored /\ slot'.acked = Len(server.stored)
      BY <1>1, <1>2, <2>4, LogDrop
    <3>2. slot.segs # <<>> /\ slot.acked \in Nat /\ Len(server.stored) \in Nat /\ Len(Head(slot.segs).obj) \in Nat \ {0}
      BY <1>1, <3>1, HeadLength, SlotParts DEF HeadStored
    <3>3. slot.acked <= slot'.acked
      BY <3>1, <3>2 DEF HeadStored
    <3>4. CASE Through(b) <= slot.acked /\ Span(b) \in server.receipts
      BY <1>4, <3>1, <3>2, <3>3, <3>4
    <3>5. CASE b.first = slot.acked + 1 /\ Head(slot.segs).obj = b.obj
      <4>1. Through(b) = slot.acked + Len(b.obj) /\ Span(b) = <<slot.acked + 1, slot.acked + Len(b.obj)>>
        BY <3>2, <3>5, ThroughHead
      <4>2. slot.acked + Len(b.obj) = Len(server.stored)
        BY <3>1, <3>5 DEF HeadStored
      <4>3. Span(b) \in server.receipts
        BY <3>1, <4>1, <4>2 DEF HeadStored
      <4> QED
        BY <1>4, <3>1, <3>2, <4>1, <4>2, <4>3
    <3> QED
      BY <3>4, <3>5 DEF Batch
  <2>5. CASE flush.at = "acking" /\ Drops(flush)
    <3>1. Through(flush) <= Len(server.stored)
      BY <2>5 DEF Deliveries
    <3> QED
      BY <2>4, <2>5, <3>1
  <2>6. CASE late.at = "acking" /\ Drops(late)
    <3>1. Through(late) <= Len(server.stored)
      BY <2>6 DEF Deliveries
    <3> QED
      BY <2>4, <2>6, <3>1
  <2>7. CASE LetsGo
    <3>1. slot'.acked = slot.acked /\ ~slot'.held /\ slot'.orphan = slot.orphan
      BY <1>1, <2>7 DEF LetsGo, Rows, SlotRow
    <3>2. proc.stage = "deliver"
      BY <1>1, <2>7, <3>1 DEF LetsGo, Kept, Progress
    <3>3. slot.segs = <<>>
      BY <1>1, <3>2 DEF Emission
    <3> QED
      BY <1>4, <3>1, <3>3 DEF Batch
  <2> QED
    BY <1>1, <2>1, <2>2, <2>3, <2>5, <2>6, <2>7, BacklogStep DEF BacklogChange
<1> QED
  BY <1>1, <1>3, <1>4, StoredStep

\* What is stored only grows, and every receipt is for a part of it.
LEMMA ReceiptsStep ==
  ASSUME Recoverable, Stored, Deliveries, Next
  PROVE  /\ Len(server.stored) \in Nat /\ Len(server'.stored) \in Nat /\ Len(server'.stored) >= Len(server.stored)
         /\ \A sp \in server'.receipts : sp[2] <= Len(server'.stored)
         /\ server.receipts \subseteq server'.receipts
<1>1. Rows /\ Progress /\ SegmentRows
  BY DEF Recoverable, Conduct
<1>2. server.stored \in Seq(Records) /\ server'.stored \in Seq(Records) /\ server.receipts \subseteq Nat \X Nat
  <2>1. Rows'
    BY <1>1, RowsStep
  <2> QED
    BY <1>1, <2>1 DEF Rows, ServerRow
<1>3. Len(server.stored) \in Nat /\ Len(server'.stored) \in Nat
  BY <1>2
<1>4. \A sp \in server.receipts : sp[2] <= Len(server.stored) /\ sp[2] \in Nat
  BY <1>2 DEF Deliveries
<1>5. ASSUME NEW c \in Calls, Stores(c)
      PROVE  /\ Len(server'.stored) >= Len(server.stored)
             /\ \A sp \in server'.receipts : sp[2] <= Len(server'.stored)
             /\ server.receipts \subseteq server'.receipts
  <2>1. /\ server'.receipts = server.receipts \cup {Span(calls[c])}
        /\ Len(server'.stored) = Through(calls[c]) /\ Len(server'.stored) > slot.acked
        /\ Len(server.stored) = slot.acked
    BY <1>1, <1>5, LogStore
  <2>2. Len(server'.stored) >= Len(server.stored)
    BY <1>3, <2>1
  <2>3. Span(calls[c])[2] <= Len(server'.stored)
    BY <1>3, <2>1 DEF Span
  <2>4. \A sp \in server.receipts : sp[2] <= Len(server'.stored)
    BY <1>3, <1>4, <2>2
  <2> QED
    BY <2>1, <2>2, <2>3, <2>4
<1>6. CASE server'.stored = server.stored /\ server'.receipts = server.receipts
  BY <1>3, <1>4, <1>6
<1> QED
  BY <1>1, <1>3, <1>5, <1>6, StoredStep

\* What is loaded for delivery is the head.
LEMMA LoadsBatch ==
  ASSUME Rows, SegmentRows, FlushLoad
  PROVE  /\ flush'.first = slot'.acked + 1 /\ flush'.obj # <<>> /\ flush'.at = "sent"
         /\ slot'.segs # <<>> /\ Head(slot'.segs).sealed /\ Head(slot'.segs).obj = flush'.obj
<1>1. Seals /\ flush' = [at |-> "sent", obj |-> Head(slot.segs).obj, first |-> slot.acked + 1, call |-> 0]
  BY DEF FlushLoad, Seals
<1>2. slot'.acked = slot.acked /\ slot'.segs # <<>> /\ slot.segs # <<>>
  BY <1>1, SealForms
<1>3. Head(slot.segs).obj # <<>>
  BY <1>2, HeadLength DEF SegmentRows
<1>4. Head(slot'.segs) = slot'.segs[1] /\ Head(slot.segs) = slot.segs[1] /\ 1 \in 1 .. Len(slot.segs)
  BY <1>1, SealForms
<1>5. Head(slot'.segs).obj = Head(slot.segs).obj /\ Head(slot'.segs).sealed = (Head(slot.segs).sealed \/ 1 = Len(slot.segs))
  BY <1>1, <1>4, SealForms
<1>6. 1 < Len(slot.segs) => slot.segs[1].sealed
  <2>1. ValidWith(slot.segs, Frames(slot.segs), slot.eos)
    BY CursorForm DEF SegmentRows
  <2> QED
    BY <1>4, <2>1 DEF ValidWith
<1>7. Head(slot'.segs).sealed
  <2>1. 1 < Len(slot.segs) \/ 1 = Len(slot.segs)
    <3>1. Len(slot.segs) \in Nat
      <4>1. slot.segs \in Seq(Segments)
        BY SlotParts
      <4> QED
        BY <4>1
    <3>2. ASSUME NEW n \in Nat, 1 \in 1 .. n PROVE 1 < n \/ 1 = n
      BY <3>2
    <3> QED
      BY <1>4, <3>1, <3>2
  <2>2. CASE 1 < Len(slot.segs)
    BY <1>4, <1>5, <1>6, <2>2
  <2>3. CASE 1 = Len(slot.segs)
    BY <1>5, <2>3
  <2> QED
    BY <2>1, <2>2, <2>3
<1> QED
  BY <1>1, <1>2, <1>3, <1>5, <1>7

\* Deliveries stay what they are.
LEMMA DeliveriesStep ==
  ASSUME Recoverable, Stored, Deliveries, Next
  PROVE  Deliveries'
<1>1. Rows /\ Tasks /\ SegmentRows /\ Matched
  BY DEF Recoverable, Conduct, Deliveries
<1>2. Rows'
  BY <1>1, RowsStep
<1>3. Matched'
  BY <1>1, MatchStep
<1>4. /\ Len(server.stored) \in Nat /\ Len(server'.stored) \in Nat /\ Len(server'.stored) >= Len(server.stored)
      /\ \A sp \in server'.receipts : sp[2] <= Len(server'.stored)
  BY ReceiptsStep
<1>5. /\ flush.first \in Nat /\ flush.obj \in Seq(Records) /\ late.first \in Nat /\ late.obj \in Seq(Records)
      /\ \A d \in Calls : calls[d].first \in Nat /\ calls[d].obj \in Seq(Records)
  BY <1>1 DEF Rows, TaskRows, FlushRow, LateRow, CallRows
<1>6. ASSUME NEW b, b.first \in Nat, b.obj \in Seq(Records) PROVE Through(b) \in Int
  BY <1>6 DEF Through
<1>7. Through(flush) \in Int /\ Through(late) \in Int /\ \A d \in Calls : Through(calls[d]) \in Int
  BY <1>5, <1>6
<1>8. ASSUME Kept', flush'.at = "sent" PROVE Batch(flush)'
  <2>1. CASE FlushLoad
    BY <1>1, <2>1, LoadsBatch DEF Batch
  <2>2. CASE flush.at = "sent" /\ flush'.obj = flush.obj /\ flush'.first = flush.first
    <3>1. Kept
      BY <1>1, <1>8, KeptStep
    <3>2. Batch(flush)
      BY <2>2, <3>1 DEF Deliveries
    <3>3. \/ Through(flush) <= slot'.acked /\ Span(flush) \in server'.receipts
          \/ /\ flush.first = slot'.acked + 1
             /\ slot'.segs # <<>> /\ Head(slot'.segs).sealed /\ Head(slot'.segs).obj = flush.obj
      BY <1>7, <1>8, <3>2, BatchStep
    <3> QED
      BY <2>2, <3>2, <3>3 DEF Batch, Through, Span
  <2> QED
    BY <1>1, <1>8, <2>1, <2>2, DeliveryStep DEF Delivers, Answers
<1>9. ASSUME Kept', NEW d \in Calls, calls'[d].at # "idle" PROVE Batch(calls[d])'
  <2>1. Kept
    BY <1>1, <1>9, KeptStep
  <2>2. CASE calls[d].at # "idle" /\ calls'[d].obj = calls[d].obj /\ calls'[d].first = calls[d].first
    <3>2. Batch(calls[d])
      BY <2>1, <2>2 DEF Deliveries
    <3>3. \/ Through(calls[d]) <= slot'.acked /\ Span(calls[d]) \in server'.receipts
          \/ /\ calls[d].first = slot'.acked + 1
             /\ slot'.segs # <<>> /\ Head(slot'.segs).sealed /\ Head(slot'.segs).obj = calls[d].obj
      BY <1>7, <1>9, <3>2, BatchStep
    <3> QED
      BY <2>2, <3>2, <3>3 DEF Batch, Through, Span
  <2>3. CASE flush.at = "sent" /\ calls'[d].obj = flush.obj /\ calls'[d].first = flush.first
    <3>2. Batch(flush)
      BY <2>1, <2>3 DEF Deliveries
    <3>3. \/ Through(flush) <= slot'.acked /\ Span(flush) \in server'.receipts
          \/ /\ flush.first = slot'.acked + 1
             /\ slot'.segs # <<>> /\ Head(slot'.segs).sealed /\ Head(slot'.segs).obj = flush.obj
      BY <1>7, <1>9, <3>2, BatchStep
    <3> QED
      BY <2>3, <3>2, <3>3 DEF Batch, Through, Span
  <2> QED
    BY <1>1, <1>9, <2>2, <2>3, CallsStep
<1>10. ASSUME flush'.at = "acking" PROVE Through(flush') <= Len(server'.stored)
  <2>1. CASE flush.at = "acking" /\ flush'.obj = flush.obj /\ flush'.first = flush.first
    <3>1. Through(flush) <= Len(server.stored)
      BY <2>1 DEF Deliveries
    <3>2. Through(flush') = Through(flush)
      BY <2>1 DEF Through
    <3> QED
      BY <1>4, <1>7, <3>1, <3>2
  <2>2. ASSUME NEW d \in Calls, Answers(d) PROVE Through(flush') <= Len(server'.stored)
    <3>1. d # 0
      BY RunnerSlotAssumption
    <3>2. Span(calls[d]) \in server'.receipts /\ flush'.obj = calls[d].obj /\ flush'.first = calls[d].first
      BY <1>1, <1>10, <2>2, <3>1 DEF Answers, Matched
    <3>3. Through(flush') = Through(calls[d])
      BY <3>2 DEF Through
    <3>4. Through(calls[d]) <= Len(server'.stored)
      BY <1>4, <3>2 DEF Span
    <3> QED
      BY <3>3, <3>4
  <2>3. CASE FlushLoad
    BY <1>10, <2>3 DEF FlushLoad
  <2> QED
    BY <1>1, <1>10, <2>1, <2>2, <2>3, DeliveryStep DEF Delivers
<1>11. ASSUME late'.at = "acking" PROVE Through(late') <= Len(server'.stored)
  <2>1. CASE late.at = "acking" /\ late'.obj = late.obj /\ late'.first = late.first
    <3>1. Through(late) <= Len(server.stored)
      BY <2>1 DEF Deliveries
    <3>2. Through(late') = Through(late)
      BY <2>1 DEF Through
    <3> QED
      BY <1>4, <1>7, <3>1, <3>2
  <2>2. CASE flush.at = "acking" /\ late'.obj = flush.obj /\ late'.first = flush.first
    <3>1. Through(flush) <= Len(server.stored)
      BY <2>2 DEF Deliveries
    <3>2. Through(late') = Through(flush)
      BY <2>2 DEF Through
    <3> QED
      BY <1>4, <1>7, <3>1, <3>2
  <2> QED
    BY <1>1, <1>11, <2>1, <2>2, LateStep
<1> QED
  BY <1>3, <1>4, <1>8, <1>9, <1>10, <1>11 DEF Deliveries, Through

\* The control plane never takes an attempt up again, and it takes the result
\* that was posted.
LEMMA AttemptStep ==
  ASSUME Rows, Next
  PROVE  /\ AttemptActive' => AttemptActive
         /\ server.posted => server'.posted
         /\ server'.posted => server.posted \/ PostResult
         /\ server'.result => server.result \/ server.posted
<1> DEFINE Goal == /\ AttemptActive' => AttemptActive
                   /\ server.posted => server'.posted
                   /\ server'.posted => server.posted \/ PostResult
                   /\ server'.result => server.result \/ server.posted
<1>1. CASE Resume \/ AuthorizeOrphan \/ ResumeOrphan \/ AbandonDelivery \/ ReleaseOrphan \/
         PersistResult \/ RecordResult \/ CloseBegin \/ CloseDone \/ DestroyIntent \/ DestroySandbox
         \/ SandboxDestroyed \/ CleanupDone \/ ResultAcknowledged \/ ReleaseSlot \/ CreateIntent \/
         CreateSandbox \/ SandboxCreated \/ RecoverSandbox \/ BeginRunning \/ FinishExecution \/
         EmitLoad \/ EmitSeal \/ EmitPersist \/ EmitAdopt \/ EmitDone \/ EmitWait \/ FlushLoad \/
         FlushCaughtUp \/ FlushCall \/ FlushAck \/ FlushRemove \/ FlushEnds \/ LateTask \/
         NoticeExpiry \/ HeartbeatFails \/ SiblingEndsSession \/ EmitRecord \/ CreateFails \/
         DestroyFails \/ Cancel \/
         CancelRefused \/ FlushTimeout \/ HeartbeatRefused \/ Crash
  <2>1. server' = server
    BY <1>1 DEF Resume, AuthorizeOrphan, ResumeOrphan, AbandonDelivery, ReleaseOrphan,
       PersistResult,
         RecordResult, CloseBegin, CloseDone, DestroyIntent, DestroySandbox, SandboxDestroyed,
         CleanupDone, ResultAcknowledged, ReleaseSlot, CreateIntent, CreateSandbox, SandboxCreated,
         RecoverSandbox, BeginRunning, FinishExecution, EmitLoad, EmitSeal, EmitPersist, EmitAdopt,
         EmitDone, EmitWait, FlushLoad, FlushCaughtUp, FlushCall, FlushAck, FlushRemove, FlushEnds,
         LateTask, NoticeExpiry, HeartbeatFails, SiblingEndsSession, EmitRecord, CreateFails,
         DestroyFails, Cancel,
         CancelRefused, FlushTimeout, HeartbeatRefused, Crash
  <2> QED
    BY <2>1 DEF AttemptActive, SessionLive
<1>2. CASE PostResult
  BY <1>2 DEF PostResult, AttemptActive, SessionLive, Rows, ServerRow
<1>3. ASSUME NEW c \in Calls, LookupReceipt(c) PROVE Goal
  BY <1>3 DEF LookupReceipt, AttemptActive, SessionLive
<1>4. ASSUME NEW c \in Calls, AdmitSegment(c) PROVE Goal
  BY <1>4 DEF AdmitSegment, AttemptActive, SessionLive
<1>5. ASSUME NEW c \in Calls, CommitSegment(c) PROVE Goal
  <2>1. server' = server \/ server' = [server EXCEPT !.stored = @ \o calls[c].obj, !.receipts = @ \cup {Span(calls[c])}]
    BY <1>5 DEF CommitSegment
  <2> QED
    BY <2>1 DEF AttemptActive, SessionLive, Rows, ServerRow
<1>6. CASE CommitResult
  BY <1>6 DEF CommitResult, AttemptActive, SessionLive, Rows, ServerRow
<1>7. CASE LeaseRunsOut
  BY <1>7 DEF LeaseRunsOut, AttemptActive, SessionLive, Rows, ServerRow
<1>8. CASE CloseSession
  BY <1>8 DEF CloseSession, AttemptActive, SessionLive, Rows, ServerRow
<1> QED
  BY <1>1, <1>2, <1>3, <1>4, <1>5, <1>6, <1>7, <1>8 DEF Next, SlotLoop, Executor, Emitter, Flusher,
       Server, Watch, Environment

\* What is refused has a receipt, or came too late.
LEMMA RefusalsStep ==
  ASSUME Recoverable, Stored, LogRows, Deliveries, RefusalsExplained, Next
  PROVE  RefusalsExplained'
<1>1. Rows /\ Tasks /\ Progress /\ SegmentRows /\ Matched
  BY DEF Recoverable, Conduct, Deliveries
<1>2. SUFFICES ASSUME flush'.at = "refused" PROVE Span(flush') \in server'.receipts \/ ~AttemptActive'
  BY DEF RefusalsExplained, Span, Through
<1>3. CASE flush.at = "refused" /\ flush'.obj = flush.obj /\ flush'.first = flush.first
  <2>1. Span(flush) \in server.receipts \/ ~AttemptActive
    BY <1>3 DEF RefusalsExplained
  <2>2. Span(flush') = Span(flush)
    BY <1>3 DEF Span, Through
  <2> QED
    BY <1>1, <2>1, <2>2, ReceiptsStep, AttemptStep
<1>4. ASSUME NEW d \in Calls, Answers(d) PROVE Span(flush') \in server'.receipts \/ ~AttemptActive'
  <2>1. d # 0
    BY RunnerSlotAssumption
  <2>2. /\ server' = server /\ calls[d].at # "idle" /\ flush'.obj = calls[d].obj /\ flush'.first = calls[d].first
        /\ Span(calls[d]) \in server.receipts \/ ~AttemptActive \/ ~PositionOpen(calls[d])
    BY <1>1, <1>2, <1>4, <2>1 DEF Answers, Matched
  <2>3. Span(flush') = Span(calls[d])
    BY <2>2 DEF Span, Through
  <2>4. SUFFICES ASSUME AttemptActive, ~PositionOpen(calls[d]) PROVE Span(calls[d]) \in server.receipts
    BY <1>1, <2>2, <2>3, AttemptStep
  <2>5. Kept
    BY <1>1, <2>4 DEF AttemptActive, Progress, Kept
  <2>6. Batch(calls[d])
    BY <2>2, <2>5 DEF Deliveries
  <2>7. CASE calls[d].first = slot.acked + 1 /\ slot.segs # <<>> /\ Head(slot.segs).obj = calls[d].obj
    <3>1. slot.acked \in Nat /\ Len(Head(slot.segs).obj) \in Nat /\ server.stored \in Seq(Records) /\ slot.segs \in Seq(Segments)
      BY <1>1, <2>7, HeadLength, SlotParts
    <3>2. CASE Len(server.stored) = slot.acked
      <4>1. server.stored # <<>> /\ Last(server.stored) = End
        BY <2>4, <2>7, <3>2 DEF PositionOpen
      <4>2. PICK l, f : l = server.stored /\ f = Frames(slot.segs)
        OBVIOUS
      <4>3. l \in Seq(Records) /\ f \in Seq(Records) /\ f # <<>> /\ l # <<>> /\ l[Len(l)] = End
        BY <1>1, <2>7, <3>1, <4>1, <4>2, ObjectsType, FramesNotEmpty DEF SegmentRows, Last
      <4>4. Increasing(l \o f)
        BY <2>5, <3>2, <4>2 DEF LogRows, Log, Unstored
      <4>5. /\ Len(l) \in DOMAIN (l \o f) /\ (l \o f)[Len(l)] = l[Len(l)]
            /\ Len(l) + 1 \in DOMAIN (l \o f) /\ (l \o f)[Len(l) + 1] = f[1] /\ Len(l) < Len(l) + 1
            /\ f[1] \in Records
        BY <4>3
      <4>6. End < f[1]
        BY <4>3, <4>4, <4>5 DEF Increasing
      <4> QED
        BY <4>5, <4>6, RunnerSlotAssumption DEF Records, End
    <3>3. CASE HeadStored
      <4>1. Span(calls[d]) = <<slot.acked + 1, slot.acked + Len(calls[d].obj)>>
        BY <2>7, <3>1, ThroughHead
      <4> QED
        BY <2>7, <3>3, <4>1 DEF HeadStored
    <3> QED
      BY <2>5, <3>2, <3>3 DEF Stored
  <2> QED
    BY <2>6, <2>7 DEF Batch
<1>5. CASE FlushLoad
  BY <1>2, <1>5 DEF FlushLoad
<1> QED
  BY <1>1, <1>2, <1>3, <1>4, <1>5, DeliveryStep DEF Delivers

\* A terminal slot gets no new sandbox.
LEMMA SandboxStep ==
  ASSUME Rows, Custody, Progress, Next, slot.life \in Terminal, ~engine, ~slot.box
  PROVE  ~engine' /\ ~slot'.box
<1>1. CASE Resume \/ AuthorizeOrphan \/ ResumeOrphan \/ AbandonDelivery \/ ReleaseOrphan \/
         PersistResult \/ RecordResult \/ CloseBegin \/ CloseDone \/ DestroyIntent \/ DestroySandbox
         \/ SandboxDestroyed \/ CleanupDone \/ PostResult \/ ResultAcknowledged \/ ReleaseSlot \/
         CreateIntent \/ RecoverSandbox \/ BeginRunning \/ FinishExecution \/ EmitLoad \/ EmitSeal
         \/ EmitPersist \/ EmitAdopt \/ EmitDone \/ EmitWait \/ FlushLoad \/ FlushCaughtUp \/
         FlushCall \/ FlushRemove \/ FlushEnds \/ CommitResult \/ NoticeExpiry \/
         HeartbeatFails \/ SiblingEndsSession \/
         EmitRecord \/ Cancel \/ CancelRefused \/ FlushTimeout \/ HeartbeatRefused \/ LeaseRunsOut
         \/ CloseSession \/ Crash
  <2>1. engine' = engine \/ engine' = FALSE
    BY <1>1 DEF Resume, AuthorizeOrphan, ResumeOrphan, AbandonDelivery, ReleaseOrphan,
       PersistResult,
         RecordResult, CloseBegin, CloseDone, DestroyIntent, DestroySandbox, SandboxDestroyed,
         CleanupDone, PostResult, ResultAcknowledged, ReleaseSlot, CreateIntent, RecoverSandbox,
         BeginRunning, FinishExecution, EmitLoad, EmitSeal, EmitPersist, EmitAdopt, EmitDone,
         EmitWait, FlushLoad, FlushCaughtUp, FlushCall, FlushRemove, FlushEnds, CommitResult,
         NoticeExpiry, HeartbeatFails, SiblingEndsSession, EmitRecord, Cancel, CancelRefused,
         FlushTimeout,
         HeartbeatRefused, LeaseRunsOut, CloseSession, Crash
  <2>2. slot'.box = slot.box \/ slot'.box = FALSE
    BY <1>1 DEF Resume, AuthorizeOrphan, ResumeOrphan, AbandonDelivery, ReleaseOrphan,
       PersistResult,
         RecordResult, CloseBegin, CloseDone, DestroyIntent, DestroySandbox, SandboxDestroyed,
         CleanupDone, PostResult, ResultAcknowledged, ReleaseSlot, CreateIntent, RecoverSandbox,
         BeginRunning, FinishExecution, EmitLoad, EmitSeal, EmitPersist, EmitAdopt, EmitDone,
         EmitWait, FlushLoad, FlushCaughtUp, FlushCall, FlushRemove, FlushEnds, CommitResult,
         NoticeExpiry, HeartbeatFails, SiblingEndsSession, EmitRecord, Cancel, CancelRefused,
         FlushTimeout,
         HeartbeatRefused, LeaseRunsOut, CloseSession, Crash, Rows, SlotRow
  <2> QED
    BY <2>1, <2>2
<1>2. CASE CreateSandbox
  <2>1. proc.stage = "run"
    BY <1>2 DEF CreateSandbox, Custody
  <2> QED
    BY <2>1 DEF Progress
<1>3. CASE SandboxCreated
  <2>1. proc.stage = "run"
    BY <1>3 DEF SandboxCreated, Custody
  <2> QED
    BY <2>1 DEF Progress
<1>4. CASE FlushAck
  BY <1>4 DEF FlushAck, Acknowledge, WithoutHead, Rows, SlotRow
<1>5. CASE LateTask
  <2>1. engine' = engine /\ slot'.box = slot.box
    BY <1>5, LateForms DEF WithoutHead, Rows, SlotRow
  <2> QED
    BY <2>1
<1>6. ASSUME NEW c \in Calls, LookupReceipt(c) PROVE ~engine' /\ ~slot'.box
  BY <1>6 DEF LookupReceipt
<1>7. ASSUME NEW c \in Calls, AdmitSegment(c) PROVE ~engine' /\ ~slot'.box
  BY <1>7 DEF AdmitSegment
<1>8. ASSUME NEW c \in Calls, CommitSegment(c) PROVE ~engine' /\ ~slot'.box
  BY <1>8 DEF CommitSegment
<1>9. CASE CreateFails
  <2>1. proc.stage = "run"
    BY <1>9 DEF CreateFails, Custody
  <2> QED
    BY <2>1 DEF Progress
<1>10. CASE DestroyFails
  BY <1>10, NotDestroyed DEF Rows, SlotRow
<1> QED
  BY <1>1, <1>2, <1>3, <1>4, <1>5, <1>6, <1>7, <1>8, <1>9, <1>10 DEF Next, SlotLoop, Executor,
       Emitter, Flusher, Server, Watch, Environment

\* The result stays the last thing that the runner sends.
LEMMA ConcludedStep ==
  ASSUME Recoverable, Stored, LogRows, Deliveries, Concluded, Next
  PROVE  Concluded'
<1>1. Rows /\ Custody /\ Progress /\ Tasks /\ SegmentRows /\ Emission
  BY DEF Recoverable, Conduct
<1>2. CASE PostResult
  <2>1. /\ slot' = slot /\ engine' = engine /\ emit' = emit /\ tally' = tally /\ proc.stage = "deliver"
        /\ server'.stored = server.stored
    BY <1>1, <1>2 DEF PostResult, Rows, ServerRow
  <2>2. slot.eos /\ slot.segs = <<>> /\ emit.at = "no"
    BY <1>1, <2>1 DEF Emission
  <2>3. slot.life \in Terminal /\ slot.held
    BY <1>1, <2>1 DEF Progress, Finishing
  <2>4. ~slot.box /\ ~engine
    BY <1>1, <2>1 DEF Custody, Finishing
  <2>5. Kept
    BY <2>3 DEF Kept
  <2>6. Log = server.stored
    <3>1. Len(server.stored) = slot.acked
      BY <2>2, <2>5 DEF Stored, HeadStored
    <3>2. Log = server.stored \o <<>>
      BY <2>2, <3>1, FramesEmpty DEF Log, Unstored
    <3>3. server.stored \in Seq(Records)
      BY <1>1, SlotParts
    <3> QED
      BY <3>2, <3>3
  <2>7. End \in Range(server.stored) /\ tally.told \subseteq Range(server.stored)
    BY <2>2, <2>5, <2>6 DEF LogRows
  <2>8. server'.posted
    BY <1>1, <1>2 DEF PostResult, Rows, ServerRow
  <2> QED
    BY <2>1, <2>2, <2>3, <2>4, <2>7, <2>8 DEF Concluded
<1>3. CASE ~PostResult
  <2>1. server'.posted => server.posted
    BY <1>1, <1>3, AttemptStep
  <2>2. server'.result => server'.posted
    BY <1>1, AttemptStep DEF Concluded
  <2>3. SUFFICES ASSUME server.posted
                 PROVE  /\ slot'.eos /\ slot'.segs = <<>> /\ slot'.life \in Terminal /\ emit'.at = "no"
                        /\ ~slot'.box /\ ~engine'
                        /\ End \in Range(server'.stored) /\ tally'.told \subseteq Range(server'.stored)
    BY <2>1, <2>2 DEF Concluded
  <2>4. /\ slot.eos /\ slot.segs = <<>> /\ slot.life \in Terminal /\ emit.at = "no"
        /\ ~slot.box /\ ~engine
        /\ End \in Range(server.stored) /\ tally.told \subseteq Range(server.stored)
    BY <2>3 DEF Concluded
  <2>5. slot'.life \in Terminal
    BY <1>1, <2>4, TerminalKept
  <2>6. ~slot'.box /\ ~engine'
    BY <1>1, <2>4, SandboxStep
  <2>7. slot'.eos /\ slot'.segs = <<>>
    <3>1. CASE Keeps
      BY <2>4, <3>1 DEF Keeps
    <3>2. CASE LetsGo
      BY <1>1, <2>4, <3>2 DEF LetsGo, Rows, SlotRow
    <3>3. ~Seals /\ ~Adopts /\ ~Drops(flush) /\ ~Drops(late)
      BY <2>4 DEF Seals, Adopts, Drops, AcknowledgesHead
    <3> QED
      BY <1>1, <3>1, <3>2, <3>3, BacklogStep DEF BacklogChange
  <2>8. emit'.at = "no"
    <3>1. ~CloseBegin
      BY <2>4 DEF CloseBegin
    <3>2. ~EmitRecord
      BY <1>1, <2>4 DEF EmitRecord, Executing, Progress
    <3>3. ~EmitPersist /\ ~Adopts
      BY <2>4 DEF EmitPersist, Adopts
    <3> QED
      BY <1>1, <2>4, <3>1, <3>2, <3>3, EmitStep
  <2>9. server'.stored = server.stored
    BY <1>1, <2>4, StoredStep, LogStore
  <2>10. tally'.told = tally.told
    BY <1>1, <2>4, TallyStep
  <2> QED
    BY <2>4, <2>5, <2>6, <2>7, <2>8, <2>9, <2>10
<1> QED
  BY <1>2, <1>3

-----------------------------------------------------------------------------
(* The invariant and what follows from it.                                 *)

SlotInvariant ==
  Recoverable /\ Stored /\ LogRows /\ Deliveries /\ Concluded /\ RefusalsExplained

\* It holds in the beginning ...
LEMMA SlotInvariantInit ==
  ASSUME Init
  PROVE  SlotInvariant
<1>1. Recoverable
  BY RecoverableInit
<1>2. /\ server.stored = <<>> /\ server.receipts = {} /\ ~server.posted /\ ~server.result
      /\ slot.acked = 0 /\ slot.segs = <<>> /\ slot.eos = FALSE
      /\ emit.at = "no" /\ flush.at = "no" /\ flush.call = 0 /\ late.at = "no"
      /\ \A c \in Calls : calls[c].at = "idle"
      /\ tally.told = {} /\ Len(<<>>) = 0
  BY DEF Init, NoEmit, NoFlush, NoLate, IdleCall
<1>3. Stored
  BY <1>2 DEF Stored
<1>4. Log = <<>> /\ Range(<<>>) = {}
  <2>1. Unstored = <<>>
    BY <1>2 DEF Unstored
  <2>2. Log = <<>> \o <<>>
    BY <1>2, <2>1, FramesEmpty DEF Log
  <2>3. <<>> \o <<>> = <<>> /\ DOMAIN <<>> = {}
    OBVIOUS
  <2> QED
    BY <2>2, <2>3 DEF Range
<1>5. LogRows
  <2>1. Increasing(<<>>)
    BY DEF Increasing
  <2> QED
    BY <1>2, <1>4, <2>1 DEF LogRows
<1>6. Deliveries
  BY <1>2 DEF Deliveries, Matched
<1>7. Concluded /\ RefusalsExplained
  BY <1>2 DEF Concluded, RefusalsExplained
<1> QED
  BY <1>1, <1>3, <1>5, <1>6, <1>7 DEF SlotInvariant

\* ... and every step keeps it.
LEMMA SlotInvariantStep ==
  ASSUME SlotInvariant, [Next]_vars
  PROVE  SlotInvariant'
<1>1. Recoverable /\ Stored /\ LogRows /\ Deliveries /\ Concluded /\ RefusalsExplained
  BY DEF SlotInvariant
<1>2. Recoverable'
  BY <1>1, RecoverableStep
<1>3. CASE Next
  <2>1. Stored'
    <3>1. CASE Kept'
      BY <1>1, <1>3, <3>1, LogStep
    <3>2. CASE ~Kept'
      BY <3>2 DEF Stored
    <3> QED
      BY <3>1, <3>2
  <2>2. LogRows' /\ Deliveries' /\ Concluded' /\ RefusalsExplained'
    BY <1>1, <1>3, LogRowsStep, DeliveriesStep, ConcludedStep, RefusalsStep
  <2> QED
    BY <1>2, <2>1, <2>2 DEF SlotInvariant
<1>4. CASE UNCHANGED vars
  <2>1. /\ slot' = slot /\ server' = server /\ emit' = emit /\ flush' = flush /\ late' = late
        /\ calls' = calls /\ tally' = tally /\ engine' = engine
    BY <1>4 DEF vars
  <2>2. Kept' = Kept /\ HeadStored' = HeadStored /\ Log' = Log
    BY <2>1 DEF Kept, HeadStored, Log, Unstored
  <2>3. Stored'
    BY <1>1, <2>1, <2>2 DEF Stored
  <2>4. LogRows'
    BY <1>1, <2>1, <2>2 DEF LogRows, Increasing
  <2>5. Deliveries'
    BY <1>1, <2>1, <2>2 DEF Deliveries, Matched, Batch, Span, Through
  <2>6. Concluded' /\ RefusalsExplained'
    BY <1>1, <2>1 DEF Concluded, RefusalsExplained, AttemptActive, SessionLive, Span, Through
  <2> QED
    BY <1>2, <2>3, <2>4, <2>5, <2>6 DEF SlotInvariant
<1> QED
  BY <1>3, <1>4

\* A part of a sequence.
LEMMA PartOf ==
  ASSUME NEW a \in Seq(Records), NEW b \in Seq(Records)
  PROVE  /\ SubSeq(a \o b, Len(a) + 1, Len(a) + Len(b)) = b
         /\ SubSeq(a \o b, 1, Len(a)) = a
<1>1. /\ a \o b \in Seq(Records) /\ Len(a \o b) = Len(a) + Len(b) /\ Len(a) \in Nat /\ Len(b) \in Nat
      /\ \A i \in 1 .. Len(b) : (a \o b)[Len(a) + i] = b[i]
      /\ \A i \in 1 .. Len(a) : (a \o b)[i] = a[i]
      /\ \A i \in 1 .. (Len(a) + Len(b)) : (a \o b)[i] \in Records
  OBVIOUS
<1>2. PICK s, m, n : s = a \o b /\ m = Len(a) /\ n = Len(b)
  OBVIOUS
<1>3. /\ m \in Nat /\ n \in Nat /\ \A i \in 1 .. (m + n) : s[i] \in Records
      /\ \A i \in 1 .. n : s[m + i] = b[i]
      /\ \A i \in 1 .. m : s[i] = a[i]
  BY <1>1, <1>2
<1>4. SubSeq(s, m + 1, m + n) = b
  <2>1. \A i \in (m + 1) .. (m + n) : s[i] \in Records
    BY <1>3
  <2>2. m + 1 \in Int /\ m + n \in Int
    BY <1>3
  <2>3. PICK t : t = SubSeq(s, m + 1, m + n)
    OBVIOUS
  <2>4. /\ t \in Seq(Records) /\ Len(t) = IF m + 1 <= m + n THEN (m + n) - (m + 1) + 1 ELSE 0
        /\ \A i \in 1 .. ((m + n) - (m + 1) + 1) : t[i] = s[(m + 1) + i - 1]
    BY <2>1, <2>2, <2>3, SubSeqProperties
  <2>5. Len(t) = n
    BY <1>3, <2>4
  <2>6. \A i \in 1 .. n : t[i] = b[i]
    <3>1. SUFFICES ASSUME NEW i \in 1 .. n PROVE t[i] = b[i]
      OBVIOUS
    <3>2. i \in 1 .. ((m + n) - (m + 1) + 1) /\ (m + 1) + i - 1 = m + i
      BY <1>3
    <3> QED
      BY <1>3, <2>4, <3>2
  <2> QED
    BY <1>2, <2>3, <2>4, <2>5, <2>6, SeqEqual
<1>5. SubSeq(s, 1, m) = a
  <2>1. \A i \in 1 .. m : s[i] \in Records
    BY <1>3
  <2>2. PICK t : t = SubSeq(s, 1, m)
    OBVIOUS
  <2>3. /\ t \in Seq(Records) /\ Len(t) = IF 1 <= m THEN m - 1 + 1 ELSE 0
        /\ \A i \in 1 .. (m - 1 + 1) : t[i] = s[1 + i - 1]
    BY <1>3, <2>1, <2>2, SubSeqProperties
  <2>4. Len(t) = m
    BY <1>3, <2>3
  <2>5. \A i \in 1 .. m : t[i] = a[i]
    <3>1. SUFFICES ASSUME NEW i \in 1 .. m PROVE t[i] = a[i]
      OBVIOUS
    <3>2. i \in 1 .. (m - 1 + 1) /\ 1 + i - 1 = i
      BY <1>3
    <3> QED
      BY <1>3, <2>3, <3>2
  <2> QED
    BY <1>2, <2>2, <2>3, <2>4, <2>5, SeqEqual
<1> QED
  BY <1>2, <1>4, <1>5

\* A part that is another sequence.
LEMMA PartIs ==
  ASSUME NEW s \in Seq(Records), NEW h \in Seq(Records), NEW m \in Nat, Len(s) = m + Len(h),
         \A i \in 1 .. Len(h) : s[m + i] = h[i]
  PROVE  SubSeq(s, m + 1, Len(s)) = h
<1>1. PICK n : n = Len(h)
  OBVIOUS
<1>2. n \in Nat /\ Len(s) = m + n
  BY <1>1
<1>3. \A i \in (m + 1) .. (m + n) : s[i] \in Records
  BY <1>2
<1>4. m + 1 \in Int /\ m + n \in Int
  BY <1>2
<1>5. PICK t : t = SubSeq(s, m + 1, m + n)
  OBVIOUS
<1>6. /\ t \in Seq(Records) /\ Len(t) = IF m + 1 <= m + n THEN (m + n) - (m + 1) + 1 ELSE 0
      /\ \A i \in 1 .. ((m + n) - (m + 1) + 1) : t[i] = s[(m + 1) + i - 1]
  BY <1>3, <1>4, <1>5, SubSeqProperties
<1>7. Len(t) = n
  BY <1>2, <1>6
<1>8. \A i \in 1 .. n : t[i] = h[i]
  <2>1. SUFFICES ASSUME NEW i \in 1 .. n PROVE t[i] = h[i]
    OBVIOUS
  <2>2. i \in 1 .. ((m + n) - (m + 1) + 1) /\ (m + 1) + i - 1 = m + i
    BY <1>2
  <2> QED
    BY <1>1, <1>6, <2>2
<1> QED
  BY <1>1, <1>2, <1>5, <1>6, <1>7, <1>8, SeqEqual

\* While the log is not given up, what the control plane stored and what the
\* journal holds beyond it is Log.
LEMMA LogOutstanding ==
  ASSUME Rows, SegmentRows, Stored, Kept
  PROVE  /\ slot.acked <= Len(server.stored)
         /\ IsPrefix(SubSeq(server.stored, slot.acked + 1, Len(server.stored)), Frames(slot.segs))
         /\ server.stored \o Outstanding = Log
<1>1. PICK l, m, f : l = server.stored /\ m = slot.acked /\ f = Frames(slot.segs)
  OBVIOUS
<1>2. l \in Seq(Records) /\ m \in Nat /\ f \in Seq(Records) /\ slot.segs \in Seq(Segments)
  BY <1>1, LogParts, ObjectsType
<1>3. CASE Len(l) = m
  <2>1. SubSeq(l, m + 1, Len(l)) = <<>>
    <3>1. m + 1 \in Int /\ m \in Int /\ m < m + 1
      BY <1>2
    <3>2. SubSeq(l, m + 1, m) = <<>>
      BY <3>1, SubSeqEmpty
    <3> QED
      BY <1>3, <3>2
  <2>2. IsPrefix(<<>>, f)
    <3>1. Len(<<>>) = 0 /\ Len(f) \in Nat
      BY <1>2
    <3>2. 0 <= Len(f)
      BY <3>1
    <3>3. ASSUME NEW s PROVE SubSeq(s, 1, 0) = <<>>
      BY SubSeqEmpty
    <3> QED
      BY <3>1, <3>2, <3>3 DEF IsPrefix
  <2>3. Outstanding = f
    <3>1. Len(l) - m + 1 = 1
      BY <1>2, <1>3
    <3>2. SubSeq(f, 1, Len(f)) = f
      BY <1>2, SubSeqFull
    <3>3. Outstanding = SubSeq(f, Len(l) - m + 1, Len(f))
      BY <1>1 DEF Outstanding
    <3> QED
      BY <3>1, <3>2, <3>3
  <2>4. m <= Len(l)
    BY <1>2, <1>3
  <2> QED
    BY <1>1, <1>3, <2>1, <2>2, <2>3, <2>4 DEF Log, Unstored
<1>4. CASE Len(l) # m
  <2>1. HeadStored
    BY <1>1, <1>4 DEF Stored
  <2>2. PICK h, t : h = Head(slot.segs).obj /\ t = Frames(Tail(slot.segs))
    OBVIOUS
  <2>3. slot.segs # <<>> /\ Len(l) = m + Len(h) /\ \A i \in 1 .. Len(h) : l[m + i] = h[i]
    BY <1>1, <2>1, <2>2 DEF HeadStored
  <2>4. h \in Seq(Records) /\ Len(h) \in Nat
    BY <2>2, <2>3, HeadLength
  <2>5. t \in Seq(Records)
    <3>1. Tail(slot.segs) \in Seq(Segments)
      BY <1>2, <2>3
    <3> QED
      BY <2>2, <3>1, ObjectsType
  <2>6. f = h \o t
    BY <1>1, <1>2, <2>2, <2>3, FramesHead
  <2>7. SubSeq(l, m + 1, Len(l)) = h
    BY <1>2, <2>3, <2>4, PartIs
  <2>8. /\ SubSeq(f, Len(h) + 1, Len(h) + Len(t)) = t /\ SubSeq(f, 1, Len(h)) = h
        /\ SubSeq(h, 1, Len(h)) = h
    BY <2>4, <2>5, <2>6, PartOf, SubSeqFull
  <2>9. Len(f) = Len(h) + Len(t) /\ Len(t) \in Nat
    BY <2>4, <2>5, <2>6
  <2>10. IsPrefix(h, f)
    <3>1. Len(h) <= Len(f)
      BY <2>4, <2>9
    <3> QED
      BY <2>8, <3>1 DEF IsPrefix
  <2>11. Outstanding = t
    <3>1. Len(l) - m + 1 = Len(h) + 1
      BY <1>2, <2>3, <2>4
    <3>2. Outstanding = SubSeq(f, Len(l) - m + 1, Len(f))
      BY <1>1 DEF Outstanding
    <3> QED
      BY <2>8, <2>9, <3>1, <3>2
  <2>12. m <= Len(l)
    BY <1>2, <2>3, <2>4
  <2> QED
    BY <1>1, <1>4, <2>2, <2>7, <2>10, <2>11, <2>12 DEF Log, Unstored
<1> QED
  BY <1>3, <1>4

\* The log is intact: what the control plane stored, followed by what the journal
\* still holds, is in the order of emission and has every record that was
\* reported durable, whatever is retried, acknowledged late, sealed under an
\* emission or lost with the process (emit_log_serialized, flush_log_batch,
\* handle_log_batch).
THEOREM LogsIntact == Spec => []LogIntact
<1>1. Init => SlotInvariant
  BY SlotInvariantInit
<1>2. SlotInvariant /\ [Next]_vars => SlotInvariant'
  BY SlotInvariantStep
<1>3. SlotInvariant => LogIntact
  <2>1. SUFFICES ASSUME SlotInvariant, slot.held \/ ~slot.orphan
                 PROVE  /\ slot.acked <= Len(server.stored)
                        /\ IsPrefix(SubSeq(server.stored, slot.acked + 1, Len(server.stored)), Frames(slot.segs))
                        /\ Increasing(server.stored \o Outstanding)
                        /\ tally.told \subseteq Range(server.stored \o Outstanding)
    BY DEF LogIntact
  <2>2. Kept /\ Rows /\ SegmentRows /\ Stored /\ LogRows
    BY <2>1 DEF SlotInvariant, Recoverable, Conduct, Kept
  <2>3. Increasing(Log) /\ tally.told \subseteq Range(Log)
    BY <2>2 DEF LogRows
  <2> QED
    BY <2>2, <2>3, LogOutstanding
<1> QED
  BY <1>1, <1>2, <1>3, PTL DEF Spec

\* The result comes last: the control plane has it only with the whole log, and
\* when no sandbox is left (finish_terminal_slot_delivery).
THEOREM ResultsLast == Spec => []ResultLast
<1>1. Init => SlotInvariant
  BY SlotInvariantInit
<1>2. SlotInvariant /\ [Next]_vars => SlotInvariant'
  BY SlotInvariantStep
<1>3. SlotInvariant => ResultLast
  BY DEF SlotInvariant, Concluded, ResultLast
<1> QED
  BY <1>1, <1>2, <1>3, PTL DEF Spec

\* A log batch is refused only when the same batch is stored or the attempt is
\* no longer the runner's: the runner never sends a gap, an overlap or anything
\* after the end of the stream (lock_runner_log_position).
THEOREM RefusalsAreExplained == Spec => []RefusalsExplained
<1>1. Init => SlotInvariant
  BY SlotInvariantInit
<1>2. SlotInvariant /\ [Next]_vars => SlotInvariant'
  BY SlotInvariantStep
<1>3. SlotInvariant => RefusalsExplained
  BY DEF SlotInvariant
<1> QED
  BY <1>1, <1>2, <1>3, PTL DEF Spec
=============================================================================
