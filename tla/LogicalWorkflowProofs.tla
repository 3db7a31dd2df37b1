----------------------- MODULE LogicalWorkflowProofs -----------------------
(***************************************************************************)
(* Machine-checked proofs about LogicalWorkflow, for any number of workers *)
(* and any plans, matrices and calls.                                      *)
(***************************************************************************)
EXTENDS LogicalWorkflow, WellFoundedInduction, TLAPS

-----------------------------------------------------------------------------
(* The plan and the conclusions.                                           *)

\* What a compiled plan guarantees.
LEMMA ShapeType ==
  ASSUME LWTypeOK
  PROVE  /\ shape.root \subseteq Jobs /\ carried \subseteq Jobs
         /\ Cells \subseteq Instances
         /\ \A i \in Cells : JobOf(i) \in Jobs /\ Steps(JobOf(i))
         /\ \A j \in Jobs : Needs(j) \subseteq Jobs /\ shape.callees[j] \subseteq Jobs
  BY GraphAssumption DEF LWTypeOK, Cells, JobOf, Needs, Steps

\* The bounds and the conclusions of attempts.
LEMMA Bounds == /\ MaxRounds \in Nat \ {0} /\ MaxFaults \in Nat
                /\ Conclusions \subseteq {"success", "failure", "cancelled"}
  BY GraphAssumption

\* The aggregate of conclusions is the first in the order of severity: it is
\* one of the five, it is a success or a skip only when nothing worse occurs,
\* and it is a failure when a failure occurs.
LEMMA AggregateOf ==
  ASSUME NEW S
  PROVE  /\ Aggregate(S) \in Final
         /\ Aggregate(S) \in {"success", "skipped"} =>
               "failure" \notin S /\ "timed_out" \notin S /\ "cancelled" \notin S
         /\ "failure" \in S => Aggregate(S) = "failure"
<1> DEFINE P(k) == /\ Severity[k] \in S \/ k = 5
                   /\ \A m \in 1..(k - 1) : Severity[m] \notin S
           worst == CHOOSE k \in 1..5 : P(k)
<1>1. /\ Severity[1] = "failure" /\ Severity[2] = "timed_out" /\ Severity[3] = "cancelled"
      /\ Severity[4] = "success" /\ Severity[5] = "skipped"
  BY DEF Severity
<1>2. \E k \in 1..5 : P(k)
  <2>1. CASE Severity[1] \in S
    <3>1. P(1)
      BY <2>1
    <3> QED
      BY <3>1
  <2>2. CASE Severity[1] \notin S /\ Severity[2] \in S
    <3>1. P(2)
      BY <2>2
    <3> QED
      BY <3>1
  <2>3. CASE Severity[1] \notin S /\ Severity[2] \notin S /\ Severity[3] \in S
    <3>1. P(3)
      BY <2>3
    <3> QED
      BY <3>1
  <2>4. CASE Severity[1] \notin S /\ Severity[2] \notin S /\ Severity[3] \notin S /\ Severity[4] \in S
    <3>1. P(4)
      BY <2>4
    <3> QED
      BY <3>1
  <2>5. CASE Severity[1] \notin S /\ Severity[2] \notin S /\ Severity[3] \notin S /\ Severity[4] \notin S
    <3>1. P(5)
      BY <2>5
    <3> QED
      BY <3>1
  <2> QED
    BY <2>1, <2>2, <2>3, <2>4, <2>5
<1>3. worst \in 1..5 /\ P(worst)
  BY <1>2
<1>4. Aggregate(S) = Severity[worst]
  BY DEF Aggregate
<1> HIDE DEF worst
<1>5. /\ worst > 1 => "failure" \notin S
      /\ worst > 2 => "timed_out" \notin S
      /\ worst > 3 => "cancelled" \notin S
  BY <1>1, <1>3
<1>6. worst > 3 \/ Severity[worst] \notin {"success", "skipped"}
  BY <1>1, <1>3
<1>7. "failure" \in S => worst = 1
  BY <1>3, <1>5
<1> QED
  BY <1>1, <1>3, <1>4, <1>5, <1>6, <1>7 DEF Final

\* The conclusions.
LEMMA FinalConclusions == Final = {"failure", "timed_out", "cancelled", "success", "skipped"}
  BY DEF Final, Severity

\* A conclusion ends a job.
LEMMA TerminalState ==
  ASSUME NEW c \in Final
  PROVE  TerminalJobState(c) \in {"completed", "skipped", "cancelled", "failed"}
  BY FinalConclusions DEF TerminalJobState

-----------------------------------------------------------------------------
(* Types.                                                                  *)

\* The rows of claims and the pieces of work are those of the plan.
LEMMA IdsOf ==
  /\ \A j \in Jobs : {<<"prep", j>>, <<"act", j>>, <<"jres", j>>} \subseteq Ids
  /\ \A i \in Instances : {<<"mat", i>>, <<"ires", i>>} \subseteq Ids
  /\ Root \in Ids /\ Free \notin Ids
  BY DEF Ids, Root, Free

\* What a worker has in hand.
Hands == [id : Ids \cup {Free}, gen : Nat, due : BOOLEAN,
          stage : {"idle", "held", "renewing", "wrote", "refreshed"}]

\* Taking a claim keeps the claim rows and what workers hold well typed.
LEMMA TakeType ==
  ASSUME LWTypeOK, NEW w \in Workers, NEW id \in Ids, Take(w, id)
  PROVE  /\ claim' \in [Ids -> [state : {"none", "held", "done"}, gen : Nat, live : BOOLEAN]]
         /\ hold' \in [Workers -> Hands]
  BY DEF LWTypeOK, Take, Taken, Hands

\* A worker with empty hands.
LEMMA DropType ==
  ASSUME LWTypeOK, NEW w \in Workers, Drop(w)
  PROVE  hold' \in [Workers -> Hands]
<1>1. Nothing \in Hands /\ hold \in [Workers -> Hands]
  BY DEF Nothing, Hands, LWTypeOK
<1> QED
  BY <1>1 DEF Drop

\* So does finishing the work of a claim.
LEMMA FinishType ==
  ASSUME LWTypeOK, NEW w \in Workers, hold[w].id \in Ids, Finish(w)
  PROVE  /\ claim' \in [Ids -> [state : {"none", "held", "done"}, gen : Nat, live : BOOLEAN]]
         /\ hold' \in [Workers -> Hands]
         /\ faults' \in 0..MaxFaults
<1> USE DEF LWTypeOK
<1>1. claim' \in [Ids -> [state : {"none", "held", "done"}, gen : Nat, live : BOOLEAN]]
  BY DEF Finish
<1>2. faults' \in 0..MaxFaults
  BY Bounds DEF Finish, Fault
<1>3. hold' \in [Workers -> Hands]
  BY DropType DEF Finish, Hands
<1> QED
  BY <1>1, <1>2, <1>3

\* Every step keeps every column within its values.
LEMMA LWTypeStep ==
  ASSUME LWTypeOK, [LWNext]_lwVars
  PROVE  LWTypeOK'
<1> USE DEF graph, work, due
<1>1. /\ shape.root \subseteq Jobs /\ carried \subseteq Jobs /\ Cells \subseteq Instances
      /\ \A i \in Cells : JobOf(i) \in Jobs
      /\ \A j \in Jobs : Needs(j) \subseteq Jobs /\ shape.callees[j] \subseteq Jobs
  BY ShapeType
<1>2. hold \in [Workers -> Hands]
  BY DEF LWTypeOK, Hands
<1>3. ASSUME NEW w \in Workers, NEW j \in Jobs, ClaimOrchestration(w, j) PROVE LWTypeOK'
  <2>1. Take(w, <<"prep", j>>) \/ Take(w, <<"act", j>>)
    BY <1>3 DEF ClaimOrchestration
  <2>2. job' \in [Jobs -> JobStates]
    BY <1>3 DEF ClaimOrchestration, LWTypeOK, JobStates
  <2> QED
    BY <1>3, <2>1, <2>2, IdsOf, TakeType DEF ClaimOrchestration, LWTypeOK, Hands
<1>4. ASSUME NEW w \in Workers, NEW j \in Jobs, BindPreparation(w, j) PROVE LWTypeOK'
  BY <1>4, IdsOf, FinishType DEF BindPreparation, Holds, LWTypeOK, Hands
<1>5. ASSUME NEW w \in Workers, NEW j \in Jobs, NEW matched, PublishActivation(w, j, matched)
      PROVE  LWTypeOK'
  <2>1. publication' \in [Jobs -> {"none", "matched", "unmatched"}] /\ job' \in [Jobs -> JobStates]
    BY <1>5 DEF PublishActivation, LWTypeOK, JobStates
  <2>2. jdue' \subseteq Jobs
    BY <1>5 DEF PublishActivation, Refreshed, LWTypeOK
  <2>8. Finish(w) /\ hold[w].id \in Ids
    BY <1>5, IdsOf DEF PublishActivation, Holds
  <2>9. /\ claim' \in [Ids -> [state : {"none", "held", "done"}, gen : Nat, live : BOOLEAN]]
        /\ hold' \in [Workers -> Hands] /\ faults' \in 0..MaxFaults
    BY <2>8, FinishType
  <2> QED
    BY <1>5, <2>1, <2>2, <2>9 DEF PublishActivation, LWTypeOK, Hands
<1>6. ASSUME NEW w \in Workers, NEW j \in Jobs, ClaimJobResult(w, j) PROVE LWTypeOK'
  <2>1. jdue' \subseteq Jobs /\ quarantined' \subseteq Ids
    <3>1. quarantined \cup {<<"jres", j>>} \subseteq Ids
      BY IdsOf DEF LWTypeOK
    <3> QED
      BY <1>6, <3>1 DEF ClaimJobResult, Refreshed, LWTypeOK
  <2> QED
    BY <1>6, <2>1, IdsOf, TakeType DEF ClaimJobResult, LWTypeOK, Hands
<1>7. ASSUME NEW w \in Workers, NEW j \in Jobs, CommitJobResult(w, j) PROVE LWTypeOK'
  <2>1. JobConclusion(j) \in Final
    BY AggregateOf DEF JobConclusion
  <2>2. TerminalJobState(JobConclusion(j)) \in JobStates
    BY <2>1, TerminalState DEF JobStates
  <2>3. result' \in [Jobs -> Final \cup {"none"}] /\ job' \in [Jobs -> JobStates]
    BY <1>7, <2>1, <2>2 DEF CommitJobResult, LWTypeOK
  <2>4. jdue' \subseteq Jobs
    BY <1>7 DEF CommitJobResult, LWTypeOK
  <2>8. Finish(w) /\ hold[w].id \in Ids
    BY <1>7, IdsOf DEF CommitJobResult, Holds
  <2>9. /\ claim' \in [Ids -> [state : {"none", "held", "done"}, gen : Nat, live : BOOLEAN]]
        /\ hold' \in [Workers -> Hands] /\ faults' \in 0..MaxFaults
    BY <2>8, FinishType
  <2> QED
    BY <1>7, <2>3, <2>4, <2>9 DEF CommitJobResult, LWTypeOK, Hands
<1>8. ASSUME NEW w \in Workers, NEW i \in Cells, ClaimMaterialization(w, i) PROVE LWTypeOK'
  BY <1>1, <1>8, IdsOf, TakeType DEF ClaimMaterialization, LWTypeOK, Hands
<1>9. ASSUME NEW w \in Workers, NEW i \in Cells, CommitMaterialization(w, i) PROVE LWTypeOK'
  <2>1. concrete' \in [Instances -> Nat]
        /\ attempt' \in [Instances -> Final \cup {"none", "open", "invalid"}]
    BY <1>1, <1>9 DEF CommitMaterialization, LWTypeOK
  <2>8. Finish(w) /\ hold[w].id \in Ids
    BY <1>1, <1>9, IdsOf DEF CommitMaterialization, Holds
  <2>9. /\ claim' \in [Ids -> [state : {"none", "held", "done"}, gen : Nat, live : BOOLEAN]]
        /\ hold' \in [Workers -> Hands] /\ faults' \in 0..MaxFaults
    BY <2>8, FinishType
  <2> QED
    BY <1>1, <1>9, <2>1, <2>9 DEF CommitMaterialization, LWTypeOK, Hands
<1>10. ASSUME NEW w \in Workers, NEW i \in Cells, ClaimInstanceResult(w, i) PROVE LWTypeOK'
  <2>1. jdue' \subseteq Jobs /\ quarantined' \subseteq Ids
    <3>1. quarantined \cup {<<"ires", i>>} \subseteq Ids
      BY <1>1, IdsOf DEF LWTypeOK
    <3> QED
      BY <1>1, <1>10, <3>1 DEF ClaimInstanceResult, Refreshed, LWTypeOK
  <2> QED
    BY <1>1, <1>10, <2>1, IdsOf, TakeType DEF ClaimInstanceResult, LWTypeOK, Hands
<1>11. ASSUME NEW w \in Workers, NEW i \in Cells, WriteInstanceResult(w, i) PROVE LWTypeOK'
  <2>1. hold' = [hold EXCEPT ![w].stage = "wrote"]
    BY <1>11 DEF WriteInstanceResult
  <2>2. hold' \in [Workers -> Hands]
    BY <1>2, <2>1 DEF Hands
  <2> QED
    BY <1>11, <2>2 DEF WriteInstanceResult, LWTypeOK, Hands
<1>12. ASSUME NEW w \in Workers, NEW i \in Cells, RefreshAfterWrite(w, i) PROVE LWTypeOK'
  <2>1. JobReady(JobOf(i), FinalInstances \cup {i}) \in BOOLEAN
    BY DEF JobReady
  <2>2. hold' \in [Workers -> Hands]
    BY <1>2, <1>12, <2>1, ZenonT(60) DEF RefreshAfterWrite, Hands
  <2>3. locked' \in [Jobs -> Ids \cup {Free}]
    BY <1>1, <1>2, <1>12 DEF RefreshAfterWrite, LWTypeOK, Hands
  <2> QED
    BY <1>12, <2>2, <2>3 DEF RefreshAfterWrite, LWTypeOK, Hands
<1>13. ASSUME NEW w \in Workers, NEW i \in Cells, CommitInstanceResult(w, i) PROVE LWTypeOK'
  <2>1. claim' \in [Ids -> [state : {"none", "held", "done"}, gen : Nat, live : BOOLEAN]]
    <3> DEFINE row == [claim[<<"ires", i>>] EXCEPT !.state = "done"]
    <3>1. row \in [state : {"none", "held", "done"}, gen : Nat, live : BOOLEAN]
      <4>1. claim[<<"ires", i>>] \in [state : {"none", "held", "done"}, gen : Nat, live : BOOLEAN]
        BY <1>1, IdsOf DEF LWTypeOK
      <4> QED
        BY <4>1
    <3>2. claim' = [claim EXCEPT ![<<"ires", i>>] = row]
      BY <1>13 DEF CommitInstanceResult
    <3> HIDE DEF row
    <3> QED
      BY <3>1, <3>2 DEF LWTypeOK
  <2>2. jdue' \subseteq Jobs /\ idue' \subseteq Instances /\ locked' \in [Jobs -> Ids \cup {Free}]
    BY <1>1, <1>13 DEF CommitInstanceResult, Refreshed, LWTypeOK
  <2> QED
    BY <1>13, <2>1, <2>2, DropType DEF CommitInstanceResult, LWTypeOK, Hands
<1>14. ASSUME NEW w \in Workers, ClaimRunFinalization(w) PROVE LWTypeOK'
  BY <1>14, IdsOf, TakeType DEF ClaimRunFinalization, LWTypeOK, Hands
<1>15. ASSUME NEW w \in Workers, CommitRunFinalization(w) PROVE LWTypeOK'
  BY <1>15, IdsOf, FinishType, AggregateOf DEF CommitRunFinalization, Holds, LWTypeOK, Hands
<1>16. ASSUME NEW w \in Workers, ReplayRenew(w) PROVE LWTypeOK'
  <2>1. hold' \in [Workers -> Hands]
    BY <1>2, <1>16 DEF ReplayRenew, Hands
  <2> QED
    BY <1>16, <2>1 DEF ReplayRenew, LWTypeOK, Hands
<1>17. ASSUME NEW w \in Workers, Forget(w) PROVE LWTypeOK'
  <2>1. locked' \in [Jobs -> Ids \cup {Free}]
    BY <1>17 DEF Forget, LWTypeOK
  <2>2. faults' \in 0..MaxFaults
    BY <1>17, Bounds DEF Forget, Fault, LWTypeOK
  <2> QED
    BY <1>17, <2>1, <2>2, DropType DEF Forget, LWTypeOK, Hands
<1>18. ASSUME NEW w \in Workers, Renew(w) PROVE LWTypeOK'
  <2>1. hold[w].id \in Ids
    BY <1>2, <1>18 DEF Renew, Hands, Free
  <2>2. claim' \in [Ids -> [state : {"none", "held", "done"}, gen : Nat, live : BOOLEAN]]
    <3> DEFINE row == [claim[hold[w].id] EXCEPT !.gen = @ + 1]
    <3>1. row \in [state : {"none", "held", "done"}, gen : Nat, live : BOOLEAN]
      BY <2>1 DEF LWTypeOK
    <3>2. claim' = [claim EXCEPT ![hold[w].id] = row]
      BY <1>18 DEF Renew
    <3> HIDE DEF row
    <3> QED
      BY <2>1, <3>1, <3>2 DEF LWTypeOK
  <2>3. hold' \in [Workers -> Hands] /\ faults' \in 0..MaxFaults
    BY <1>2, <1>18, Bounds DEF Renew, Hands, Fault, LWTypeOK
  <2> QED
    BY <1>18, <2>2, <2>3 DEF Renew, LWTypeOK, Hands
<1>19. ASSUME NEW w \in Workers, Quarantine(w) PROVE LWTypeOK'
  <2>1. hold[w].id \in Ids
    BY <1>2, <1>19 DEF Quarantine, Hands
  <2>2. QuarantineRow(hold[w].id) \in Ids
    BY <2>1 DEF QuarantineRow, Ids, Root
  <2>3. faults' \in 0..MaxFaults
    BY <1>19, Bounds DEF Quarantine, Fault, LWTypeOK
  <2> QED
    BY <1>19, <2>2, <2>3, DropType DEF Quarantine, LWTypeOK, Hands
<1>20. ASSUME NEW id \in Ids, Expire(id) PROVE LWTypeOK'
  <2>1. faults' \in 0..MaxFaults
    BY <1>20, Bounds DEF Expire, Fault, LWTypeOK
  <2>2. claim' \in [Ids -> [state : {"none", "held", "done"}, gen : Nat, live : BOOLEAN]]
    <3> DEFINE row == [claim[id] EXCEPT !.live = FALSE]
    <3>1. row \in [state : {"none", "held", "done"}, gen : Nat, live : BOOLEAN]
      <4>1. claim[id] \in [state : {"none", "held", "done"}, gen : Nat, live : BOOLEAN]
        BY DEF LWTypeOK
      <4> QED
        BY <4>1, Zenon
    <3>2. claim' = [claim EXCEPT ![id] = row]
      BY <1>20 DEF Expire
    <3> HIDE DEF row
    <3> QED
      BY <3>1, <3>2 DEF LWTypeOK
  <2> QED
    BY <1>20, <2>1, <2>2 DEF Expire, LWTypeOK
<1>21. ASSUME NEW i \in Cells, NEW c \in Conclusions, Conclude(i, c) PROVE LWTypeOK'
  <2>1. attempt' \in [Instances -> Final \cup {"none", "open", "invalid"}] /\ idue' \subseteq Instances
    BY <1>1, <1>21, Bounds, FinalConclusions DEF Conclude, LWTypeOK
  <2> QED
    BY <1>21, <2>1 DEF Conclude, LWTypeOK
<1>22. ASSUME NEW i \in Cells, FailInvalid(i) PROVE LWTypeOK'
  <2>1. faults' \in 0..MaxFaults
    BY <1>22, Bounds DEF FailInvalid, Fault, LWTypeOK
  <2> QED
    BY <1>1, <1>22, <2>1 DEF FailInvalid, LWTypeOK
<1>23. ASSUME NEW c \in Jobs, NEW matched, PublishCall(c, matched) PROVE LWTypeOK'
  <2>1. publication' \in [Jobs -> {"none", "matched", "unmatched"}] /\ job' \in [Jobs -> JobStates]
    BY <1>23 DEF PublishCall, LWTypeOK, JobStates
  <2> QED
    BY <1>23, <2>1 DEF PublishCall, LWTypeOK
<1>24. ASSUME NEW c \in Jobs, CompleteCall(c) PROVE LWTypeOK'
  <2> DEFINE verdict == IF publication[c] = "matched"
                        THEN Aggregate({result[j] : j \in shape.callees[c]}) ELSE "skipped"
  <2>1. verdict \in Final
    BY AggregateOf, FinalConclusions
  <2>2. TerminalJobState(verdict) \in JobStates
    BY <2>1, TerminalState DEF JobStates
  <2>3. result' = [result EXCEPT ![c] = verdict] /\ job' = [job EXCEPT ![c] = TerminalJobState(verdict)]
    BY <1>24 DEF CompleteCall
  <2> HIDE DEF verdict
  <2>4. result' \in [Jobs -> Final \cup {"none"}] /\ job' \in [Jobs -> JobStates]
    BY <2>1, <2>2, <2>3 DEF LWTypeOK
  <2>5. claim' \in [Ids -> [state : {"none", "held", "done"}, gen : Nat, live : BOOLEAN]]
    BY <1>24, IdsOf DEF CompleteCall, LWTypeOK
  <2>6. jdue' \subseteq Jobs
    BY <1>24 DEF CompleteCall, LWTypeOK
  <2> QED
    BY <1>24, <2>4, <2>5, <2>6 DEF CompleteCall, LWTypeOK
<1>25. ASSUME NEW queued \in SUBSET Cells, Preempt(queued) PROVE LWTypeOK'
  <2>1. attempt' \in [Instances -> Final \cup {"none", "open", "invalid"}]
    BY <1>25, FinalConclusions DEF Preempt, LWTypeOK
  <2>2. job' \in [Jobs -> JobStates]
    BY <1>25 DEF Preempt, LWTypeOK, JobStates
  <2> QED
    BY <1>1, <1>25, <2>1, <2>2 DEF Preempt, LWTypeOK
<1>26. ASSUME NEW selected, Rerun(selected) PROVE LWTypeOK'
  <2>1. round' \in 1..MaxRounds /\ faults' \in 0..MaxFaults
    BY <1>26, Bounds DEF Rerun, Fault, LWTypeOK
  <2>2. job' \in [Jobs -> JobStates] /\ result' \in [Jobs -> Final \cup {"none"}]
    BY <1>26 DEF Rerun, LWTypeOK, JobStates
  <2>3. hold' \in [Workers -> Hands]
    BY <1>26 DEF Rerun, Nothing, Hands
  <2>4. claim' \in [Ids -> [state : {"none", "held", "done"}, gen : Nat, live : BOOLEAN]]
    BY <1>26 DEF Rerun, Unclaimed
  <2> QED
    BY <1>26, <2>1, <2>2, <2>3, <2>4 DEF Rerun, LWTypeOK, Hands
<1>27. CASE UNCHANGED lwVars
  BY <1>27 DEF lwVars, LWTypeOK
<1> QED
  BY <1>3, <1>4, <1>5, <1>6, <1>7, <1>8, <1>9, <1>10, <1>11, <1>12, <1>13, <1>14, <1>15, <1>16,
     <1>17, <1>18, <1>19, <1>20, <1>21, <1>22, <1>23, <1>24, <1>25, <1>26, <1>27
     DEF LWNext, WorkerStep, CallStep
-----------------------------------------------------------------------------
(* The invariants that make the properties inductive.                      *)

Terminal == {"completed", "skipped", "cancelled", "failed"}

\* The latest generation a worker can learn that it owns.
Known(w) == IF hold[w].stage = "renewing" THEN hold[w].gen + 1 ELSE hold[w].gen

\* A worker has in hand a claim that was taken, no generation of which is known
\* to two workers.  Nobody claims the result of a call.
Custody ==
  /\ \A w \in Workers :
        /\ hold[w].id = Free => hold[w].stage = "idle"
        /\ hold[w].id # Free => /\ Known(w) <= claim[hold[w].id].gen
                                /\ claim[hold[w].id].state # "none"
        /\ \A j \in Jobs : hold[w].id = <<"jres", j>> => Steps(j)
  /\ \A v, w \in Workers :
        v # w /\ hold[v].id = hold[w].id /\ hold[v].id # Free => Known(v) # Known(w)

\* Nothing of the job exists.
Untouched(j) ==
  /\ job[j] = "absent" /\ publication[j] = "none" /\ result[j] = "none"
  /\ \A kind \in {"prep", "act", "jres"} : claim[<<kind, j>>].state = "none"

AllSteps == \A r \in shape.root : Steps(r)

\* A job of a called workflow does not exist before the call is published.
Reach ==
  /\ \A j \in Jobs \ shape.root : (\A c \in CallsOf(j) : publication[c] # "matched") => Untouched(j)
  /\ AllSteps => \A j \in Jobs \ shape.root : Untouched(j)

\* A carried job has its result and nobody works on it.
CarriedKept ==
  /\ carried # {} => AllSteps
  /\ \A j \in carried :
        /\ job[j] \in Terminal /\ publication[j] = "none" /\ result[j] # "none"
        /\ \A kind \in {"prep", "act", "jres"} : claim[<<kind, j>>].state = "none"

\* Preparation precedes activation, and the prerequisites precede both.
OrderedAt(j) ==
  /\ job[j] = "activating" \/ claim[<<"act", j>>].state # "none" => Done(<<"prep", j>>)
  /\ claim[<<"prep", j>>].state # "none" =>
        /\ Steps(j) /\ NeedsReady(j)
        /\ \A c \in CallsOf(j) : publication[c] = "matched"
  /\ Done(<<"act", j>>) <=> Steps(j) /\ publication[j] # "none"
  /\ ~Steps(j) /\ publication[j] # "none" => \A p \in Needs(j) : Done(<<"jres", p>>)
  /\ job[j] = "pending" => publication[j] = "none"

Ordered == \A j \in Jobs : OrderedAt(j)

\* What a materialized instance and its due row rest on.
ProjectedAt(i) ==
  /\ concrete[i] = IF Done(<<"mat", i>>) THEN 1 ELSE 0
  /\ attempt[i] # "none" <=> Done(<<"mat", i>>)
  /\ claim[<<"mat", i>>].state # "none" => i \in Cells /\ publication[JobOf(i)] = "matched"
  /\ claim[<<"ires", i>>].state # "none" => attempt[i] \in Final
  /\ i \in idue => attempt[i] \in Final /\ ~Done(<<"ires", i>>)

Projected == \A i \in Instances : ProjectedAt(i)

\* What a job result rests on.
RecordedAt(j) ==
  /\ Done(<<"jres", j>>) =>
        /\ publication[j] # "none" /\ result[j] # "none" /\ job[j] \in Terminal
        /\ Published(j) \subseteq FinalInstances
        /\ ~Steps(j) => CallReady(j)
        /\ \A d \in shape.callees[j] : result[d] = "failure" => result[j] = "failure"
  /\ result[j] # "none" => Done(<<"jres", j>>) \/ j \in carried
  /\ result[j] = "success" /\ j \notin carried =>
        \A i \in Published(j) : attempt[i] \in {"success", "skipped"}

Recorded == \A j \in Jobs : RecordedAt(j)

\* What a run result rests on.
Concluded ==
  /\ conclusion # "none" => run = "finalized"
  /\ run = "finalized" => \A j \in shape.root : Effective(j)
  /\ conclusion = "success" => \A j \in shape.root : result[j] \in {"success", "skipped"}

\* Two transactions never project the same instance, and one that has counted
\* the results of its job has the job row locked.
Projects(w) == hold[w].stage \in {"wrote", "refreshed"}

Locks ==
  /\ \A w \in Workers : Projects(w) =>
        \E i \in Cells : /\ hold[w].id = <<"ires", i>>
                         /\ hold[w].stage = "refreshed" => locked[JobOf(i)] = hold[w].id
  /\ \A v, w \in Workers : v # w /\ Projects(v) /\ Projects(w) => hold[v].id # hold[w].id

\* What makes a job due, apart from the results of its instances.
Ripe(j) ==
  /\ Active(j) /\ Steps(j)
  /\ job[j] \in {"activated", "skipped"}
  /\ publication[j] # "none"
  /\ ~Done(<<"jres", j>>)
  /\ \A p \in Needs(j) : Done(<<"jres", p>>)

Ready(j) == JobReady(j, FinalInstances)

\* A transaction's count of the results of its instance's job is right.
Counted(w) ==
  \A i \in Cells : hold[w].id = <<"ires", i>> =>
     (hold[w].due = TRUE <=> Ripe(JobOf(i)) /\ Published(JobOf(i)) \subseteq FinalInstances \cup {i})

\* While the run is active a count is right until its transaction ends.
Counts == Running => \A w \in Workers : hold[w].stage = "refreshed" => Counted(w)

\* While the run is active the due rows are those of the jobs with complete
\* evidence, and lead to instances whose target is open.
Due ==
  Running => /\ \A j \in Jobs : j \in jdue <=> Ready(j)
             /\ \A i \in idue : i \in Cells /\ InstanceTargetOpen(i)

-----------------------------------------------------------------------------
(* How steps change claims and hands.                                      *)

\* The step leaves the claim in the state and changes the state of no other.
ClaimTo(id, state) == \A x \in Ids : claim'[x].state = IF x = id THEN state ELSE claim[x].state

\* Taking a claim.
LEMMA TakeStates ==
  ASSUME LWTypeOK, NEW w \in Workers, NEW id \in Ids, Take(w, id)
  PROVE  /\ claim[id].state # "done"
         /\ ClaimTo(id, "held")
         /\ \A x \in Ids : x # id => claim'[x] = claim[x]
         /\ claim'[id].gen = claim[id].gen + 1 /\ claim'[id].gen \in Nat
         /\ hold[w].id = Free
         /\ \A v \in Workers : v # w => hold'[v] = hold[v]
         /\ hold'[w].id = id /\ hold'[w].stage = "held" /\ hold'[w].gen = claim[id].gen + 1
  BY DEF LWTypeOK, Take, Taken, Claimable, ClaimTo

\* Finishing the work of a claim.
LEMMA FinishStates ==
  ASSUME LWTypeOK, NEW w \in Workers, hold[w].id \in Ids, Finish(w)
  PROVE  /\ claim[hold[w].id].state = "held"
         /\ ClaimTo(hold[w].id, "done")
         /\ \A x \in Ids : claim'[x].gen = claim[x].gen
         /\ \A v \in Workers : hold'[v] = hold[v] \/ hold'[v] = Nothing
  BY DEF LWTypeOK, Finish, Fence, Drop, ClaimTo

-----------------------------------------------------------------------------
(* Custody.                                                                *)

\* A step in which workers keep what they know or drop it, and in which no
\* generation shrinks under them, keeps custody.
LEMMA CustodyFrame ==
  ASSUME LWTypeOK, LWTypeOK', Custody, shape' = shape,
         \A w \in Workers :
            \/ hold'[w] = Nothing
            \/ /\ hold'[w].id = hold[w].id
               /\ Known(w)' = Known(w)
               /\ hold[w].id = Free => hold'[w].stage = "idle",
         \A w \in Workers : hold[w].id # Free =>
            /\ claim'[hold[w].id].gen >= claim[hold[w].id].gen
            /\ claim[hold[w].id].state # "none" => claim'[hold[w].id].state # "none"
  PROVE  Custody'
<1>1. \A w \in Workers : Known(w) \in Nat /\ Known(w)' \in Nat
  BY DEF LWTypeOK, Known
<1>2. \A w \in Workers : hold'[w] = Nothing => hold'[w].id = Free /\ hold'[w].stage = "idle"
  BY DEF Nothing
<1>3. \A w \in Workers : hold'[w].id # Free =>
          hold'[w].id = hold[w].id /\ hold[w].id \in Ids /\ Known(w)' = Known(w)
  BY <1>2 DEF LWTypeOK
<1>4. \A id \in Ids : claim[id].gen \in Nat /\ claim'[id].gen \in Nat
  BY DEF LWTypeOK
<1>5. ASSUME NEW w \in Workers
      PROVE  /\ hold'[w].id = Free => hold'[w].stage = "idle"
             /\ hold'[w].id # Free => /\ Known(w)' <= claim'[hold'[w].id].gen
                                      /\ claim'[hold'[w].id].state # "none"
             /\ \A j \in Jobs : hold'[w].id = <<"jres", j>> => Steps(j)'
  <2>1. hold'[w].id = Free => hold'[w].stage = "idle"
    BY <1>2
  <2>2. hold'[w].id # Free => /\ Known(w)' <= claim'[hold'[w].id].gen
                              /\ claim'[hold'[w].id].state # "none"
    <3> SUFFICES ASSUME hold'[w].id # Free PROVE /\ Known(w)' <= claim'[hold'[w].id].gen
                                                 /\ claim'[hold'[w].id].state # "none"
      OBVIOUS
    <3>1. hold'[w].id = hold[w].id /\ hold[w].id \in Ids /\ Known(w)' = Known(w)
      BY <1>3
    <3>2. Known(w) <= claim[hold[w].id].gen /\ claim[hold[w].id].state # "none"
      BY <3>1 DEF Custody
    <3> QED
      BY <1>1, <1>4, <3>1, <3>2
  <2>3. \A j \in Jobs : hold'[w].id = <<"jres", j>> => Steps(j)'
    <3>1. \A j \in Jobs : Steps(j)' <=> Steps(j)
      BY DEF Steps
    <3> QED
      BY <1>3, <3>1, IdsOf DEF Custody
  <2> QED
    BY <2>1, <2>2, <2>3
<1>6. ASSUME NEW v \in Workers, NEW w \in Workers,
             v # w, hold'[v].id = hold'[w].id, hold'[v].id # Free
      PROVE  Known(v)' # Known(w)'
  BY <1>3, <1>6 DEF Custody
<1> QED
  BY <1>5, <1>6 DEF Custody

\* Taking a claim gives the worker a generation nobody knows.
LEMMA CustodyTake ==
  ASSUME LWTypeOK, LWTypeOK', Custody, shape' = shape, NEW w \in Workers, NEW id \in Ids, Take(w, id),
         \A j \in Jobs : id = <<"jres", j>> => Steps(j)
  PROVE  Custody'
<1>1. /\ \A x \in Ids : claim'[x].state = IF x = id THEN "held" ELSE claim[x].state
      /\ \A x \in Ids : x # id => claim'[x] = claim[x]
      /\ claim'[id].gen = claim[id].gen + 1 /\ claim[id].gen \in Nat
      /\ \A v \in Workers : v # w => hold'[v] = hold[v]
      /\ hold'[w].id = id /\ hold'[w].stage = "held" /\ hold'[w].gen = claim[id].gen + 1
  BY TakeStates DEF LWTypeOK, ClaimTo
<1>2. Known(w)' = claim[id].gen + 1
  BY <1>1 DEF Known
<1>3. \A v \in Workers : v # w => Known(v)' = Known(v)
  BY <1>1 DEF Known
<1>4. \A v \in Workers : Known(v) \in Nat /\ (hold[v].id = Free \/ hold[v].id \in Ids)
  BY DEF LWTypeOK, Known
<1>5. \A v \in Workers : v # w /\ hold[v].id = id => Known(v) < claim[id].gen + 1
  BY <1>1, <1>4, IdsOf DEF Custody
<1>6. ASSUME NEW v \in Workers
      PROVE  /\ hold'[v].id = Free => hold'[v].stage = "idle"
             /\ hold'[v].id # Free => /\ Known(v)' <= claim'[hold'[v].id].gen
                                      /\ claim'[hold'[v].id].state # "none"
             /\ \A j \in Jobs : hold'[v].id = <<"jres", j>> => Steps(j)'
  <2>1. CASE v = w
    <3>1. Known(v)' <= claim'[hold'[v].id].gen /\ claim'[hold'[v].id].state # "none"
      BY <1>1, <1>2, <2>1
    <3>2. \A j \in Jobs : Steps(j)' <=> Steps(j)
      BY DEF Steps
    <3> QED
      BY <1>1, <2>1, <3>1, <3>2, IdsOf
  <2>2. CASE v # w
    <3>1. hold'[v] = hold[v] /\ Known(v)' = Known(v)
      BY <1>1, <1>3, <2>2
    <3>2. hold[v].id = Free => hold[v].stage = "idle"
      BY DEF Custody
    <3>3. hold[v].id # Free => Known(v) <= claim[hold[v].id].gen /\ claim[hold[v].id].state # "none"
      BY DEF Custody
    <3>4. hold[v].id # Free => Known(v) <= claim'[hold[v].id].gen /\ claim'[hold[v].id].state # "none"
      BY <1>1, <1>4, <3>3
    <3>5. \A j \in Jobs : hold[v].id = <<"jres", j>> => Steps(j)
      BY DEF Custody
    <3> QED
      BY <3>1, <3>2, <3>4, <3>5 DEF Steps
  <2> QED
    BY <2>1, <2>2
<1>7. ASSUME NEW u \in Workers, NEW v \in Workers,
             u # v, hold'[u].id = hold'[v].id, hold'[u].id # Free
      PROVE  Known(u)' # Known(v)'
  <2>1. CASE u = w
    BY <1>1, <1>2, <1>3, <1>4, <1>5, <1>7, <2>1
  <2>2. CASE v = w
    BY <1>1, <1>2, <1>3, <1>4, <1>5, <1>7, <2>2
  <2>3. CASE u # w /\ v # w
    BY <1>1, <1>3, <1>7, <2>3 DEF Custody
  <2> QED
    BY <2>1, <2>2, <2>3
<1> QED
  BY <1>6, <1>7 DEF Custody

\* Every step keeps custody.
LEMMA CustodyStep ==
  ASSUME LWTypeOK, LWTypeOK', Custody, [LWNext]_lwVars
  PROVE  Custody'
<1> USE DEF graph, work, due
<1>1. /\ Cells \subseteq Instances
      /\ \A i \in Instances : <<"mat", i>> \in Ids /\ <<"ires", i>> \in Ids
      /\ \A j \in Jobs : <<"prep", j>> \in Ids /\ <<"act", j>> \in Ids /\ <<"jres", j>> \in Ids
  BY ShapeType, IdsOf
<1>2. \A w \in Workers : hold[w].id = Free => hold[w].stage = "idle"
  BY DEF Custody
<1>3. \A id \in Ids : claim[id].gen \in Nat
  BY DEF LWTypeOK
<1>4. \A w \in Workers : hold[w].id = Free \/ hold[w].id \in Ids
  BY DEF LWTypeOK
<1>5. ASSUME shape' = shape, UNCHANGED <<claim, hold>> PROVE Custody'
  BY <1>2, <1>3, <1>4, <1>5, CustodyFrame DEF Known
<1>6. ASSUME NEW w \in Workers, hold[w].id \in Ids, Finish(w), shape' = shape PROVE Custody'
  <2>1. \A x \in Ids : claim'[x].gen = claim[x].gen
                       /\ (claim[x].state # "none" => claim'[x].state # "none")
    BY <1>6, FinishStates DEF ClaimTo
  <2>2. \A v \in Workers : hold'[v] = hold[v] \/ hold'[v] = Nothing
    BY <1>6, FinishStates
  <2>3. \A v \in Workers : hold'[v] = hold[v] => Known(v)' = Known(v)
    BY DEF Known
  <2> QED
    BY <1>2, <1>3, <1>4, <1>6, <2>1, <2>2, <2>3, CustodyFrame
<1>7. ASSUME NEW w \in Workers, Drop(w), shape' = shape,
             \A x \in Ids : claim'[x].gen = claim[x].gen
                            /\ (claim[x].state # "none" => claim'[x].state # "none")
      PROVE  Custody'
  <2>2. \A v \in Workers : hold'[v] = hold[v] \/ hold'[v] = Nothing
    BY <1>7 DEF Drop, LWTypeOK
  <2>3. \A v \in Workers : hold'[v] = hold[v] => Known(v)' = Known(v)
    BY DEF Known
  <2> QED
    BY <1>2, <1>3, <1>4, <1>7, <2>2, <2>3, CustodyFrame
<1>10. ASSUME NEW w \in Workers, NEW j \in Jobs, ClaimOrchestration(w, j) PROVE Custody'
  <2>1. (Take(w, <<"prep", j>>) \/ Take(w, <<"act", j>>)) /\ Steps(j) /\ shape' = shape
    BY <1>10 DEF ClaimOrchestration
  <2> QED
    BY <1>1, <2>1, CustodyTake
<1>11. ASSUME NEW w \in Workers, NEW j \in Jobs, BindPreparation(w, j) PROVE Custody'
  BY <1>1, <1>6, <1>11 DEF BindPreparation, Holds
<1>12. ASSUME NEW w \in Workers, NEW j \in Jobs, NEW matched, PublishActivation(w, j, matched)
       PROVE  Custody'
  BY <1>1, <1>6, <1>12 DEF PublishActivation, Holds
<1>13. ASSUME NEW w \in Workers, NEW j \in Jobs, ClaimJobResult(w, j) PROVE Custody'
  <2>1. CASE JobTargetOpen(j)
    <3>1. Take(w, <<"jres", j>>) /\ Steps(j) /\ shape' = shape
      BY <1>13, <2>1 DEF ClaimJobResult, JobTargetOpen
    <3> QED
      BY <1>1, <3>1, CustodyTake
  <2>2. CASE ~JobTargetOpen(j)
    BY <1>5, <1>13, <2>2 DEF ClaimJobResult
  <2> QED
    BY <2>1, <2>2
<1>14. ASSUME NEW w \in Workers, NEW j \in Jobs, CommitJobResult(w, j) PROVE Custody'
  BY <1>1, <1>6, <1>14 DEF CommitJobResult, Holds
<1>15. ASSUME NEW w \in Workers, NEW i \in Cells, ClaimMaterialization(w, i) PROVE Custody'
  <2>1. Take(w, <<"mat", i>>) /\ shape' = shape
    BY <1>15 DEF ClaimMaterialization
  <2> QED
    BY <1>1, <2>1, CustodyTake
<1>16. ASSUME NEW w \in Workers, NEW i \in Cells, CommitMaterialization(w, i) PROVE Custody'
  BY <1>1, <1>6, <1>16 DEF CommitMaterialization, Holds
<1>17. ASSUME NEW w \in Workers, NEW i \in Cells, ClaimInstanceResult(w, i) PROVE Custody'
  <2>1. CASE InstanceTargetOpen(i)
    <3>1. Take(w, <<"ires", i>>) /\ shape' = shape
      BY <1>17, <2>1 DEF ClaimInstanceResult
    <3> QED
      BY <1>1, <3>1, CustodyTake
  <2>2. CASE ~InstanceTargetOpen(i)
    BY <1>5, <1>17, <2>2 DEF ClaimInstanceResult
  <2> QED
    BY <2>1, <2>2
<1>18. ASSUME NEW w \in Workers, shape' = shape, claim' = claim, hold[w].stage # "renewing",
              hold[w].id # Free,
              \A v \in Workers : v # w => hold'[v] = hold[v],
              hold'[w].id = hold[w].id, hold'[w].gen = hold[w].gen, hold'[w].stage # "renewing"
       PROVE  Custody'
  <2>1. \A v \in Workers : Known(v)' = Known(v)
    BY <1>18 DEF Known
  <2> QED
    BY <1>2, <1>3, <1>4, <1>18, <2>1, CustodyFrame
<1>19. ASSUME NEW w \in Workers, NEW i \in Cells, WriteInstanceResult(w, i) PROVE Custody'
  <2>1. /\ shape' = shape /\ claim' = claim /\ hold[w].stage # "renewing"
        /\ hold[w].id = <<"ires", i>>
        /\ hold' = [hold EXCEPT ![w].stage = "wrote"]
    BY <1>19 DEF WriteInstanceResult, Holds
  <2>2. /\ \A v \in Workers : v # w => hold'[v] = hold[v]
        /\ hold'[w].id = hold[w].id /\ hold'[w].gen = hold[w].gen /\ hold'[w].stage = "wrote"
    BY <2>1 DEF LWTypeOK
  <2>3. hold[w].id # Free
    BY <2>1, <1>1, IdsOf
  <2> QED
    BY <1>18, <2>1, <2>2, <2>3
<1>20. ASSUME NEW w \in Workers, NEW i \in Cells, RefreshAfterWrite(w, i) PROVE Custody'
  <2> DEFINE ready == JobReady(JobOf(i), FinalInstances \cup {i})
  <2>1. /\ shape' = shape /\ claim' = claim /\ hold[w].stage # "renewing"
        /\ hold[w].id = <<"ires", i>>
        /\ hold' = [hold EXCEPT ![w].stage = "refreshed", ![w].due = ready]
    BY <1>20 DEF RefreshAfterWrite
  <2> HIDE DEF ready
  <2>2. /\ \A v \in Workers : v # w => hold'[v] = hold[v]
        /\ hold'[w].id = hold[w].id /\ hold'[w].gen = hold[w].gen /\ hold'[w].stage = "refreshed"
    BY <2>1 DEF LWTypeOK
  <2>3. hold[w].id # Free
    BY <2>1, <1>1, IdsOf
  <2> QED
    BY <1>18, <2>1, <2>2, <2>3
<1>21. ASSUME NEW w \in Workers, NEW i \in Cells, CommitInstanceResult(w, i) PROVE Custody'
  <2>1. Drop(w) /\ shape' = shape /\ claim' = [claim EXCEPT ![hold[w].id].state = "done"]
    BY <1>21 DEF CommitInstanceResult
  <2>2. \A x \in Ids : claim'[x].gen = claim[x].gen
                       /\ (claim[x].state # "none" => claim'[x].state # "none")
    BY <2>1 DEF LWTypeOK
  <2> QED
    BY <1>7, <2>1, <2>2
<1>22. ASSUME NEW w \in Workers, ClaimRunFinalization(w) PROVE Custody'
  <2>1. Take(w, Root) /\ shape' = shape
    BY <1>22 DEF ClaimRunFinalization
  <2>2. \A j \in Jobs : Root # <<"jres", j>>
    BY DEF Root
  <2> QED
    BY <2>1, <2>2, IdsOf, CustodyTake
<1>23. ASSUME NEW w \in Workers, CommitRunFinalization(w) PROVE Custody'
  BY <1>6, <1>23, IdsOf DEF CommitRunFinalization, Holds
<1>24. ASSUME NEW w \in Workers, ReplayRenew(w) PROVE Custody'
  <2>1. /\ shape' = shape /\ claim' = claim /\ hold[w].stage = "renewing"
        /\ hold' = [hold EXCEPT ![w].stage = "held", ![w].gen = @ + 1]
    BY <1>24 DEF ReplayRenew
  <2>2. /\ \A v \in Workers : v # w => hold'[v] = hold[v]
        /\ hold'[w].id = hold[w].id /\ hold'[w].gen = hold[w].gen + 1 /\ hold'[w].stage = "held"
    BY <2>1 DEF LWTypeOK
  <2>3. Known(w)' = Known(w)
    BY <2>1, <2>2 DEF Known
  <2>4. \A v \in Workers : v # w => Known(v)' = Known(v)
    BY <2>2 DEF Known
  <2>5. hold[w].id # Free
    BY <1>2, <2>1
  <2>6. \A v \in Workers : /\ hold'[v].id = hold[v].id /\ Known(v)' = Known(v)
                           /\ hold[v].id = Free => hold'[v].stage = "idle"
    BY <1>2, <2>2, <2>3, <2>4, <2>5
  <2>7. \A v \in Workers : hold[v].id # Free =>
            /\ claim'[hold[v].id].gen >= claim[hold[v].id].gen
            /\ claim[hold[v].id].state # "none" => claim'[hold[v].id].state # "none"
    BY <1>3, <1>4, <2>1
  <2>8. shape' = shape
    BY <2>1
  <2> QED
    BY <2>6, <2>7, <2>8, CustodyFrame
<1>25. ASSUME NEW w \in Workers, Forget(w) PROVE Custody'
  BY <1>7, <1>25 DEF Forget
<1>26. ASSUME NEW w \in Workers, Renew(w) PROVE Custody'
  <2>0. hold[w].id \in Ids /\ hold[w].id # Free
    BY <1>4, <1>26 DEF Renew, Free
  <2>1. /\ shape' = shape /\ hold[w].stage = "held"
        /\ claim[hold[w].id].gen = hold[w].gen
        /\ claim' = [claim EXCEPT ![hold[w].id].gen = @ + 1]
        /\ hold' = [hold EXCEPT ![w].stage = "renewing"]
    BY <1>26 DEF Renew, Fence
  <2>2. /\ \A v \in Workers : v # w => hold'[v] = hold[v]
        /\ hold'[w].id = hold[w].id /\ hold'[w].gen = hold[w].gen /\ hold'[w].stage = "renewing"
    BY <2>1 DEF LWTypeOK
  <2>3. /\ \A x \in Ids : claim'[x].state = claim[x].state
        /\ \A x \in Ids : x # hold[w].id => claim'[x].gen = claim[x].gen
        /\ claim'[hold[w].id].gen = claim[hold[w].id].gen + 1
    BY <2>0, <2>1 DEF LWTypeOK
  <2>4. /\ Known(w)' = hold[w].gen + 1
        /\ \A v \in Workers : v # w => Known(v)' = Known(v)
        /\ \A v \in Workers : Known(v) \in Nat
    BY <2>2 DEF Known, LWTypeOK
  <2>5. \A v \in Workers : hold[v].id # Free => hold[v].id \in Ids /\ Known(v) <= claim[hold[v].id].gen
    BY <1>4 DEF Custody
  <2>6. ASSUME NEW v \in Workers
        PROVE  /\ hold'[v].id = Free => hold'[v].stage = "idle"
               /\ hold'[v].id # Free => /\ Known(v)' <= claim'[hold'[v].id].gen
                                        /\ claim'[hold'[v].id].state # "none"
               /\ \A j \in Jobs : hold'[v].id = <<"jres", j>> => Steps(j)'
    <3>1. hold'[v].id = hold[v].id
      BY <2>2
    <3>2. hold'[v].id = Free => hold'[v].stage = "idle"
      BY <2>0, <2>2, <1>2
    <3>3. hold[v].id # Free => Known(v)' <= claim'[hold[v].id].gen
      BY <1>3, <2>0, <2>1, <2>3, <2>4, <2>5
    <3>4. hold[v].id # Free => claim'[hold[v].id].state # "none"
      BY <2>3, <2>5 DEF Custody
    <3>5. \A j \in Jobs : hold[v].id = <<"jres", j>> => Steps(j)'
      BY <2>1 DEF Custody, Steps
    <3> QED
      BY <3>1, <3>2, <3>3, <3>4, <3>5
  <2>7. \A v \in Workers : v # w /\ hold[v].id = hold[w].id => Known(v) < hold[w].gen + 1
    BY <1>3, <2>0, <2>1, <2>4, <2>5
  <2>8. ASSUME NEW u \in Workers, NEW v \in Workers,
               u # v, hold'[u].id = hold'[v].id, hold'[u].id # Free
        PROVE  Known(u)' # Known(v)'
    <3>1. hold[u].id = hold[v].id /\ hold[u].id # Free
      BY <2>2, <2>8
    <3>2. Known(u) # Known(v)
      BY <2>8, <3>1 DEF Custody
    <3> QED
      BY <2>1, <2>4, <2>7, <2>8, <3>1, <3>2
  <2> QED
    BY <2>6, <2>8 DEF Custody
<1>27. ASSUME NEW w \in Workers, Quarantine(w) PROVE Custody'
  BY <1>7, <1>27 DEF Quarantine
<1>28. ASSUME NEW id \in Ids, Expire(id) PROVE Custody'
  <2>1. shape' = shape /\ hold' = hold /\ claim' = [claim EXCEPT ![id].live = FALSE]
    BY <1>28 DEF Expire
  <2>2. \A x \in Ids : claim'[x].gen = claim[x].gen /\ claim'[x].state = claim[x].state
    BY <2>1 DEF LWTypeOK
  <2>3. \A v \in Workers : Known(v)' = Known(v)
    BY <2>1 DEF Known
  <2> QED
    BY <1>2, <1>3, <1>4, <2>1, <2>2, <2>3, CustodyFrame
<1>29. ASSUME NEW i \in Cells, NEW c \in Conclusions, Conclude(i, c) PROVE Custody'
  BY <1>5, <1>29 DEF Conclude
<1>30. ASSUME NEW i \in Cells, FailInvalid(i) PROVE Custody'
  BY <1>5, <1>30 DEF FailInvalid
<1>31. ASSUME NEW c \in Jobs, NEW matched, PublishCall(c, matched) PROVE Custody'
  BY <1>5, <1>31 DEF PublishCall
<1>32. ASSUME NEW c \in Jobs, CompleteCall(c) PROVE Custody'
  <2>1. /\ shape' = shape /\ hold' = hold /\ ~Steps(c)
        /\ claim' = [claim EXCEPT ![<<"jres", c>>] = [state |-> "done", gen |-> 1, live |-> TRUE]]
    BY <1>32 DEF CompleteCall
  <2>2. \A v \in Workers : Known(v)' = Known(v) /\ hold[v].id # <<"jres", c>>
    BY <2>1 DEF Known, Custody
  <2>3. \A x \in Ids : x # <<"jres", c>> => claim'[x] = claim[x]
    BY <2>1 DEF LWTypeOK
  <2> QED
    BY <1>2, <1>3, <1>4, <2>1, <2>2, <2>3, CustodyFrame
<1>33. ASSUME NEW queued \in SUBSET Cells, Preempt(queued) PROVE Custody'
  BY <1>5, <1>33 DEF Preempt
<1>34. ASSUME NEW selected, Rerun(selected) PROVE Custody'
  <2>1. \A w \in Workers : hold'[w].id = Free /\ hold'[w].stage = "idle"
    BY <1>34 DEF Rerun, Nothing
  <2> QED
    BY <1>1, <2>1, IdsOf DEF Custody
<1>35. CASE UNCHANGED lwVars
  BY <1>5, <1>35 DEF lwVars
<1> QED
  BY <1>10, <1>11, <1>12, <1>13, <1>14, <1>15, <1>16, <1>17, <1>19, <1>20, <1>21, <1>22, <1>23,
     <1>24, <1>25, <1>26, <1>27, <1>28, <1>29, <1>30, <1>31, <1>32, <1>33, <1>34, <1>35
     DEF LWNext, WorkerStep, CallStep

-----------------------------------------------------------------------------
(* The evidence of jobs.                                                   *)

JobKinds == {"prep", "act", "jres"}
JobInv == Reach /\ CarriedKept /\ Ordered /\ Recorded /\ Concluded

\* A change of one claim of a job changes no other claim.
LEMMA OneJobClaim ==
  ASSUME NEW kind \in JobKinds, NEW j \in Jobs, NEW s \in {"held", "done"}, ClaimTo(<<kind, j>>, s)
  PROVE  /\ claim'[<<kind, j>>].state = s
         /\ \A k \in JobKinds, d \in Jobs :
               k # kind \/ d # j => claim'[<<k, d>>].state = claim[<<k, d>>].state
         /\ \A i \in Instances : /\ claim'[<<"mat", i>>].state = claim[<<"mat", i>>].state
                                 /\ claim'[<<"ires", i>>].state = claim[<<"ires", i>>].state
<1>1. \A k \in JobKinds, d \in Jobs : <<k, d>> \in Ids
  BY DEF Ids, JobKinds
<1>2. \A k \in JobKinds, d \in Jobs : <<k, d>> = <<kind, j>> => k = kind /\ d = j
  OBVIOUS
<1>3. \A i \in Instances : /\ <<"mat", i>> \in Ids /\ <<"ires", i>> \in Ids
                           /\ <<"mat", i>> # <<kind, j>> /\ <<"ires", i>> # <<kind, j>>
  BY DEF Ids, JobKinds
<1> QED
  BY <1>1, <1>2, <1>3 DEF ClaimTo

\* The jobs of one call.
LEMMA CallsUnique ==
  ASSUME LWTypeOK, NEW c \in Jobs, NEW j \in shape.callees[c]
  PROVE  j \in Jobs /\ j \notin shape.root /\ CallsOf(j) = {c} /\ ~Steps(c)
<1>1. shape \in Shapes
  BY DEF LWTypeOK
<1>2. /\ shape.callees \in [Jobs -> SUBSET Jobs]
      /\ shape.callees[c] \cap shape.root = {}
      /\ \A d \in Jobs : shape.callees[c] \cap shape.callees[d] # {} => c = d
  BY <1>1, GraphAssumption
<1> QED
  BY <1>2 DEF CallsOf, Steps

\* No job of the plan that exists is a called job of an unpublished call.
LEMMA Unpublished ==
  ASSUME LWTypeOK, Reach, NEW c \in Jobs, publication[c] # "matched", NEW j \in shape.callees[c]
  PROVE  Untouched(j)
  BY CallsUnique DEF Reach

\* A step that leaves the graph and the claims of jobs alone keeps their evidence.
LEMMA JobFrame ==
  ASSUME LWTypeOK, JobInv, UNCHANGED <<shape, graph>>,
         \A k \in JobKinds, d \in Jobs : claim'[<<k, d>>].state = claim[<<k, d>>].state,
         \A i \in Instances : Done(<<"ires", i>>) => Done(<<"ires", i>>)',
         \A i \in Instances : attempt[i] \in {"success", "skipped"} => attempt'[i] = attempt[i]
  PROVE  JobInv'
<1> USE DEF graph, JobKinds, JobInv
<1>1. \A j \in Jobs : /\ Steps(j)' = Steps(j) /\ CallsOf(j)' = CallsOf(j) /\ Needs(j)' = Needs(j)
                      /\ Published(j)' = Published(j) /\ Untouched(j)' = Untouched(j)
  <2>1. \A j \in Jobs : /\ Steps(j)' = Steps(j) /\ CallsOf(j)' = CallsOf(j) /\ Needs(j)' = Needs(j)
                        /\ Published(j)' = Published(j)
    BY DEF Steps, CallsOf, Needs, Published, Cells, JobOf
  <2>2. \A j \in Jobs : Untouched(j)' = Untouched(j)
    BY DEF Untouched
  <2> QED
    BY <2>1, <2>2
<1>2. \A j \in Jobs : /\ Done(<<"jres", j>>)' = Done(<<"jres", j>>)
                      /\ Done(<<"prep", j>>)' = Done(<<"prep", j>>)
                      /\ Done(<<"act", j>>)' = Done(<<"act", j>>)
  BY DEF Done
<1>3. AllSteps' = AllSteps /\ Cells \subseteq Instances /\ shape.root \subseteq Jobs
      /\ \A j \in Jobs : Needs(j) \subseteq Jobs /\ shape.callees[j] \subseteq Jobs
  BY ShapeType DEF AllSteps, Steps
<1>4. \A j \in Jobs : Effective(j)' = Effective(j)
  BY <1>2 DEF Effective
<1>5. \A j \in Jobs : NeedsReady(j)' = NeedsReady(j) /\ CallReady(j)' = CallReady(j)
  BY <1>1, <1>2, <1>3, <1>4 DEF NeedsReady, CallReady
<1>6. Reach'
  BY <1>1, <1>3 DEF Reach
<1>7. CarriedKept'
  BY <1>3, ShapeType DEF CarriedKept
<1>8. Ordered'
  <2>1. ASSUME NEW j \in Jobs PROVE OrderedAt(j)'
    BY <1>1, <1>2, <1>3, <1>5 DEF Ordered, OrderedAt
  <2> QED
    BY <2>1 DEF Ordered
<1>9. Recorded'
  <2>1. \A j \in Jobs : Published(j) \subseteq Instances
    BY <1>3 DEF Published
  <2>2. \A j \in Jobs : Published(j) \subseteq FinalInstances => Published(j) \subseteq FinalInstances'
    BY <2>1 DEF FinalInstances
  <2>3. ASSUME NEW j \in Jobs PROVE RecordedAt(j)'
    BY <1>1, <1>2, <1>3, <1>5, <2>1, <2>2 DEF Recorded, RecordedAt
  <2> QED
    BY <2>3 DEF Recorded
<1>10. Concluded'
  BY <1>3, <1>4 DEF Concluded
<1> QED
  BY <1>6, <1>7, <1>8, <1>9, <1>10

\* The plan does not change under a run.
LEMMA SameShape ==
  ASSUME LWTypeOK, shape' = shape
  PROVE  /\ AllSteps' = AllSteps /\ Cells' = Cells /\ shape.root \subseteq Jobs
         /\ \A i : JobOf(i)' = JobOf(i)
         /\ \A j \in Jobs : /\ Steps(j)' = Steps(j) /\ CallsOf(j)' = CallsOf(j) /\ Needs(j)' = Needs(j)
                            /\ Needs(j) \subseteq Jobs /\ shape.callees[j] \subseteq Jobs
                            /\ CallsOf(j) \subseteq Jobs
  BY ShapeType DEF AllSteps, Steps, CallsOf, Needs, Cells, JobOf

\* A prerequisite that is final stays final while the run goes on.
LEMMA ReadyStays ==
  ASSUME LWTypeOK, shape' = shape, carried' = carried,
         \A j \in Jobs : Done(<<"jres", j>>) => Done(<<"jres", j>>)'
  PROVE  \A j \in Jobs : (Effective(j) => Effective(j)') /\ (NeedsReady(j) => NeedsReady(j)')
  BY SameShape DEF Effective, NeedsReady

\* The claim of a preparation, or the preparation itself.
LEMMA PreparationStep ==
  ASSUME LWTypeOK, JobInv, UNCHANGED <<shape, graph, attempt>>, NEW j \in Jobs, NEW s \in {"held", "done"},
         ClaimTo(<<"prep", j>>, s),
         ~Done(<<"prep", j>>),
         \/ claim[<<"prep", j>>].state = "held"
         \/ job[j] = "pending" /\ Steps(j) /\ NeedsReady(j) /\ Active(j)
  PROVE  JobInv'
<1> USE DEF graph, JobInv
<1>0. "prep" \in JobKinds
  BY DEF JobKinds
<1>1. /\ claim'[<<"prep", j>>].state = s
      /\ \A k \in JobKinds, d \in Jobs :
            k # "prep" \/ d # j => claim'[<<k, d>>].state = claim[<<k, d>>].state
      /\ \A i \in Instances : claim'[<<"ires", i>>].state = claim[<<"ires", i>>].state
  BY <1>0, OneJobClaim
<1>2. \A d \in Jobs : /\ claim'[<<"act", d>>].state = claim[<<"act", d>>].state
                      /\ claim'[<<"jres", d>>].state = claim[<<"jres", d>>].state
                      /\ d # j => claim'[<<"prep", d>>].state = claim[<<"prep", d>>].state
  BY <1>1 DEF JobKinds
<1>3. claim'[<<"prep", j>>].state = s
  BY <1>1 DEF JobKinds
<1>4. Steps(j) /\ NeedsReady(j) /\ \A c \in CallsOf(j) : publication[c] = "matched"
  BY DEF Ordered, OrderedAt, Active, ChildActive
<1>5. ~Untouched(j) /\ j \notin carried
  BY DEF Untouched, CarriedKept, Terminal
<1>6. \A d \in Jobs : Untouched(d) => Untouched(d)'
  BY <1>2, <1>5 DEF Untouched
<1>7. Reach'
  BY <1>6, SameShape DEF Reach
<1>8. CarriedKept'
  BY <1>2, <1>5, SameShape, ShapeType DEF CarriedKept
<1>9. \A d \in Jobs : (Effective(d) => Effective(d)') /\ (NeedsReady(d) => NeedsReady(d)')
  BY <1>2, ReadyStays DEF Done
<1>10. \A d \in Jobs : /\ Done(<<"jres", d>>)' = Done(<<"jres", d>>)
                       /\ Done(<<"act", d>>)' = Done(<<"act", d>>)
                       /\ Done(<<"prep", d>>) => Done(<<"prep", d>>)'
  BY <1>2 DEF Done
<1>11. Ordered'
  <2>1. ASSUME NEW d \in Jobs, d # j PROVE OrderedAt(d)'
    BY <1>2, <1>9, <1>10, <2>1, SameShape DEF Ordered, OrderedAt
  <2>2. OrderedAt(j)'
    BY <1>2, <1>4, <1>9, <1>10, SameShape DEF Ordered, OrderedAt
  <2> QED
    BY <2>1, <2>2 DEF Ordered
<1>12. Recorded'
  <2>1. \A d \in Jobs : /\ Published(d)' = Published(d) /\ CallReady(d)' = CallReady(d)
    BY <1>10, SameShape DEF Published, CallReady
  <2>2. FinalInstances' = FinalInstances
    BY <1>1 DEF FinalInstances, Done
  <2>3. ASSUME NEW d \in Jobs PROVE RecordedAt(d)'
    BY <1>10, <2>1, <2>2, SameShape DEF Recorded, RecordedAt
  <2> QED
    BY <2>3 DEF Recorded
<1>13. Concluded'
  BY <1>9, SameShape DEF Concluded
<1> QED
  BY <1>7, <1>8, <1>11, <1>12, <1>13

\* The claim of an activation.
LEMMA ActivatingStep ==
  ASSUME LWTypeOK, JobInv, NEW j \in Jobs, Active(j), Steps(j), NeedsReady(j),
         ClaimTo(<<"act", j>>, "held"),
         ~Done(<<"act", j>>),
         job[j] = "activating" \/ (job[j] = "pending" /\ Done(<<"prep", j>>)),
         job' = [job EXCEPT ![j] = "activating"],
         UNCHANGED <<shape, run, conclusion, carried, publication, result, attempt>>
  PROVE  JobInv'
<1> USE DEF JobInv
<1>0. "act" \in JobKinds
  BY DEF JobKinds
<1>1. /\ claim'[<<"act", j>>].state = "held"
      /\ \A k \in JobKinds, d \in Jobs :
            k # "act" \/ d # j => claim'[<<k, d>>].state = claim[<<k, d>>].state
      /\ \A i \in Instances : claim'[<<"ires", i>>].state = claim[<<"ires", i>>].state
  BY <1>0, OneJobClaim
<1>2. \A d \in Jobs : /\ claim'[<<"prep", d>>].state = claim[<<"prep", d>>].state
                      /\ claim'[<<"jres", d>>].state = claim[<<"jres", d>>].state
                      /\ d # j => claim'[<<"act", d>>].state = claim[<<"act", d>>].state
                                  /\ job'[d] = job[d]
  BY <1>1 DEF LWTypeOK, JobKinds
<1>3. claim'[<<"act", j>>].state = "held" /\ job'[j] = "activating" /\ Done(<<"prep", j>>)
  BY <1>1 DEF LWTypeOK, JobKinds, Ordered, OrderedAt
<1>4. ~Untouched(j) /\ j \notin carried /\ ~Done(<<"jres", j>>)
  BY DEF Untouched, CarriedKept, Terminal, Recorded, RecordedAt
<1>5. \A d \in Jobs : Untouched(d) => Untouched(d)'
  BY <1>2, <1>4 DEF Untouched
<1>6. Reach'
  BY <1>5, SameShape DEF Reach
<1>7. CarriedKept'
  BY <1>2, <1>4, SameShape, ShapeType DEF CarriedKept
<1>8. \A d \in Jobs : (Effective(d) => Effective(d)') /\ (NeedsReady(d) => NeedsReady(d)')
  BY <1>2, ReadyStays DEF Done
<1>9. \A d \in Jobs : /\ Done(<<"jres", d>>)' = Done(<<"jres", d>>)
                      /\ Done(<<"act", d>>)' = Done(<<"act", d>>)
                      /\ Done(<<"prep", d>>)' = Done(<<"prep", d>>)
  BY <1>2, <1>3 DEF Done
<1>10. Ordered'
  <2>1. ASSUME NEW d \in Jobs, d # j PROVE OrderedAt(d)'
    <3>1. OrderedAt(d)
      BY DEF Ordered
    <3> QED
      BY <1>2, <1>8, <1>9, <2>1, <3>1, SameShape DEF OrderedAt
  <2>2. OrderedAt(j)'
    BY <1>2, <1>3, <1>8, <1>9, SameShape DEF Ordered, OrderedAt
  <2> QED
    BY <2>1, <2>2 DEF Ordered
<1>11. Recorded'
  <2>1. \A d \in Jobs : /\ Published(d)' = Published(d) /\ CallReady(d)' = CallReady(d)
    BY <1>9, SameShape DEF Published, CallReady
  <2>2. FinalInstances' = FinalInstances
    BY <1>1 DEF FinalInstances, Done
  <2>3. ASSUME NEW d \in Jobs PROVE RecordedAt(d)'
    BY <1>2, <1>4, <1>9, <2>1, <2>2, SameShape DEF Recorded, RecordedAt
  <2> QED
    BY <2>3 DEF Recorded
<1>12. Concluded'
  BY <1>8, SameShape DEF Concluded
<1> QED
  BY <1>6, <1>7, <1>10, <1>11, <1>12

\* The publication of an activation.
LEMMA ActivatedStep ==
  ASSUME LWTypeOK, JobInv, NEW j \in Jobs, NEW matched,
         ClaimTo(<<"act", j>>, "done"),
         claim[<<"act", j>>].state = "held",
         publication' = [publication EXCEPT ![j] = IF matched THEN "matched" ELSE "unmatched"],
         job' = [job EXCEPT ![j] = IF matched THEN "activated" ELSE "skipped"],
         UNCHANGED <<shape, run, conclusion, carried, result, attempt>>
  PROVE  JobInv'
<1> USE DEF JobInv
<1>0. "act" \in JobKinds
  BY DEF JobKinds
<1>1. /\ claim'[<<"act", j>>].state = "done"
      /\ \A k \in JobKinds, d \in Jobs :
            k # "act" \/ d # j => claim'[<<k, d>>].state = claim[<<k, d>>].state
      /\ \A i \in Instances : claim'[<<"ires", i>>].state = claim[<<"ires", i>>].state
  BY <1>0, OneJobClaim
<1>2. \A d \in Jobs : /\ claim'[<<"prep", d>>].state = claim[<<"prep", d>>].state
                      /\ claim'[<<"jres", d>>].state = claim[<<"jres", d>>].state
                      /\ d # j => /\ claim'[<<"act", d>>].state = claim[<<"act", d>>].state
                                  /\ job'[d] = job[d] /\ publication'[d] = publication[d]
  BY <1>1 DEF LWTypeOK, JobKinds
<1>3. /\ claim'[<<"act", j>>].state = "done" /\ job'[j] \in {"activated", "skipped"}
      /\ publication'[j] \in {"matched", "unmatched"}
  BY <1>1 DEF LWTypeOK, JobKinds
<1>4. /\ Steps(j) /\ Done(<<"prep", j>>) /\ publication[j] = "none"
      /\ ~Untouched(j) /\ j \notin carried /\ ~Done(<<"jres", j>>) /\ result[j] = "none"
  BY DEF Ordered, OrderedAt, Untouched, CarriedKept, Recorded, RecordedAt, Done
<1>5. \A d \in Jobs : j \notin CallsOf(d)
  BY <1>4 DEF CallsOf, Steps
<1>6. \A d \in Jobs : Untouched(d) => Untouched(d)'
  BY <1>2, <1>4 DEF Untouched
<1>7. Reach'
  <2>1. \A d \in Jobs, c \in Jobs : c \in CallsOf(d) => publication'[c] = publication[c]
    BY <1>2, <1>5
  <2> QED
    BY <1>6, <2>1, SameShape DEF Reach
<1>8. CarriedKept'
  BY <1>2, <1>4, SameShape, ShapeType DEF CarriedKept
<1>9. \A d \in Jobs : (Effective(d) => Effective(d)') /\ (NeedsReady(d) => NeedsReady(d)')
  BY <1>2, ReadyStays DEF Done
<1>10. \A d \in Jobs : /\ Done(<<"jres", d>>)' = Done(<<"jres", d>>)
                       /\ Done(<<"prep", d>>)' = Done(<<"prep", d>>)
                       /\ d # j => Done(<<"act", d>>)' = Done(<<"act", d>>)
  BY <1>2 DEF Done
<1>11. Ordered'
  <2>1. ASSUME NEW d \in Jobs, d # j PROVE OrderedAt(d)'
    <3>1. \A c \in CallsOf(d) : publication'[c] = publication[c]
      BY <1>2, <1>5, SameShape
    <3>2. OrderedAt(d)
      BY DEF Ordered
    <3> QED
      BY <1>2, <1>9, <1>10, <2>1, <3>1, <3>2, SameShape DEF OrderedAt
  <2>2. OrderedAt(j)'
    <3>1. \A c \in CallsOf(j) : publication'[c] = publication[c]
      BY <1>2, <1>5, SameShape
    <3>2. Done(<<"act", j>>)' /\ OrderedAt(j)
      BY <1>3 DEF Done, Ordered
    <3> QED
      BY <1>2, <1>3, <1>4, <1>9, <1>10, <3>1, <3>2, SameShape DEF OrderedAt
  <2> QED
    BY <2>1, <2>2 DEF Ordered
<1>12. Recorded'
  <2>1. \A d \in Jobs : d # j => Published(d)' = Published(d)
    BY <1>2 DEF Published, Cells, JobOf
  <2>2. \A d \in Jobs : d # j => CallReady(d)' = CallReady(d)
    <3>1. ASSUME NEW d \in Jobs, d # j PROVE CallReady(d)' = CallReady(d)
      <4>1. publication'[d] = publication[d] /\ shape'.callees[d] = shape.callees[d]
            /\ shape.callees[d] \subseteq Jobs
        BY <1>2, <3>1, SameShape
      <4> QED
        BY <1>10, <4>1 DEF CallReady
    <3> QED
      BY <3>1
  <2>3. FinalInstances' = FinalInstances
    BY <1>1 DEF FinalInstances, Done
  <2>4. ASSUME NEW d \in Jobs, d # j PROVE RecordedAt(d)'
    BY <1>2, <1>10, <2>1, <2>2, <2>3, <2>4, SameShape DEF Recorded, RecordedAt
  <2>5. RecordedAt(j)'
    BY <1>4, <1>10 DEF RecordedAt
  <2> QED
    BY <2>4, <2>5 DEF Recorded
<1>13. Concluded'
  BY <1>9, SameShape DEF Concluded
<1> QED
  BY <1>7, <1>8, <1>11, <1>12, <1>13

\* The claim of a job result.
LEMMA ResultClaimStep ==
  ASSUME LWTypeOK, JobInv, UNCHANGED <<shape, graph, attempt>>, NEW j \in Jobs,
         ClaimTo(<<"jres", j>>, "held"), ~Done(<<"jres", j>>), publication[j] # "none"
  PROVE  JobInv'
<1> USE DEF graph, JobInv
<1>0. "jres" \in JobKinds
  BY DEF JobKinds
<1>1. /\ claim'[<<"jres", j>>].state = "held"
      /\ \A k \in JobKinds, d \in Jobs :
            k # "jres" \/ d # j => claim'[<<k, d>>].state = claim[<<k, d>>].state
      /\ \A i \in Instances : claim'[<<"ires", i>>].state = claim[<<"ires", i>>].state
  BY <1>0, OneJobClaim
<1>2. \A d \in Jobs : /\ claim'[<<"act", d>>].state = claim[<<"act", d>>].state
                      /\ claim'[<<"prep", d>>].state = claim[<<"prep", d>>].state
                      /\ d # j => claim'[<<"jres", d>>].state = claim[<<"jres", d>>].state
  BY <1>1 DEF JobKinds
<1>3. ~Untouched(j) /\ j \notin carried
  BY DEF Untouched, CarriedKept
<1>4. \A d \in Jobs : Untouched(d) => Untouched(d)'
  BY <1>2, <1>3 DEF Untouched
<1>5. Reach'
  BY <1>4, SameShape DEF Reach
<1>6. CarriedKept'
  BY <1>2, <1>3, SameShape, ShapeType DEF CarriedKept
<1>7. \A d \in Jobs : /\ Done(<<"jres", d>>)' = Done(<<"jres", d>>)
                      /\ Done(<<"act", d>>)' = Done(<<"act", d>>)
                      /\ Done(<<"prep", d>>)' = Done(<<"prep", d>>)
  BY <1>1, <1>2 DEF Done
<1>8. \A d \in Jobs : (Effective(d) => Effective(d)') /\ (NeedsReady(d) => NeedsReady(d)')
  BY <1>7, ReadyStays
<1>9. Ordered'
  <2>1. ASSUME NEW d \in Jobs PROVE OrderedAt(d)'
    <3>1. OrderedAt(d)
      BY DEF Ordered
    <3> QED
      BY <1>2, <1>7, <1>8, <3>1, SameShape DEF OrderedAt
  <2> QED
    BY <2>1 DEF Ordered
<1>10. Recorded'
  <2>1. \A d \in Jobs : /\ Published(d)' = Published(d) /\ CallReady(d)' = CallReady(d)
    BY <1>7, SameShape DEF Published, CallReady
  <2>2. FinalInstances' = FinalInstances
    BY <1>1 DEF FinalInstances, Done
  <2>3. ASSUME NEW d \in Jobs PROVE RecordedAt(d)'
    BY <1>7, <2>1, <2>2, SameShape DEF Recorded, RecordedAt
  <2> QED
    BY <2>3 DEF Recorded
<1>11. Concluded'
  BY <1>8, SameShape DEF Concluded
<1> QED
  BY <1>5, <1>6, <1>9, <1>10, <1>11

\* The result of a job, or of a call.
LEMMA ResultStep ==
  ASSUME LWTypeOK, JobInv, NEW j \in Jobs, NEW verdict \in Final,
         Running, publication[j] # "none", ~Done(<<"jres", j>>),
         ClaimTo(<<"jres", j>>, "done"),
         result' = [result EXCEPT ![j] = verdict],
         job' = [job EXCEPT ![j] = TerminalJobState(verdict)],
         UNCHANGED <<shape, run, conclusion, carried, publication, attempt>>,
         Published(j) \subseteq FinalInstances,
         ~Steps(j) => CallReady(j),
         \A d \in shape.callees[j] : result[d] = "failure" => verdict = "failure",
         verdict = "success" => \A i \in Published(j) : attempt[i] \in {"success", "skipped"}
  PROVE  JobInv'
<1> USE DEF JobInv
<1>0. "jres" \in JobKinds
  BY DEF JobKinds
<1>1. /\ claim'[<<"jres", j>>].state = "done"
      /\ \A k \in JobKinds, d \in Jobs :
            k # "jres" \/ d # j => claim'[<<k, d>>].state = claim[<<k, d>>].state
      /\ \A i \in Instances : claim'[<<"ires", i>>].state = claim[<<"ires", i>>].state
  BY <1>0, OneJobClaim
<1>2. \A d \in Jobs : /\ claim'[<<"act", d>>].state = claim[<<"act", d>>].state
                      /\ claim'[<<"prep", d>>].state = claim[<<"prep", d>>].state
                      /\ d # j => /\ claim'[<<"jres", d>>].state = claim[<<"jres", d>>].state
                                  /\ job'[d] = job[d] /\ result'[d] = result[d]
  BY <1>1 DEF JobKinds, LWTypeOK
<1>3. /\ ~Untouched(j) /\ j \notin carried
      /\ job'[j] \in Terminal /\ result'[j] = verdict /\ verdict # "none"
  BY TerminalState, FinalConclusions DEF Untouched, CarriedKept, LWTypeOK, Terminal
<1>4. \A d \in Jobs : Untouched(d) => Untouched(d)'
  BY <1>2, <1>3 DEF Untouched
<1>5. Reach'
  BY <1>4, SameShape DEF Reach
<1>6. CarriedKept'
  BY <1>2, <1>3, SameShape, ShapeType DEF CarriedKept
<1>7. \A d \in Jobs : /\ Done(<<"jres", d>>) => Done(<<"jres", d>>)'
                      /\ d # j => Done(<<"jres", d>>)' = Done(<<"jres", d>>)
                      /\ Done(<<"act", d>>)' = Done(<<"act", d>>)
                      /\ Done(<<"prep", d>>)' = Done(<<"prep", d>>)
  BY <1>1, <1>2 DEF Done
<1>8. \A d \in Jobs : (Effective(d) => Effective(d)') /\ (NeedsReady(d) => NeedsReady(d)')
  BY <1>7, ReadyStays
<1>9. Ordered'
  <2>1. ASSUME NEW d \in Jobs PROVE OrderedAt(d)'
    <3>1. OrderedAt(d) /\ (job'[d] = job[d] \/ job'[d] \in Terminal)
      BY <1>2, <1>3 DEF Ordered
    <3>2. job'[d] = "activating" \/ job'[d] = "pending" => job'[d] = job[d]
      BY <3>1 DEF Terminal
    <3> QED
      BY <1>2, <1>7, <1>8, <3>1, <3>2, SameShape DEF OrderedAt
  <2> QED
    BY <2>1 DEF Ordered
<1>10. Recorded'
  <2>1. \A d \in Jobs : Published(d)' = Published(d) /\ (CallReady(d) => CallReady(d)')
    BY <1>7, SameShape DEF Published, CallReady
  <2>2. FinalInstances' = FinalInstances
    BY <1>1 DEF FinalInstances, Done
  <2>3. ASSUME NEW d \in Jobs, d # j PROVE RecordedAt(d)'
    <3>1. RecordedAt(d)
      BY DEF Recorded
    <3>2. Done(<<"jres", d>>) => j \notin shape.callees[d]
      <4> SUFFICES ASSUME Done(<<"jres", d>>), j \in shape.callees[d] PROVE FALSE
        OBVIOUS
      <4>1. ~Steps(d)
        BY CallsUnique
      <4>2. publication[d] = "matched"
        BY <1>3, Unpublished
      <4> QED
        BY <3>1, <4>1, <4>2 DEF RecordedAt, CallReady
    <3>3. Done(<<"jres", d>>) => \A e \in shape.callees[d] : result'[e] = result[e]
      BY <1>2, <3>2, SameShape
    <3> QED
      BY <1>2, <1>7, <2>1, <2>2, <2>3, <3>1, <3>3, SameShape DEF RecordedAt
  <2>4. RecordedAt(j)'
    <3>1. \A d \in shape.callees[j] : result'[d] = "failure" => result'[j] = "failure"
      BY <1>2, <1>3, SameShape
    <3>2. Done(<<"jres", j>>)'
      BY <1>1 DEF Done
    <3> QED
      BY <1>3, <2>1, <2>2, <3>1, <3>2, SameShape DEF RecordedAt
  <2> QED
    BY <2>3, <2>4 DEF Recorded
<1>11. Concluded'
  BY <1>8, SameShape DEF Concluded, Running
<1> QED
  BY <1>5, <1>6, <1>9, <1>10, <1>11

\* The result of the run.
LEMMA RunResultStep ==
  ASSUME LWTypeOK, JobInv, FinalizationReady, ClaimTo(Root, "done"),
         run' = "finalized", conclusion' = Aggregate({result[j] : j \in shape.root}),
         UNCHANGED <<shape, job, carried, publication, result, attempt>>
  PROVE  JobInv'
<1> USE DEF JobInv
<1>1. /\ \A k \in JobKinds, d \in Jobs : claim'[<<k, d>>].state = claim[<<k, d>>].state
      /\ \A i \in Instances : claim'[<<"ires", i>>].state = claim[<<"ires", i>>].state
  BY DEF ClaimTo, Ids, JobKinds, Root
<1>2. \A d \in Jobs : /\ claim'[<<"act", d>>].state = claim[<<"act", d>>].state
                      /\ claim'[<<"prep", d>>].state = claim[<<"prep", d>>].state
                      /\ claim'[<<"jres", d>>].state = claim[<<"jres", d>>].state
  BY <1>1 DEF JobKinds
<1>3. Reach'
  <2>1. \A d \in Jobs : Untouched(d) => Untouched(d)'
    BY <1>2 DEF Untouched
  <2> QED
    BY <2>1, SameShape DEF Reach
<1>4. CarriedKept'
  BY <1>2, SameShape, ShapeType DEF CarriedKept
<1>5. \A d \in Jobs : /\ Done(<<"jres", d>>)' = Done(<<"jres", d>>)
                      /\ Done(<<"act", d>>)' = Done(<<"act", d>>)
                      /\ Done(<<"prep", d>>)' = Done(<<"prep", d>>)
  BY <1>2 DEF Done
<1>6. \A d \in Jobs : (Effective(d) => Effective(d)') /\ (NeedsReady(d) => NeedsReady(d)')
  BY <1>5, ReadyStays
<1>7. Ordered'
  <2>1. ASSUME NEW d \in Jobs PROVE OrderedAt(d)'
    <3>1. OrderedAt(d)
      BY DEF Ordered
    <3> QED
      BY <1>2, <1>5, <1>6, <3>1, SameShape DEF OrderedAt
  <2> QED
    BY <2>1 DEF Ordered
<1>8. Recorded'
  <2>1. \A d \in Jobs : /\ Published(d)' = Published(d) /\ CallReady(d)' = CallReady(d)
    BY <1>5, SameShape DEF Published, CallReady
  <2>2. FinalInstances' = FinalInstances
    BY <1>1 DEF FinalInstances, Done
  <2>3. ASSUME NEW d \in Jobs PROVE RecordedAt(d)'
    BY <1>5, <2>1, <2>2, SameShape DEF Recorded, RecordedAt
  <2> QED
    BY <2>3 DEF Recorded
<1>9. Concluded'
  <2>1. \A j \in shape.root : Effective(j) /\ result[j] # "none" /\ result[j] \in Final
    BY ShapeType DEF FinalizationReady, Effective, Recorded, RecordedAt, CarriedKept, LWTypeOK
  <2>2. conclusion' = "success" => \A j \in shape.root : result[j] \notin {"failure", "timed_out", "cancelled"}
    <3> DEFINE S == {result[j] : j \in shape.root}
    <3>1. conclusion' = Aggregate(S) /\ \A j \in shape.root : result[j] \in S
      OBVIOUS
    <3> HIDE DEF S
    <3>2. Aggregate(S) = "success" => "failure" \notin S /\ "timed_out" \notin S /\ "cancelled" \notin S
      BY AggregateOf
    <3> QED
      BY <3>1, <3>2
  <2> QED
    BY <1>6, <2>1, <2>2, SameShape, FinalConclusions DEF Concluded
<1> QED
  BY <1>3, <1>4, <1>7, <1>8, <1>9

\* The publication of a call.
LEMMA CallPublishedStep ==
  ASSUME LWTypeOK, JobInv, NEW c \in Jobs, NEW matched \in BOOLEAN, PublishCall(c, matched)
  PROVE  JobInv'
<1> USE DEF JobInv
<1>1. /\ ~Steps(c) /\ Active(c) /\ job[c] = "pending" /\ \A p \in Needs(c) : Done(<<"jres", p>>)
      /\ publication' = [publication EXCEPT ![c] = IF matched THEN "matched" ELSE "unmatched"]
      /\ job' = [j \in Jobs |-> IF j = c THEN IF matched THEN "activated" ELSE "skipped"
                                ELSE IF matched /\ j \in shape.callees[c] THEN "pending" ELSE job[j]]
      /\ UNCHANGED <<shape, run, conclusion, carried, result, attempt, claim>>
  BY DEF PublishCall, work
<1>2. /\ publication[c] = "none" /\ ~Done(<<"jres", c>>) /\ ~Untouched(c) /\ c \notin carried
      /\ claim[<<"prep", c>>].state = "none" /\ claim[<<"act", c>>].state = "none"
  BY <1>1 DEF Ordered, OrderedAt, Recorded, RecordedAt, Untouched, CarriedKept, Terminal, Done
<1>3. /\ \A d \in Jobs : d # c => publication'[d] = publication[d]
      /\ \A d \in Jobs : d # c /\ (d \notin shape.callees[c] \/ ~matched) => job'[d] = job[d]
      /\ \A d \in shape.callees[c] : Untouched(d) /\ d # c
      /\ \A d \in shape.callees[c] : matched => job'[d] = "pending"
      /\ publication'[c] = (IF matched THEN "matched" ELSE "unmatched")
      /\ job'[c] \in {"activated", "skipped"}
  <2>1. \A d \in shape.callees[c] : Untouched(d) /\ d # c /\ d \in Jobs
    BY <1>2, Unpublished, CallsUnique
  <2> QED
    BY <1>1, <2>1 DEF LWTypeOK
<1>4. result[c] = "none"
  BY <1>2 DEF Recorded, RecordedAt
<1>5. ~AllSteps
  BY <1>1, <1>2 DEF AllSteps, Reach
<1>6. carried = {}
  BY <1>5 DEF CarriedKept
<1>7. Reach'
  <2>1. ASSUME NEW j \in Jobs \ shape.root, \A e \in CallsOf(j) : publication'[e] # "matched"
        PROVE  Untouched(j)'
    <3>1. \A e \in CallsOf(j) : publication[e] # "matched"
      BY <1>1, <1>2, <1>3, <2>1, SameShape
    <3>2. Untouched(j)
      BY <3>1 DEF Reach
    <3>3. j # c
      BY <1>2, <3>2
    <3>4. j \notin shape.callees[c] \/ ~matched
      BY <1>3, <2>1 DEF CallsOf
    <3> QED
      BY <1>1, <1>3, <3>2, <3>3, <3>4 DEF Untouched
  <2>2. \A j \in Jobs : CallsOf(j)' = CallsOf(j)
    BY <1>1, SameShape
  <2>3. shape' = shape /\ ~AllSteps'
    BY <1>1, <1>5, SameShape
  <2> QED
    BY <2>1, <2>2, <2>3 DEF Reach
<1>8. CarriedKept'
  BY <1>1, <1>6 DEF CarriedKept
<1>9. \A d \in Jobs : /\ Done(<<"jres", d>>)' = Done(<<"jres", d>>)
                      /\ Done(<<"act", d>>)' = Done(<<"act", d>>)
                      /\ Done(<<"prep", d>>)' = Done(<<"prep", d>>)
  BY <1>1 DEF Done
<1>10. \A d \in Jobs : (Effective(d) => Effective(d)') /\ (NeedsReady(d) => NeedsReady(d)')
  BY <1>1, <1>9, ReadyStays
<1>11. Ordered'
  <2>1. ASSUME NEW d \in Jobs, d # c PROVE OrderedAt(d)'
    <3>1. OrderedAt(d) /\ publication'[d] = publication[d] /\ claim' = claim
      BY <1>1, <1>3, <2>1 DEF Ordered
    <3>2. job'[d] = "activating" => job[d] = "activating"
      BY <1>3, <2>1
    <3>3. job'[d] = "pending" => publication[d] = "none"
      BY <1>3, <2>1, <3>1 DEF OrderedAt, Untouched
    <3>4. claim[<<"prep", d>>].state # "none" => \A e \in CallsOf(d) : publication'[e] = "matched"
      BY <1>1, <1>2, <1>3, <3>1, SameShape DEF OrderedAt
    <3> QED
      BY <1>1, <1>9, <1>10, <3>1, <3>2, <3>3, <3>4, SameShape DEF OrderedAt
  <2>2. OrderedAt(c)'
    <3>1. OrderedAt(c)
      BY DEF Ordered
    <3> QED
      BY <1>1, <1>2, <1>3, <1>9, <3>1, SameShape DEF OrderedAt
  <2> QED
    BY <2>1, <2>2 DEF Ordered
<1>12. Recorded'
  <2>1. FinalInstances' = FinalInstances
    BY <1>1 DEF FinalInstances, Done
  <2>2. ASSUME NEW d \in Jobs, d # c PROVE RecordedAt(d)'
    <3>1. RecordedAt(d) /\ publication'[d] = publication[d]
      BY <1>3, <2>2 DEF Recorded
    <3>2. Published(d)' = Published(d)
      BY <1>1, <3>1 DEF Published, Cells, JobOf
    <3>3. CallReady(d)' = CallReady(d)
      BY <1>1, <1>9, <3>1, SameShape DEF CallReady
    <3>4. Done(<<"jres", d>>) => job'[d] = job[d]
      BY <1>3, <2>2 DEF Untouched, Done
    <3> QED
      BY <1>1, <1>9, <2>1, <3>1, <3>2, <3>3, <3>4, SameShape DEF RecordedAt
  <2>3. RecordedAt(c)'
    BY <1>1, <1>2, <1>4, <1>9 DEF RecordedAt
  <2> QED
    BY <2>2, <2>3 DEF Recorded
<1>13. Concluded'
  BY <1>1, <1>10, SameShape DEF Concluded
<1> QED
  BY <1>7, <1>8, <1>11, <1>12, <1>13

\* The completion of a call.
LEMMA CallCompletedStep ==
  ASSUME LWTypeOK, JobInv, NEW c \in Jobs, CompleteCall(c)
  PROVE  JobInv'
<1> DEFINE verdict == IF publication[c] = "matched"
                      THEN Aggregate({result[j] : j \in shape.callees[c]}) ELSE "skipped"
<1>1. /\ ~Steps(c) /\ Running /\ ~Done(<<"jres", c>>) /\ CallReady(c)
      /\ claim' = [claim EXCEPT ![<<"jres", c>>] = [state |-> "done", gen |-> 1, live |-> TRUE]]
      /\ result' = [result EXCEPT ![c] = verdict]
      /\ job' = [job EXCEPT ![c] = TerminalJobState(verdict)]
      /\ UNCHANGED <<shape, run, conclusion, carried, publication, attempt>>
  BY DEF CompleteCall, work
<1>2. verdict \in Final
  BY AggregateOf, FinalConclusions
<1>3. \A d \in shape.callees[c] : result[d] = "failure" => verdict = "failure"
  <2> SUFFICES ASSUME NEW d \in shape.callees[c], result[d] = "failure" PROVE verdict = "failure"
    OBVIOUS
  <2>1. publication[c] = "matched"
    BY Unpublished DEF JobInv, Untouched
  <2>2. "failure" \in {result[j] : j \in shape.callees[c]}
    OBVIOUS
  <2> QED
    BY <2>1, <2>2, AggregateOf
<1> HIDE DEF verdict
<1>4. ClaimTo(<<"jres", c>>, "done")
  BY <1>1, IdsOf DEF ClaimTo, LWTypeOK
<1>5. Published(c) = {}
  BY <1>1, ShapeType DEF Published
<1>6. publication[c] # "none"
  BY <1>1 DEF CallReady
<1> QED
  BY <1>1, <1>2, <1>3, <1>4, <1>5, <1>6, ResultStep

\* Preemption.
LEMMA PreemptedStep ==
  ASSUME LWTypeOK, JobInv, NEW queued \in SUBSET Cells, Preempt(queued)
  PROVE  JobInv'
<1> USE DEF JobInv
<1>1. /\ Running /\ run' = "preempted"
      /\ \A i \in queued : attempt[i] = "open"
      /\ attempt' = [i \in Instances |-> IF i \in queued THEN "cancelled" ELSE attempt[i]]
      /\ job' = [j \in Jobs |-> IF j \in PreemptedJobs THEN "cancelled" ELSE job[j]]
      /\ UNCHANGED <<shape, conclusion, carried, publication, result, claim>>
  BY DEF Preempt
<1>2. /\ \A j \in Jobs : job'[j] = job[j] \/ (job'[j] = "cancelled" /\ job[j] # "absent" /\ j \notin carried)
  BY <1>1 DEF PreemptedJobs
<1>3. \A d \in Jobs : Untouched(d) => Untouched(d)'
  BY <1>1, <1>2 DEF Untouched
<1>4. Reach'
  BY <1>1, <1>3, SameShape DEF Reach
<1>5. CarriedKept'
  BY <1>1, <1>2, SameShape, ShapeType DEF CarriedKept
<1>6. \A d \in Jobs : /\ Done(<<"jres", d>>)' = Done(<<"jres", d>>)
                      /\ Done(<<"act", d>>)' = Done(<<"act", d>>)
                      /\ Done(<<"prep", d>>)' = Done(<<"prep", d>>)
  BY <1>1 DEF Done
<1>7. \A d \in Jobs : (Effective(d) => Effective(d)') /\ (NeedsReady(d) => NeedsReady(d)')
  BY <1>1, <1>6, ReadyStays
<1>8. Ordered'
  <2>1. ASSUME NEW d \in Jobs PROVE OrderedAt(d)'
    <3>1. OrderedAt(d) /\ publication' = publication /\ claim' = claim /\ shape' = shape
      BY <1>1 DEF Ordered
    <3>2. job'[d] = "activating" \/ job'[d] = "pending" => job'[d] = job[d]
      BY <1>2
    <3> QED
      BY <1>6, <1>7, <3>1, <3>2, SameShape DEF OrderedAt
  <2> QED
    BY <2>1 DEF Ordered
<1>9. Recorded'
  <2>1. \A d \in Jobs : Published(d)' = Published(d) /\ CallReady(d)' = CallReady(d)
    BY <1>1, <1>6, SameShape DEF Published, CallReady
  <2>2. FinalInstances' = FinalInstances
    BY <1>1 DEF FinalInstances, Done
  <2>3. \A d \in Jobs : job[d] \in Terminal => job'[d] \in Terminal
    BY <1>2 DEF Terminal
  <2>4. \A i \in Instances : attempt[i] \in {"success", "skipped"} => attempt'[i] = attempt[i]
    BY <1>1
  <2>5. \A d \in Jobs : Published(d) \subseteq Instances
    BY ShapeType DEF Published
  <2>6. ASSUME NEW d \in Jobs PROVE RecordedAt(d)'
    <3>1. RecordedAt(d)
      BY DEF Recorded
    <3> QED
      BY <1>1, <1>6, <2>1, <2>2, <2>3, <2>4, <2>5, <3>1, SameShape DEF RecordedAt
  <2> QED
    BY <2>6 DEF Recorded
<1>10. Concluded'
  BY <1>1 DEF Concluded, Running
<1> QED
  BY <1>4, <1>5, <1>8, <1>9, <1>10

\* The jobs that a rerun selects are jobs of the workflow itself: what needs
\* one of them belongs to the same invocation.
LEMMA SelectedJobs ==
  ASSUME LWTypeOK, JobInv, AllSteps, NEW selected \in Selections
  PROVE  selected \subseteq shape.root
<1>1. CASE selected = shape.root
  BY <1>1
<1>2. ASSUME NEW seeds \in SUBSET shape.root, selected = Selected(seeds) PROVE selected \subseteq shape.root
  <2> DEFINE Closed == {s \in SUBSET Jobs : seeds \subseteq s
                                   /\ \A j \in Jobs : Needs(j) \cap s # {} => j \in s}
  <2>1. \A j \in Jobs : Needs(j) \cap shape.root # {} => j \in shape.root
    <3>1. shape \in Shapes
      BY DEF LWTypeOK
    <3>2. \A j \in Jobs : \A p \in shape.needs[j] : j \in shape.root <=> p \in shape.root
      BY <3>1, GraphAssumption
    <3> QED
      BY <3>2 DEF Needs
  <2>2. shape.root \in Closed
    BY <2>1, ShapeType
  <2> QED
    BY <1>2, <2>2 DEF Selected
<1>3. {j \in Jobs : result[j] \in {"failure", "timed_out"}} \subseteq shape.root
  BY DEF JobInv, Reach, Untouched
<1>4. \/ selected = shape.root
      \/ \E seeds \in SUBSET shape.root : selected = Selected(seeds)
  <2> DEFINE failed == {j \in Jobs : result[j] \in {"failure", "timed_out"}}
  <2>1. \A s \in {failed} \cup {{j} : j \in shape.root} : s \in SUBSET shape.root
    BY <1>3
  <2> HIDE DEF failed
  <2>2. selected = shape.root \/ \E s \in {failed} \cup {{j} : j \in shape.root} : selected = Selected(s)
    BY DEF Selections, failed
  <2> QED
    BY <2>1, <2>2
<1> QED
  BY <1>2, <1>4

\* A rerun.
LEMMA RerunStep ==
  ASSUME LWTypeOK, JobInv, NEW selected \in Selections, Rerun(selected)
  PROVE  JobInv'
<1> USE DEF JobInv
<1>1. /\ run = "finalized" /\ \A j \in shape.root : Steps(j)
      /\ run' = "active" /\ conclusion' = "none" /\ carried' = shape.root \ selected
      /\ job' = [j \in Jobs |-> IF j \in selected THEN "pending" ELSE job[j]]
      /\ result' = [j \in Jobs |-> IF j \in selected THEN "none" ELSE result[j]]
      /\ publication' = [j \in Jobs |-> "none"]
      /\ claim' = [id \in Ids |-> Unclaimed]
      /\ shape' = shape
  BY DEF Rerun
<1>2. AllSteps /\ AllSteps'
  BY <1>1, SameShape DEF AllSteps
<1>3. selected \subseteq shape.root
  BY <1>2, SelectedJobs
<1>4. \A j \in Jobs \ shape.root : Untouched(j)
  BY <1>2 DEF Reach
<1>5. \A j \in shape.root : j \in Jobs /\ job[j] \in Terminal /\ result[j] # "none"
  BY <1>1, ShapeType DEF Concluded, Effective, Recorded, RecordedAt, CarriedKept
<1>6. \A id \in Ids : claim'[id].state = "none"
  BY <1>1 DEF Unclaimed
<1>7. \A k \in JobKinds, d \in Jobs : claim'[<<k, d>>].state = "none"
  BY <1>6 DEF Ids, JobKinds
<1>8. \A d \in Jobs : /\ claim'[<<"prep", d>>].state = "none"
                      /\ claim'[<<"act", d>>].state = "none"
                      /\ claim'[<<"jres", d>>].state = "none"
  BY <1>7 DEF JobKinds
<1>9. \A d \in Jobs : ~Done(<<"prep", d>>)' /\ ~Done(<<"act", d>>)' /\ ~Done(<<"jres", d>>)'
  BY <1>8 DEF Done
<1>10. Reach'
  <2>1. \A j \in Jobs \ shape.root : Untouched(j)'
    BY <1>1, <1>3, <1>4, <1>8 DEF Untouched
  <2> QED
    BY <1>1, <2>1 DEF Reach
<1>11. CarriedKept'
  BY <1>1, <1>2, <1>5, <1>8 DEF CarriedKept
<1>12. Ordered'
  <2>1. ASSUME NEW d \in Jobs PROVE OrderedAt(d)'
    <3>1. publication'[d] = "none"
      BY <1>1
    <3>2. job'[d] # "activating"
      BY <1>1, <1>4, <1>5 DEF Terminal, Untouched
    <3> QED
      BY <1>8, <1>9, <3>1, <3>2 DEF OrderedAt
  <2> QED
    BY <2>1 DEF Ordered
<1>13. Recorded'
  <2>1. ASSUME NEW d \in Jobs PROVE RecordedAt(d)'
    <3>1. result'[d] # "none" => d \in carried'
      BY <1>1, <1>4 DEF Untouched
    <3> QED
      BY <1>9, <3>1 DEF RecordedAt
  <2> QED
    BY <2>1 DEF Recorded
<1>14. Concluded'
  BY <1>1 DEF Concluded
<1> QED
  BY <1>10, <1>11, <1>12, <1>13, <1>14

-----------------------------------------------------------------------------
(* The evidence of instances.                                              *)

\* A change of one claim of an instance changes no other claim.
LEMMA OneInstanceClaim ==
  ASSUME NEW kind \in {"mat", "ires"}, NEW i \in Instances, NEW s \in {"held", "done"},
         ClaimTo(<<kind, i>>, s)
  PROVE  /\ claim'[<<kind, i>>].state = s
         /\ \A k \in {"mat", "ires"}, e \in Instances :
               k # kind \/ e # i => claim'[<<k, e>>].state = claim[<<k, e>>].state
         /\ \A k \in JobKinds, d \in Jobs : claim'[<<k, d>>].state = claim[<<k, d>>].state
<1>1. \A k \in {"mat", "ires"}, e \in Instances : <<k, e>> \in Ids
  BY DEF Ids
<1>2. \A k \in {"mat", "ires"}, e \in Instances : <<k, e>> = <<kind, i>> => k = kind /\ e = i
  OBVIOUS
<1>3. \A k \in JobKinds, d \in Jobs : <<k, d>> \in Ids /\ <<k, d>> # <<kind, i>>
  BY DEF Ids, JobKinds
<1> QED
  BY <1>1, <1>2, <1>3 DEF ClaimTo

\* A step that leaves instances alone and takes back no publication.
LEMMA ProjectedFrame ==
  ASSUME LWTypeOK, Projected, UNCHANGED <<shape, attempt, concrete, idue>>,
         \A i \in Instances : /\ claim'[<<"mat", i>>].state = claim[<<"mat", i>>].state
                              /\ claim'[<<"ires", i>>].state = claim[<<"ires", i>>].state,
         \A j \in Jobs : publication[j] = "matched" => publication'[j] = "matched"
  PROVE  Projected'
<1>1. \A i \in Instances : /\ Done(<<"mat", i>>)' = Done(<<"mat", i>>)
                           /\ Done(<<"ires", i>>)' = Done(<<"ires", i>>)
  BY DEF Done
<1>2. Cells' = Cells /\ \A i \in Cells : JobOf(i)' = JobOf(i) /\ JobOf(i) \in Jobs
  BY ShapeType DEF Cells, JobOf
<1> QED
  BY <1>1, <1>2 DEF Projected, ProjectedAt

\* The claim of a materialization.
LEMMA MaterializationClaimStep ==
  ASSUME LWTypeOK, Projected, UNCHANGED <<shape, attempt, concrete, idue, publication>>,
         NEW i \in Cells, ClaimTo(<<"mat", i>>, "held"), ~Done(<<"mat", i>>),
         publication[JobOf(i)] = "matched"
  PROVE  Projected'
<1>0. i \in Instances
  BY ShapeType
<1>1. /\ claim'[<<"mat", i>>].state = "held"
      /\ \A k \in {"mat", "ires"}, e \in Instances :
            k # "mat" \/ e # i => claim'[<<k, e>>].state = claim[<<k, e>>].state
  BY <1>0, OneInstanceClaim
<1>2. \A e \in Instances : /\ e # i => claim'[<<"mat", e>>].state = claim[<<"mat", e>>].state
                           /\ claim'[<<"ires", e>>].state = claim[<<"ires", e>>].state
  BY <1>1
<1>3. \A e \in Instances : /\ Done(<<"mat", e>>)' = Done(<<"mat", e>>)
                           /\ Done(<<"ires", e>>)' = Done(<<"ires", e>>)
  BY <1>1, <1>2 DEF Done
<1>4. Cells' = Cells /\ \A e : JobOf(e)' = JobOf(e)
  BY DEF Cells, JobOf
<1> QED
  BY <1>1, <1>2, <1>3, <1>4 DEF Projected, ProjectedAt

\* The materialization of an instance.
LEMMA MaterializedStep ==
  ASSUME LWTypeOK, Projected, UNCHANGED <<shape, idue, publication>>,
         NEW i \in Cells, ClaimTo(<<"mat", i>>, "done"), claim[<<"mat", i>>].state = "held",
         concrete' = [concrete EXCEPT ![i] = @ + 1], attempt' = [attempt EXCEPT ![i] = "open"]
  PROVE  Projected'
<1>0. i \in Instances
  BY ShapeType
<1>1. /\ claim'[<<"mat", i>>].state = "done"
      /\ \A k \in {"mat", "ires"}, e \in Instances :
            k # "mat" \/ e # i => claim'[<<k, e>>].state = claim[<<k, e>>].state
  BY <1>0, OneInstanceClaim
<1>2. \A e \in Instances : /\ e # i => /\ claim'[<<"mat", e>>].state = claim[<<"mat", e>>].state
                                       /\ concrete'[e] = concrete[e] /\ attempt'[e] = attempt[e]
                           /\ claim'[<<"ires", e>>].state = claim[<<"ires", e>>].state
  BY <1>1 DEF LWTypeOK
<1>3. /\ ~Done(<<"mat", i>>) /\ Done(<<"mat", i>>)'
      /\ attempt'[i] = "open" /\ concrete[i] = 0 /\ concrete'[i] = 1
      /\ attempt[i] = "none" /\ i \notin idue /\ claim[<<"ires", i>>].state = "none"
  <2>1. ~Done(<<"mat", i>>) /\ Done(<<"mat", i>>)'
    BY <1>1 DEF Done
  <2>2. concrete[i] = 0 /\ attempt[i] = "none"
    BY <1>0, <2>1 DEF Projected, ProjectedAt
  <2>3. attempt[i] \notin Final
    BY <2>2, FinalConclusions
  <2>4. i \notin idue /\ claim[<<"ires", i>>].state = "none"
    BY <1>0, <2>3 DEF Projected, ProjectedAt
  <2> QED
    BY <1>0, <2>1, <2>2, <2>4 DEF LWTypeOK
<1>4. \A e \in Instances : /\ e # i => Done(<<"mat", e>>)' = Done(<<"mat", e>>)
                           /\ Done(<<"ires", e>>)' = Done(<<"ires", e>>)
  BY <1>2 DEF Done
<1>5. Cells' = Cells /\ \A e : JobOf(e)' = JobOf(e)
  BY DEF Cells, JobOf
<1>6. publication[JobOf(i)] = "matched"
  BY <1>0 DEF Projected, ProjectedAt
<1>7. ASSUME NEW e \in Instances, e # i PROVE ProjectedAt(e)'
  BY <1>2, <1>4, <1>5, <1>7 DEF Projected, ProjectedAt
<1>8. ProjectedAt(i)'
  BY <1>0, <1>1, <1>2, <1>3, <1>4, <1>5, <1>6 DEF ProjectedAt
<1> QED
  BY <1>7, <1>8 DEF Projected

\* The end of open attempts, with their due rows.
LEMMA EndedStep ==
  ASSUME LWTypeOK, LWTypeOK', Projected, UNCHANGED <<shape, publication, concrete, claim>>,
         \A i \in Instances : attempt'[i] = attempt[i] \/ (attempt[i] = "open" /\ attempt'[i] # "none"),
         \A i \in idue' : i \in idue \/ (attempt'[i] \notin {"none", "open", "invalid"} /\ attempt[i] = "open")
  PROVE  Projected'
<1>1. \A i \in Instances : attempt'[i] \in Final \cup {"none", "open", "invalid"}
  BY DEF LWTypeOK
<1>2. \A i \in Instances : /\ Done(<<"mat", i>>)' = Done(<<"mat", i>>)
                           /\ Done(<<"ires", i>>)' = Done(<<"ires", i>>)
  BY DEF Done
<1>3. Cells' = Cells /\ \A e : JobOf(e)' = JobOf(e)
  BY DEF Cells, JobOf
<1>4. \A i \in Instances : attempt[i] \in Final => attempt'[i] = attempt[i]
  BY FinalConclusions
<1>5. \A i \in Instances : attempt[i] = "open" => ~Done(<<"ires", i>>)
  BY FinalConclusions DEF Projected, ProjectedAt, Done
<1>6. ASSUME NEW i \in Instances PROVE ProjectedAt(i)'
  <2>1. ProjectedAt(i)
    BY DEF Projected
  <2>2. attempt'[i] # "none" <=> attempt[i] # "none"
    OBVIOUS
  <2>3. i \in idue' => attempt'[i] \in Final /\ ~Done(<<"ires", i>>)'
    BY <1>1, <1>2, <1>4, <1>5, <2>1 DEF ProjectedAt
  <2> QED
    BY <1>2, <1>3, <1>4, <2>1, <2>2, <2>3 DEF ProjectedAt
<1> QED
  BY <1>6 DEF Projected

\* The claim of an instance result, or the result itself.
LEMMA InstanceResultStep ==
  ASSUME LWTypeOK, Projected, UNCHANGED <<shape, attempt, concrete, publication>>,
         NEW i \in Cells, NEW s \in {"held", "done"}, ClaimTo(<<"ires", i>>, s),
         attempt[i] \in Final,
         \/ s = "held" /\ ~Done(<<"ires", i>>) /\ idue' = idue
         \/ s = "done" /\ idue' = idue \ {i}
  PROVE  Projected'
<1>0. i \in Instances
  BY ShapeType
<1>1. /\ claim'[<<"ires", i>>].state = s
      /\ \A k \in {"mat", "ires"}, e \in Instances :
            k # "ires" \/ e # i => claim'[<<k, e>>].state = claim[<<k, e>>].state
  BY <1>0, OneInstanceClaim
<1>2. \A e \in Instances : /\ e # i => claim'[<<"ires", e>>].state = claim[<<"ires", e>>].state
                           /\ claim'[<<"mat", e>>].state = claim[<<"mat", e>>].state
  BY <1>1
<1>3. \A e \in Instances : /\ Done(<<"mat", e>>)' = Done(<<"mat", e>>)
                           /\ e # i => Done(<<"ires", e>>)' = Done(<<"ires", e>>)
  BY <1>2 DEF Done
<1>4. Cells' = Cells /\ \A e : JobOf(e)' = JobOf(e)
  BY DEF Cells, JobOf
<1>5. s = "held" => ~Done(<<"ires", i>>)'
  BY <1>1 DEF Done
<1> QED
  BY <1>0, <1>1, <1>2, <1>3, <1>4, <1>5 DEF Projected, ProjectedAt

-----------------------------------------------------------------------------
(* Every step keeps the evidence.                                          *)

Evidence == JobInv /\ Projected

\* A step that changes no state of a claim and nothing of the graph or the work.
LEMMA QuietStep ==
  ASSUME LWTypeOK, Evidence, UNCHANGED <<shape, graph, work, idue>>,
         \A x \in Ids : claim'[x].state = claim[x].state
  PROVE  Evidence'
<1>1. \A k \in JobKinds, d \in Jobs : claim'[<<k, d>>].state = claim[<<k, d>>].state
  BY DEF Ids, JobKinds
<1>2. \A i \in Instances : /\ claim'[<<"mat", i>>].state = claim[<<"mat", i>>].state
                           /\ claim'[<<"ires", i>>].state = claim[<<"ires", i>>].state
  BY IdsOf
<1>3. JobInv'
  BY <1>1, <1>2, JobFrame DEF Evidence, Done, work
<1>4. Projected'
  BY <1>2, ProjectedFrame DEF Evidence, graph, work
<1> QED
  BY <1>3, <1>4 DEF Evidence

\* A step of instances only.
LEMMA InstanceOnly ==
  ASSUME LWTypeOK, Evidence, UNCHANGED <<shape, graph>>, NEW kind \in {"mat", "ires"}, NEW i \in Instances,
         NEW s \in {"held", "done"}, ClaimTo(<<kind, i>>, s), s = "held" => ~Done(<<kind, i>>),
         \A e \in Instances : attempt[e] \in {"success", "skipped"} => attempt'[e] = attempt[e]
  PROVE  JobInv'
<1>1. /\ claim'[<<kind, i>>].state = s
      /\ \A k \in {"mat", "ires"}, e \in Instances :
            k # kind \/ e # i => claim'[<<k, e>>].state = claim[<<k, e>>].state
      /\ \A k \in JobKinds, d \in Jobs : claim'[<<k, d>>].state = claim[<<k, d>>].state
  BY OneInstanceClaim, ZenonT(60)
<1>2. \A e \in Instances : Done(<<"ires", e>>) => Done(<<"ires", e>>)'
  <2> SUFFICES ASSUME NEW e \in Instances, Done(<<"ires", e>>) PROVE Done(<<"ires", e>>)'
    OBVIOUS
  <2>1. CASE kind = "ires" /\ e = i
    BY <1>1, <2>1 DEF Done
  <2>2. CASE kind # "ires" \/ e # i
    BY <1>1, <2>2 DEF Done
  <2> QED
    BY <2>1, <2>2
<1> QED
  BY <1>1, <1>2, JobFrame DEF Evidence

\* A step of jobs only.
LEMMA JobOnly ==
  ASSUME LWTypeOK, Evidence, NEW kind \in JobKinds, NEW j \in Jobs, NEW s \in {"held", "done"},
         ClaimTo(<<kind, j>>, s), UNCHANGED <<shape, work, idue>>,
         \A d \in Jobs : publication[d] = "matched" => publication'[d] = "matched"
  PROVE  Projected'
<1>1. \A i \in Instances : /\ claim'[<<"mat", i>>].state = claim[<<"mat", i>>].state
                           /\ claim'[<<"ires", i>>].state = claim[<<"ires", i>>].state
  BY OneJobClaim
<1> QED
  BY <1>1, ProjectedFrame DEF Evidence, work

\* The evidence survives every step.
LEMMA EvidenceStep ==
  ASSUME LWTypeOK, LWTypeOK', Custody, Evidence, [LWNext]_lwVars
  PROVE  Evidence'
<1> USE DEF graph, due
<1>1. /\ Cells \subseteq Instances /\ \A i \in Cells : JobOf(i) \in Jobs
      /\ \A i \in Instances : <<"mat", i>> \in Ids /\ <<"ires", i>> \in Ids
      /\ \A j \in Jobs : <<"prep", j>> \in Ids /\ <<"act", j>> \in Ids /\ <<"jres", j>> \in Ids
      /\ "prep" \in JobKinds /\ "act" \in JobKinds /\ "jres" \in JobKinds
  BY ShapeType, IdsOf DEF JobKinds
<1>2. JobInv /\ Projected
  BY DEF Evidence
<1>10. ASSUME NEW w \in Workers, NEW j \in Jobs, ClaimOrchestration(w, j) PROVE Evidence'
  <2>1. /\ Active(j) /\ Steps(j) /\ NeedsReady(j)
        /\ UNCHANGED <<shape, run, conclusion, carried, publication, result, work, idue>>
    BY <1>10 DEF ClaimOrchestration
  <2>2. CASE job[j] = "pending" /\ ~Done(<<"prep", j>>) /\ Take(w, <<"prep", j>>) /\ UNCHANGED job
    <3>1. ClaimTo(<<"prep", j>>, "held")
      BY <1>1, <2>2, TakeStates
    <3>2. JobInv'
      BY <1>2, <2>1, <2>2, <3>1, PreparationStep DEF work
    <3>3. Projected'
      BY <1>1, <2>1, <3>1, JobOnly
    <3> QED
      BY <3>2, <3>3 DEF Evidence
  <2>3. CASE /\ job[j] = "activating" \/ (job[j] = "pending" /\ Done(<<"prep", j>>))
             /\ Take(w, <<"act", j>>)
             /\ job' = [job EXCEPT ![j] = "activating"]
    <3>1. ClaimTo(<<"act", j>>, "held") /\ ~Done(<<"act", j>>)
      BY <1>1, <2>3, TakeStates DEF Done
    <3>2. JobInv'
      BY <1>2, <2>1, <2>3, <3>1, ActivatingStep DEF work
    <3>3. Projected'
      BY <1>1, <2>1, <3>1, JobOnly
    <3> QED
      BY <3>2, <3>3 DEF Evidence
  <2> QED
    BY <1>10, <2>2, <2>3 DEF ClaimOrchestration
<1>11. ASSUME NEW w \in Workers, NEW j \in Jobs, BindPreparation(w, j) PROVE Evidence'
  <2>1. Finish(w) /\ hold[w].id = <<"prep", j>> /\ UNCHANGED <<shape, graph, work, idue>>
    BY <1>11 DEF BindPreparation, Holds
  <2>2. ClaimTo(<<"prep", j>>, "done") /\ claim[<<"prep", j>>].state = "held"
    BY <1>1, <2>1, FinishStates
  <2>3. JobInv'
    BY <1>2, <2>1, <2>2, PreparationStep DEF work, Done
  <2>4. Projected'
    BY <1>1, <2>1, <2>2, JobOnly
  <2> QED
    BY <2>3, <2>4 DEF Evidence
<1>12. ASSUME NEW w \in Workers, NEW j \in Jobs, NEW matched \in BOOLEAN, PublishActivation(w, j, matched)
       PROVE  Evidence'
  <2>1. /\ Finish(w) /\ hold[w].id = <<"act", j>>
        /\ publication' = [publication EXCEPT ![j] = IF matched THEN "matched" ELSE "unmatched"]
        /\ job' = [job EXCEPT ![j] = IF matched THEN "activated" ELSE "skipped"]
        /\ UNCHANGED <<shape, run, conclusion, carried, result, work, idue>>
    BY <1>12 DEF PublishActivation, Holds
  <2>2. ClaimTo(<<"act", j>>, "done") /\ claim[<<"act", j>>].state = "held"
    BY <1>1, <2>1, FinishStates
  <2>3. JobInv'
    BY <1>2, <2>1, <2>2, ActivatedStep DEF work
  <2>4. publication[j] = "none"
    BY <1>2, <2>2 DEF JobInv, Ordered, OrderedAt, Done
  <2>5. \A d \in Jobs : publication[d] = "matched" => publication'[d] = "matched"
    BY <2>1, <2>4 DEF LWTypeOK
  <2>6. Projected'
    BY <1>1, <2>1, <2>2, <2>5, JobOnly
  <2> QED
    BY <2>3, <2>6 DEF Evidence
<1>13. ASSUME NEW w \in Workers, NEW j \in Jobs, ClaimJobResult(w, j) PROVE Evidence'
  <2>1. UNCHANGED <<shape, graph, work, idue>>
    BY <1>13 DEF ClaimJobResult
  <2>2. CASE JobTargetOpen(j)
    <3>1. Take(w, <<"jres", j>>) /\ publication[j] # "none"
      BY <1>13, <2>2 DEF ClaimJobResult, JobTargetOpen
    <3>2. ClaimTo(<<"jres", j>>, "held") /\ ~Done(<<"jres", j>>)
      BY <1>1, <3>1, TakeStates DEF Done
    <3>3. JobInv'
      BY <1>2, <2>1, <3>1, <3>2, ResultClaimStep DEF work
    <3>4. Projected'
      BY <1>1, <2>1, <3>2, JobOnly
    <3> QED
      BY <3>3, <3>4 DEF Evidence
  <2>3. CASE ~JobTargetOpen(j)
    BY <1>13, <2>1, <2>3, QuietStep DEF ClaimJobResult
  <2> QED
    BY <2>2, <2>3
<1>14. ASSUME NEW w \in Workers, NEW j \in Jobs, CommitJobResult(w, j) PROVE Evidence'
  <2> DEFINE verdict == JobConclusion(j)
  <2>1. /\ Finish(w) /\ hold[w].id = <<"jres", j>> /\ JobTargetOpen(j)
        /\ result' = [result EXCEPT ![j] = verdict] /\ job' = [job EXCEPT ![j] = TerminalJobState(verdict)]
        /\ UNCHANGED <<shape, run, conclusion, carried, publication, work, idue>>
    BY <1>14 DEF CommitJobResult, Holds
  <2>2. ClaimTo(<<"jres", j>>, "done") /\ ~Done(<<"jres", j>>)
    BY <1>1, <2>1, FinishStates DEF Done
  <2>3. Running /\ Steps(j) /\ publication[j] # "none" /\ Published(j) \subseteq FinalInstances
    BY <2>1 DEF JobTargetOpen, Active, DescriptorComplete
  <2>4. verdict \in Final
    BY AggregateOf DEF JobConclusion
  <2>5. verdict = "success" => \A i \in Published(j) : attempt[i] \in {"success", "skipped"}
    <3> DEFINE S == {attempt[i] : i \in Published(j)}
    <3>1. verdict = Aggregate(S) /\ \A i \in Published(j) : attempt[i] \in S
      BY DEF JobConclusion
    <3> HIDE DEF S, verdict
    <3>2. Aggregate(S) = "success" => "failure" \notin S /\ "timed_out" \notin S /\ "cancelled" \notin S
      BY AggregateOf
    <3>3. \A i \in Published(j) : attempt[i] \in Final
      BY <1>2, <2>3 DEF FinalInstances, Done, Projected, ProjectedAt
    <3> QED
      BY <3>1, <3>2, <3>3, FinalConclusions
  <2>6. shape.callees[j] = {}
    BY <2>3 DEF Steps
  <2> HIDE DEF verdict
  <2>7. JobInv'
    BY <1>2, <2>1, <2>2, <2>3, <2>4, <2>5, <2>6, ResultStep DEF work
  <2>8. Projected'
    BY <1>1, <2>1, <2>2, JobOnly
  <2> QED
    BY <2>7, <2>8 DEF Evidence
<1>15. ASSUME NEW w \in Workers, NEW i \in Cells, ClaimMaterialization(w, i) PROVE Evidence'
  <2>1. /\ Take(w, <<"mat", i>>) /\ i \in Published(JobOf(i)) /\ UNCHANGED <<shape, graph, work, idue>>
    BY <1>15 DEF ClaimMaterialization
  <2>2. ClaimTo(<<"mat", i>>, "held") /\ ~Done(<<"mat", i>>)
    BY <1>1, <2>1, TakeStates DEF Done
  <2>3. publication[JobOf(i)] = "matched"
    BY <2>1 DEF Published
  <2>4. JobInv'
    BY <1>1, <2>1, <2>2, InstanceOnly DEF work
  <2>5. Projected'
    BY <1>2, <2>1, <2>2, <2>3, MaterializationClaimStep DEF work
  <2> QED
    BY <2>4, <2>5 DEF Evidence
<1>16. ASSUME NEW w \in Workers, NEW i \in Cells, CommitMaterialization(w, i) PROVE Evidence'
  <2>1. /\ Finish(w) /\ hold[w].id = <<"mat", i>> /\ UNCHANGED <<shape, graph, idue>>
        /\ concrete' = [concrete EXCEPT ![i] = @ + 1] /\ attempt' = [attempt EXCEPT ![i] = "open"]
    BY <1>16 DEF CommitMaterialization, Holds
  <2>2. ClaimTo(<<"mat", i>>, "done") /\ claim[<<"mat", i>>].state = "held"
    BY <1>1, <2>1, FinishStates
  <2>3. attempt[i] = "none"
    BY <1>1, <1>2, <2>2 DEF Projected, ProjectedAt, Done
  <2>4. \A e \in Instances : attempt[e] \in {"success", "skipped"} => attempt'[e] = attempt[e]
    BY <1>1, <2>1, <2>3 DEF LWTypeOK
  <2>5. JobInv'
    BY <1>1, <2>1, <2>2, <2>4, InstanceOnly
  <2>6. Projected'
    BY <1>2, <2>1, <2>2, MaterializedStep
  <2> QED
    BY <2>5, <2>6 DEF Evidence
<1>17. ASSUME NEW w \in Workers, NEW i \in Cells, ClaimInstanceResult(w, i) PROVE Evidence'
  <2>1. UNCHANGED <<shape, graph, work, idue>> /\ i \in idue
    BY <1>17 DEF ClaimInstanceResult
  <2>2. CASE InstanceTargetOpen(i)
    <3>1. Take(w, <<"ires", i>>)
      BY <1>17, <2>2 DEF ClaimInstanceResult
    <3>2. ClaimTo(<<"ires", i>>, "held") /\ ~Done(<<"ires", i>>)
      BY <1>1, <3>1, TakeStates DEF Done
    <3>3. JobInv'
      BY <1>1, <2>1, <3>2, InstanceOnly DEF work
    <3>4. attempt[i] \in Final
      BY <1>1, <1>2, <2>1 DEF Projected, ProjectedAt
    <3>5. Projected'
      BY <1>2, <2>1, <3>2, <3>4, InstanceResultStep DEF work
    <3> QED
      BY <3>3, <3>5 DEF Evidence
  <2>3. CASE ~InstanceTargetOpen(i)
    BY <1>17, <2>1, <2>3, QuietStep DEF ClaimInstanceResult
  <2> QED
    BY <2>2, <2>3
<1>18. ASSUME NEW w \in Workers, NEW i \in Cells, WriteInstanceResult(w, i) PROVE Evidence'
  BY <1>18, QuietStep DEF WriteInstanceResult
<1>19. ASSUME NEW w \in Workers, NEW i \in Cells, RefreshAfterWrite(w, i) PROVE Evidence'
  BY <1>19, QuietStep DEF RefreshAfterWrite
<1>20. ASSUME NEW w \in Workers, NEW i \in Cells, CommitInstanceResult(w, i) PROVE Evidence'
  <2>1. /\ hold[w].id = <<"ires", i>> /\ claim' = [claim EXCEPT ![<<"ires", i>>].state = "done"]
        /\ idue' = idue \ {i} /\ UNCHANGED <<shape, graph, work>>
    BY <1>20 DEF CommitInstanceResult
  <2>2. ClaimTo(<<"ires", i>>, "done")
    BY <1>1, <2>1 DEF ClaimTo, LWTypeOK
  <2>3. hold[w].id # Free
    BY <1>1, <2>1, IdsOf
  <2>4. claim[<<"ires", i>>].state # "none"
    BY <2>1, <2>3 DEF Custody
  <2>5. attempt[i] \in Final
    BY <1>1, <1>2, <2>4 DEF Projected, ProjectedAt
  <2>6. JobInv'
    BY <1>1, <2>1, <2>2, InstanceOnly DEF work
  <2>7. Projected'
    BY <1>2, <2>1, <2>2, <2>5, InstanceResultStep DEF work
  <2> QED
    BY <2>6, <2>7 DEF Evidence
<1>21. ASSUME ClaimTo(Root, "held"), UNCHANGED <<shape, graph, work, idue>> PROVE Evidence'
  <2>1. \A k \in JobKinds, d \in Jobs : claim'[<<k, d>>].state = claim[<<k, d>>].state
    BY <1>21 DEF ClaimTo, Ids, JobKinds, Root
  <2>2. \A i \in Instances : /\ claim'[<<"mat", i>>].state = claim[<<"mat", i>>].state
                             /\ claim'[<<"ires", i>>].state = claim[<<"ires", i>>].state
    BY <1>21 DEF ClaimTo, Ids, Root
  <2>3. JobInv'
    BY <1>2, <1>21, <2>1, <2>2, JobFrame DEF work, Done
  <2>4. Projected'
    BY <1>2, <1>21, <2>2, ProjectedFrame DEF work
  <2> QED
    BY <2>3, <2>4 DEF Evidence
<1>22. ASSUME NEW w \in Workers, ClaimRunFinalization(w) PROVE Evidence'
  BY <1>21, <1>22, IdsOf, TakeStates DEF ClaimRunFinalization
<1>23. ASSUME NEW w \in Workers, CommitRunFinalization(w) PROVE Evidence'
  <2>1. /\ Finish(w) /\ hold[w].id = Root /\ FinalizationReady /\ run' = "finalized"
        /\ conclusion' = Aggregate({result[j] : j \in shape.root})
        /\ UNCHANGED <<shape, job, carried, publication, result, work, idue>>
    BY <1>23 DEF CommitRunFinalization, Holds
  <2>2. ClaimTo(Root, "done")
    BY <2>1, IdsOf, FinishStates
  <2>3. JobInv'
    BY <1>2, <2>1, <2>2, RunResultStep DEF work
  <2>4. \A i \in Instances : /\ claim'[<<"mat", i>>].state = claim[<<"mat", i>>].state
                             /\ claim'[<<"ires", i>>].state = claim[<<"ires", i>>].state
    BY <2>2 DEF ClaimTo, Ids, Root
  <2>5. Projected'
    BY <1>2, <2>1, <2>4, ProjectedFrame DEF work
  <2> QED
    BY <2>3, <2>5 DEF Evidence
<1>24. ASSUME NEW w \in Workers, ReplayRenew(w) PROVE Evidence'
  BY <1>24, QuietStep DEF ReplayRenew
<1>25. ASSUME NEW w \in Workers, Forget(w) PROVE Evidence'
  BY <1>25, QuietStep DEF Forget
<1>26. ASSUME NEW w \in Workers, Renew(w) PROVE Evidence'
  <2>1. claim' = [claim EXCEPT ![hold[w].id].gen = @ + 1] /\ UNCHANGED <<shape, graph, work, idue>>
    BY <1>26 DEF Renew
  <2>2. \A x \in Ids : claim'[x].state = claim[x].state
    BY <2>1 DEF LWTypeOK
  <2> QED
    BY <2>1, <2>2, QuietStep
<1>27. ASSUME NEW w \in Workers, Quarantine(w) PROVE Evidence'
  BY <1>27, QuietStep DEF Quarantine
<1>28. ASSUME NEW id \in Ids, Expire(id) PROVE Evidence'
  <2>1. claim' = [claim EXCEPT ![id].live = FALSE] /\ UNCHANGED <<shape, graph, work, idue>>
    BY <1>28 DEF Expire
  <2>2. \A x \in Ids : claim'[x].state = claim[x].state
    BY <2>1 DEF LWTypeOK
  <2> QED
    BY <2>1, <2>2, QuietStep
<1>29. ASSUME UNCHANGED <<shape, graph, concrete, claim>>,
              \A i \in Instances : attempt'[i] = attempt[i] \/ (attempt[i] = "open" /\ attempt'[i] # "none"),
              \A i \in idue' : i \in idue \/ (attempt'[i] \notin {"none", "open", "invalid"} /\ attempt[i] = "open")
       PROVE  Evidence'
  <2>1. JobInv'
    BY <1>2, <1>29, JobFrame DEF Done
  <2>2. Projected'
    BY <1>2, <1>29, EndedStep
  <2> QED
    BY <2>1, <2>2 DEF Evidence
<1>30. ASSUME NEW i \in Cells, NEW c \in Conclusions, Conclude(i, c) PROVE Evidence'
  <2>1. /\ attempt[i] = "open" /\ attempt' = [attempt EXCEPT ![i] = c] /\ c # "none"
        /\ idue' = (IF InstanceReady(i, attempt') THEN idue \cup {i} ELSE idue \ {i})
        /\ UNCHANGED <<shape, graph, concrete, claim>>
    BY <1>30, Bounds DEF Conclude
  <2>2. \A e \in Instances : attempt'[e] = attempt[e] \/ (attempt[e] = "open" /\ attempt'[e] # "none")
    BY <1>1, <2>1 DEF LWTypeOK
  <2>3. \A e \in idue' : e \in idue \/ (attempt'[e] \notin {"none", "open", "invalid"} /\ attempt[e] = "open")
    BY <2>1 DEF InstanceReady
  <2> QED
    BY <1>29, <2>1, <2>2, <2>3
<1>31. ASSUME NEW i \in Cells, FailInvalid(i) PROVE Evidence'
  <2>1. /\ attempt[i] = "open" /\ attempt' = [attempt EXCEPT ![i] = "invalid"] /\ idue' = idue \ {i}
        /\ UNCHANGED <<shape, graph, concrete, claim>>
    BY <1>31 DEF FailInvalid
  <2>2. \A e \in Instances : attempt'[e] = attempt[e] \/ (attempt[e] = "open" /\ attempt'[e] # "none")
    BY <1>1, <2>1 DEF LWTypeOK
  <2> QED
    BY <1>29, <2>1, <2>2
<1>32. ASSUME NEW c \in Jobs, NEW matched \in BOOLEAN, PublishCall(c, matched) PROVE Evidence'
  <2>1. JobInv'
    BY <1>2, <1>32, CallPublishedStep
  <2>2. /\ publication' = [publication EXCEPT ![c] = IF matched THEN "matched" ELSE "unmatched"]
        /\ job[c] = "pending" /\ UNCHANGED <<shape, work, claim, idue>>
    BY <1>32 DEF PublishCall
  <2>3. \A d \in Jobs : publication[d] = "matched" => publication'[d] = "matched"
    BY <1>2, <2>2 DEF LWTypeOK, JobInv, Ordered, OrderedAt
  <2>4. Projected'
    BY <1>2, <2>2, <2>3, ProjectedFrame DEF work
  <2> QED
    BY <2>1, <2>4 DEF Evidence
<1>33. ASSUME NEW c \in Jobs, CompleteCall(c) PROVE Evidence'
  <2>1. JobInv'
    BY <1>2, <1>33, CallCompletedStep
  <2>2. /\ claim' = [claim EXCEPT ![<<"jres", c>>] = [state |-> "done", gen |-> 1, live |-> TRUE]]
        /\ UNCHANGED <<shape, publication, work, idue>>
    BY <1>33 DEF CompleteCall
  <2>3. ClaimTo(<<"jres", c>>, "done")
    BY <1>1, <2>2 DEF ClaimTo, LWTypeOK
  <2>4. Projected'
    BY <1>1, <2>2, <2>3, JobOnly
  <2> QED
    BY <2>1, <2>4 DEF Evidence
<1>34. ASSUME NEW queued \in SUBSET Cells, Preempt(queued) PROVE Evidence'
  <2>1. JobInv'
    BY <1>2, <1>34, PreemptedStep
  <2>2. /\ \A i \in queued : attempt[i] = "open"
        /\ attempt' = [i \in Instances |-> IF i \in queued THEN "cancelled" ELSE attempt[i]]
        /\ idue' = idue \cup {i \in queued : InstanceReady(i, attempt')}
        /\ UNCHANGED <<shape, publication, concrete, claim>>
    BY <1>34 DEF Preempt
  <2>3. \A i \in Instances : attempt'[i] = attempt[i] \/ (attempt[i] = "open" /\ attempt'[i] # "none")
    BY <2>2
  <2>4. \A i \in idue' : i \in idue \/ (attempt'[i] \notin {"none", "open", "invalid"} /\ attempt[i] = "open")
    BY <2>2 DEF InstanceReady
  <2>5. Projected'
    BY <1>2, <2>2, <2>3, <2>4, EndedStep
  <2> QED
    BY <2>1, <2>5 DEF Evidence
<1>35. ASSUME NEW selected \in Selections, Rerun(selected) PROVE Evidence'
  <2>1. JobInv'
    BY <1>2, <1>35, RerunStep
  <2>2. /\ attempt' = [i \in Instances |-> "none"] /\ concrete' = [i \in Instances |-> 0] /\ idue' = {}
        /\ claim' = [id \in Ids |-> Unclaimed]
    BY <1>35 DEF Rerun
  <2>3. \A i \in Instances : claim'[<<"mat", i>>].state = "none" /\ claim'[<<"ires", i>>].state = "none"
    BY <1>1, <2>2 DEF Unclaimed
  <2>4. \A i \in Instances : ProjectedAt(i)'
    BY <2>2, <2>3 DEF ProjectedAt, Done
  <2> QED
    BY <2>1, <2>4 DEF Evidence, Projected
<1>36. CASE UNCHANGED lwVars
  BY <1>36, QuietStep DEF lwVars
<1> QED
  BY <1>10, <1>11, <1>12, <1>13, <1>14, <1>15, <1>16, <1>17, <1>18, <1>19, <1>20, <1>22, <1>23,
     <1>24, <1>25, <1>26, <1>27, <1>28, <1>30, <1>31, <1>32, <1>33, <1>34, <1>35, <1>36
     DEF LWNext, WorkerStep, CallStep

-----------------------------------------------------------------------------
(* The invariant of the orchestration.                                     *)

LWInv == LWTypeOK /\ Custody /\ Evidence

\* A run is admitted with the jobs of the workflow itself and nothing else.
LEMMA LWInitInv == LWInit => LWInv
<1> SUFFICES ASSUME LWInit PROVE LWInv
  OBVIOUS
<1>1. \A x \in Ids : claim[x].state = "none"
  BY DEF LWInit, Unclaimed
<1>2. LWTypeOK
  <2>1. /\ \A w \in Workers : hold[w] \in Hands
        /\ hold \in [Workers -> Hands]
    BY DEF LWInit, Nothing, Hands
  <2>2. claim \in [Ids -> [state : {"none", "held", "done"}, gen : Nat, live : BOOLEAN]]
    BY DEF LWInit, Unclaimed
  <2>3. round \in 1..MaxRounds /\ faults \in 0..MaxFaults
    BY Bounds DEF LWInit
  <2> QED
    BY <2>1, <2>2, <2>3 DEF LWInit, LWTypeOK, Hands, JobStates
<1>3. /\ \A j \in Jobs : /\ claim[<<"prep", j>>].state = "none" /\ claim[<<"act", j>>].state = "none"
                         /\ claim[<<"jres", j>>].state = "none"
      /\ \A i \in Instances : claim[<<"mat", i>>].state = "none" /\ claim[<<"ires", i>>].state = "none"
  BY <1>1, IdsOf
<1>4. Custody
  <2>1. \A w \in Workers : hold[w].id = Free /\ hold[w].stage = "idle"
    BY DEF LWInit, Nothing
  <2>2. \A j \in Jobs : <<"jres", j>> # Free
    BY DEF Free
  <2> QED
    BY <2>1, <2>2 DEF Custody
<1>5. Reach
  BY <1>3 DEF LWInit, Reach, Untouched
<1>6. CarriedKept
  BY DEF LWInit, CarriedKept
<1>7. Ordered
  BY <1>3 DEF LWInit, Ordered, OrderedAt, Done
<1>8. Recorded
  BY <1>3 DEF LWInit, Recorded, RecordedAt, Done
<1>9. Concluded
  BY DEF LWInit, Concluded
<1>10. Projected
  BY <1>3 DEF LWInit, Projected, ProjectedAt, Done
<1> QED
  BY <1>2, <1>4, <1>5, <1>6, <1>7, <1>8, <1>9, <1>10 DEF LWInv, Evidence, JobInv

\* Every run of the orchestration keeps its rows well typed, the custody of
\* claims and the evidence behind every result.
THEOREM WorkflowInvariant == LWSpec => []LWInv
<1>1. LWInv /\ [LWNext]_lwVars => LWInv'
  BY LWTypeStep, CustodyStep, EvidenceStep DEF LWInv
<1> QED
  BY <1>1, LWInitInv, PTL DEF LWSpec

\* Claims: two workers never both match the fence of a claim, whatever expires
\* and however many renewal answers are lost (matches_fence).
THEOREM CustodyExclusive == LWSpec => []ExclusiveCustody
<1>1. LWInv => ExclusiveCustody
  <2> SUFFICES ASSUME LWInv, NEW v \in Workers, NEW w \in Workers, v # w, hold[v].id = hold[w].id,
                      hold[v].id # Free, Fence(v), Fence(w)
               PROVE  FALSE
    BY DEF ExclusiveCustody
  <2>1. /\ Known(v) <= claim[hold[v].id].gen /\ Known(w) <= claim[hold[v].id].gen
        /\ Known(v) # Known(w)
    BY DEF LWInv, Custody
  <2>2. hold[v].gen = claim[hold[v].id].gen /\ hold[w].gen = claim[hold[v].id].gen
    BY DEF Fence
  <2>3. hold[v].gen \in Nat /\ hold[w].gen \in Nat
    BY DEF LWInv, LWTypeOK
  <2> QED
    BY <2>1, <2>2, <2>3 DEF Known
<1> QED
  BY <1>1, WorkflowInvariant, PTL

\* Materialization: an instance becomes at most one concrete job, and an
\* attempt belongs to exactly one (insert_job, insert_initial_attempt).
THEOREM ConcreteJobsUnique == LWSpec => []OneConcreteJob
<1>1. LWInv => OneConcreteJob
  <2> SUFFICES ASSUME LWInv, NEW i \in Instances
               PROVE  LWTypeOK /\ concrete[i] <= 1 /\ (attempt[i] # "none" => concrete[i] = 1)
    BY DEF LWInv, OneConcreteJob
  <2>1. LWTypeOK /\ ProjectedAt(i)
    BY DEF LWInv, Evidence, Projected
  <2> QED
    BY <2>1 DEF ProjectedAt
<1> QED
  BY <1>1, WorkflowInvariant, PTL

\* Selection: the work of a job starts after the results of everything it, or
\* the call it belongs to, needs (claim_next_logical_job_orchestration).
THEOREM NeedsBeforeWork == LWSpec => []ActivatedAfterNeeds
<1>1. LWInv => ActivatedAfterNeeds
  <2> SUFFICES ASSUME LWInv, NEW j \in Jobs \ carried, claim[<<"prep", j>>].state # "none",
                      NEW c \in {j} \cup CallsOf(j), NEW p \in Needs(c)
               PROVE  result[p] # "none" /\ (p \in carried \/ job[p] \in Terminal)
    BY DEF ActivatedAfterNeeds, Terminal
  <2>1. LWTypeOK /\ CarriedKept /\ Ordered /\ Recorded
    BY DEF LWInv, Evidence, JobInv
  <2>2. c \in Jobs /\ p \in Jobs
    BY <2>1, ShapeType DEF CallsOf
  <2>3. Effective(p)
    <3>1. OrderedAt(j)
      BY <2>1 DEF Ordered
    <3>2. CASE c = j
      BY <3>1, <3>2 DEF OrderedAt, NeedsReady
    <3>3. CASE c \in CallsOf(j)
      <4>1. publication[c] = "matched" /\ ~Steps(c)
        BY <3>1, <3>3 DEF OrderedAt, CallsOf, Steps
      <4> QED
        BY <2>1, <2>2, <4>1 DEF Ordered, OrderedAt, Effective
    <3> QED
      BY <3>2, <3>3
  <2> QED
    BY <2>1, <2>2, <2>3 DEF Effective, Recorded, RecordedAt, CarriedKept
<1> QED
  BY <1>1, WorkflowInvariant, PTL

\* Results: a job or a run succeeds only over complete evidence without a
\* failure (load_descriptor, aggregate_conclusion, LOCK_READY_CANDIDATE_QUERY).
THEOREM ResultsHonest == LWSpec => []ResultsComplete
<1>1. LWInv => ResultsComplete
  <2> SUFFICES ASSUME LWInv PROVE ResultsComplete
    OBVIOUS
  <2>1. LWTypeOK /\ CarriedKept /\ Recorded /\ Concluded
    BY DEF LWInv, Evidence, JobInv
  <2>2. \A j \in Jobs \ carried : result[j] = "success" =>
           \A i \in Published(j) : attempt[i] \in {"success", "skipped"} /\ Done(<<"ires", i>>)
    BY <2>1 DEF Recorded, RecordedAt, FinalInstances
  <2>3. run = "finalized" => \A j \in shape.root : result[j] # "none"
    BY <2>1, ShapeType DEF Concluded, Effective, Recorded, RecordedAt, CarriedKept
  <2>4. conclusion = "success" => \A j \in shape.root : result[j] \in {"success", "skipped"}
    BY <2>1 DEF Concluded
  <2> QED
    BY <2>2, <2>3, <2>4 DEF ResultsComplete
<1> QED
  BY <1>1, WorkflowInvariant, PTL

\* Preemption: afterwards nothing is created, activated or concluded, because
\* every commit looks at the state of the run (lock_active_logical_graph).
THEOREM PreemptionFinal == LWSpec => PreemptedStays
<1>1. [LWNext]_lwVars =>
        [run = "preempted" => run' = "preempted" /\ UNCHANGED <<job, result, concrete, conclusion>>]_lwVars
  <2> SUFFICES ASSUME [LWNext]_lwVars, run = "preempted"
               PROVE  run' = "preempted" /\ UNCHANGED <<job, result, concrete, conclusion>>
    OBVIOUS
  <2> USE DEF graph, work, due, Active, Running
  <2>1. ASSUME NEW w \in Workers, WorkerStep(w)
        PROVE  run' = "preempted" /\ UNCHANGED <<job, result, concrete, conclusion>>
    BY <2>1 DEF WorkerStep, ClaimOrchestration, BindPreparation, PublishActivation, ClaimJobResult,
                CommitJobResult, JobTargetOpen, ClaimMaterialization, CommitMaterialization,
                MaterializationOpen, ClaimInstanceResult, WriteInstanceResult, RefreshAfterWrite,
                CommitInstanceResult, ClaimRunFinalization, CommitRunFinalization,
                FinalizationReady, ReplayRenew, Forget
  <2>2. ASSUME CallStep
        PROVE  run' = "preempted" /\ UNCHANGED <<job, result, concrete, conclusion>>
    BY <2>2 DEF CallStep, PublishCall, CompleteCall
  <2>3. ASSUME NEW w \in Workers, Renew(w) \/ Quarantine(w)
        PROVE  run' = "preempted" /\ UNCHANGED <<job, result, concrete, conclusion>>
    BY <2>3 DEF Renew, Quarantine
  <2>4. ASSUME NEW id \in Ids, Expire(id)
        PROVE  run' = "preempted" /\ UNCHANGED <<job, result, concrete, conclusion>>
    BY <2>4 DEF Expire
  <2>5. ASSUME NEW i \in Cells, NEW c \in Conclusions, Conclude(i, c)
        PROVE  run' = "preempted" /\ UNCHANGED <<job, result, concrete, conclusion>>
    BY <2>5 DEF Conclude
  <2>6. ASSUME NEW i \in Cells, FailInvalid(i)
        PROVE  run' = "preempted" /\ UNCHANGED <<job, result, concrete, conclusion>>
    BY <2>6 DEF FailInvalid
  <2>7. ASSUME NEW queued \in SUBSET Cells, Preempt(queued)
        PROVE  run' = "preempted" /\ UNCHANGED <<job, result, concrete, conclusion>>
    BY <2>7 DEF Preempt
  <2>8. ASSUME NEW selected \in Selections, Rerun(selected)
        PROVE  run' = "preempted" /\ UNCHANGED <<job, result, concrete, conclusion>>
    BY <2>8 DEF Rerun
  <2>9. CASE UNCHANGED lwVars
    BY <2>9 DEF lwVars
  <2> QED
    BY <2>1, <2>2, <2>3, <2>4, <2>5, <2>6, <2>7, <2>8, <2>9 DEF LWNext
<1> QED
  BY <1>1, PTL DEF LWSpec, PreemptedStays

-----------------------------------------------------------------------------
(* Calls.  The depth of an invocation orders the argument.                 *)

\* Every nonempty set of natural numbers has a least element.
LEMMA LeastNatural ==
  ASSUME NEW T, T \subseteq Nat, T # {}
  PROVE  \E x \in T : \A y \in T : x <= y
<1> DEFINE R == OpToRel(<, Nat)
<1>1. IsWellFoundedOn(R, Nat)
  BY NatLessThanWellFounded
<1>2. \A y, x \in Nat : <<y, x>> \in R <=> y < x
  BY DEF OpToRel
<1> HIDE DEF R
<1>3. PICK x \in T : \A y \in T : ~(<<y, x>> \in R)
  BY <1>1, WFMin
<1>4. ASSUME NEW y \in T PROVE x <= y
  <2>1. x \in Nat /\ y \in Nat /\ ~(<<y, x>> \in R)
    BY <1>3
  <2>2. ~(y < x)
    BY <2>1, <1>2
  <2> QED
    BY <2>1, <2>2
<1> QED
  BY <1>4

\* A nonempty set of jobs has one at the least depth: no call that it belongs
\* to is in the set.
LEMMA Outermost ==
  ASSUME LWTypeOK, NEW S, S \subseteq Jobs, S # {}
  PROVE  \E j \in S : CallsOf(j) \cap S = {}
<1>1. shape \in Shapes
  BY DEF LWTypeOK
<1>2. \E depth \in [Jobs -> 0 .. Cardinality(Jobs)] :
          \A c \in Jobs : \A j \in shape.callees[c] : depth[j] > depth[c]
  BY <1>1, GraphAssumption
<1>3. PICK depth \in [Jobs -> 0 .. Cardinality(Jobs)] :
          \A c \in Jobs : \A j \in shape.callees[c] : depth[j] > depth[c]
  BY <1>2
<1>4. \A j \in Jobs : depth[j] \in Nat
  BY <1>3
<1> DEFINE T == {depth[j] : j \in S}
<1>5. T \subseteq Nat /\ T # {}
  BY <1>4
<1>6. PICK n \in T : \A m \in T : n <= m
  <2> HIDE DEF T
  <2> QED
    BY <1>5, LeastNatural
<1>7. PICK j \in S : depth[j] = n
  BY <1>6
<1>8. \A c \in S : ~(depth[c] < depth[j])
  BY <1>4, <1>6, <1>7
<1>9. \A c \in CallsOf(j) : c \in Jobs /\ depth[c] < depth[j]
  BY <1>3, <1>4, <1>7 DEF CallsOf
<1> QED
  BY <1>7, <1>8, <1>9

\* In a run with a result every job that exists has one.
LEMMA AllDone ==
  ASSUME LWTypeOK, JobInv, run = "finalized", carried = {}
  PROVE  \A j \in Jobs : ~Untouched(j) => Done(<<"jres", j>>)
<1> USE DEF JobInv
<1> DEFINE Open == {j \in Jobs : ~Untouched(j) /\ ~Done(<<"jres", j>>)}
<1> SUFFICES ASSUME Open # {} PROVE FALSE
  OBVIOUS
<1>1. PICK j \in Open : CallsOf(j) \cap Open = {}
  <2>1. Open \subseteq Jobs
    OBVIOUS
  <2> HIDE DEF Open
  <2> QED
    BY <2>1, Outermost
<1>2. j \notin shape.root
  BY <1>1 DEF Concluded, Effective
<1>3. PICK c \in CallsOf(j) : publication[c] = "matched"
  BY <1>1, <1>2 DEF Reach
<1>4. c \in Jobs /\ j \in shape.callees[c] /\ ~Untouched(c) /\ ~Steps(c)
  BY <1>3 DEF CallsOf, Untouched, Steps
<1>5. Done(<<"jres", c>>)
  BY <1>1, <1>3, <1>4
<1>6. CallReady(c)
  BY <1>4, <1>5 DEF Recorded, RecordedAt
<1> QED
  BY <1>1, <1>3, <1>4, <1>6 DEF CallReady

\* In a run that succeeded without carried results no job failed, at any depth.
LEMMA NoFailure ==
  ASSUME LWTypeOK, JobInv, conclusion = "success", carried = {}
  PROVE  \A j \in Jobs : result[j] # "failure"
<1> USE DEF JobInv
<1>1. run = "finalized" /\ \A j \in shape.root : result[j] \in {"success", "skipped"}
  BY DEF Concluded
<1> DEFINE Failed == {j \in Jobs : result[j] = "failure"}
<1> SUFFICES ASSUME Failed # {} PROVE FALSE
  OBVIOUS
<1>2. PICK j \in Failed : CallsOf(j) \cap Failed = {}
  <2>1. Failed \subseteq Jobs
    OBVIOUS
  <2> HIDE DEF Failed
  <2> QED
    BY <2>1, Outermost
<1>3. j \notin shape.root /\ ~Untouched(j)
  BY <1>1, <1>2 DEF Untouched
<1>4. PICK c \in CallsOf(j) : publication[c] = "matched"
  BY <1>2, <1>3 DEF Reach
<1>5. c \in Jobs /\ j \in shape.callees[c] /\ ~Untouched(c)
  BY <1>4 DEF CallsOf, Untouched
<1>6. Done(<<"jres", c>>)
  BY <1>1, <1>5, AllDone
<1>7. result[c] = "failure"
  BY <1>2, <1>5, <1>6 DEF Recorded, RecordedAt
<1> QED
  BY <1>2, <1>4, <1>5, <1>7

\* Nobody can commit anything of a job that has its result.
LEMMA ResultClosesJob ==
  ASSUME LWInv, NEW j \in Jobs, Untouched(j) \/ Done(<<"jres", j>>), NEW w \in Workers,
         hold[w].id # Free, hold[w].id # Root, JobAt(hold[w].id) = j
  PROVE  ~Fence(w)
<1>1. LWTypeOK /\ JobInv /\ Projected /\ OrderedAt(j) /\ RecordedAt(j)
  BY DEF LWInv, Evidence, JobInv, Ordered, Recorded
<1>2. hold[w].id \in Ids
  BY <1>1 DEF LWTypeOK
<1>3. CASE hold[w].id \in {"prep", "act", "jres"} \X Jobs
  <2>1. hold[w].id = <<"prep", j>> \/ hold[w].id = <<"act", j>> \/ hold[w].id = <<"jres", j>>
    BY <1>3 DEF JobAt
  <2>2. CASE Untouched(j)
    BY <2>1, <2>2 DEF Untouched, Fence
  <2>3. CASE Done(<<"jres", j>>)
    <3>1. claim[<<"prep", j>>].state # "held" /\ claim[<<"act", j>>].state # "held"
      <4>1. CASE Steps(j)
        <5>1. Done(<<"act", j>>)
          BY <1>1, <2>3, <4>1 DEF OrderedAt, RecordedAt
        <5>2. Done(<<"prep", j>>)
          BY <1>1, <5>1 DEF OrderedAt, Done
        <5> QED
          BY <5>1, <5>2 DEF Done
      <4>2. CASE ~Steps(j)
        BY <1>1, <4>2 DEF OrderedAt, Done
      <4> QED
        BY <4>1, <4>2
    <3> QED
      BY <2>1, <2>3, <3>1 DEF Done, Fence
  <2> QED
    BY <2>2, <2>3
<1>4. CASE hold[w].id \in {"mat", "ires"} \X Instances
  <2>1. PICK i \in Instances : hold[w].id = <<"mat", i>> \/ hold[w].id = <<"ires", i>>
    BY <1>4
  <2>2. JobOf(i) = j
    BY <2>1 DEF JobAt
  <2>3. ProjectedAt(i)
    BY <1>1 DEF Projected
  <2>4. claim[hold[w].id].state # "none"
    BY DEF LWInv, Custody
  <2>5. claim[<<"mat", i>>].state # "none"
    BY <2>1, <2>3, <2>4, FinalConclusions DEF ProjectedAt, Done
  <2>6. i \in Published(j)
    BY <2>2, <2>3, <2>5 DEF ProjectedAt, Published
  <2>7. ~Untouched(j)
    BY <2>6 DEF Untouched, Published
  <2>8. Done(<<"ires", i>>)
    BY <1>1, <2>6, <2>7 DEF RecordedAt, FinalInstances
  <2>9. Done(<<"mat", i>>)
    BY <2>3, <2>8, FinalConclusions DEF ProjectedAt, Done
  <2> QED
    BY <2>1, <2>8, <2>9 DEF Done, Fence
<1> QED
  BY <1>2, <1>3, <1>4 DEF Ids

\* Calls: a call with a result covers what it called, at any depth of nesting
\* (complete_reusable_workflow_call, load_child_results).
THEOREM CallsCovered == LWSpec => []CallsCoverCallees
<1>1. LWInv => CallsCoverCallees
  <2> SUFFICES ASSUME LWInv, NEW c \in Jobs, ~Steps(c), result[c] # "none", NEW j \in shape.callees[c]
               PROVE  /\ job[j] \in {"absent", "completed", "skipped", "cancelled", "failed"}
                      /\ \A w \in Workers : hold[w].id # Free /\ hold[w].id # Root
                                             /\ JobAt(hold[w].id) = j => ~Fence(w)
                      /\ result[j] = "failure" => conclusion # "success"
    BY DEF CallsCoverCallees
  <2>1. LWTypeOK /\ JobInv
    BY DEF LWInv, Evidence
  <2>2. ~AllSteps
    BY DEF AllSteps, LWInv, Evidence, JobInv, Reach, Untouched
  <2>3. carried = {}
    BY <2>1, <2>2 DEF JobInv, CarriedKept
  <2>4. Done(<<"jres", c>>) /\ CallReady(c)
    BY <2>1, <2>3 DEF JobInv, Recorded, RecordedAt
  <2>5. j \in Jobs
    BY <2>1, ShapeType
  <2>6. Untouched(j) \/ Done(<<"jres", j>>)
    BY <2>1, <2>4, Unpublished DEF CallReady, JobInv
  <2>7. job[j] \in {"absent", "completed", "skipped", "cancelled", "failed"}
    BY <2>1, <2>5, <2>6 DEF Untouched, JobInv, Recorded, RecordedAt, Terminal
  <2>8. \A w \in Workers : hold[w].id # Free /\ hold[w].id # Root
                            /\ JobAt(hold[w].id) = j => ~Fence(w)
    BY <2>5, <2>6, ResultClosesJob
  <2>9. result[j] = "failure" => conclusion # "success"
    BY <2>1, <2>3, <2>5, NoFailure
  <2> QED
    BY <2>7, <2>8, <2>9
<1> QED
  BY <1>1, WorkflowInvariant, PTL

-----------------------------------------------------------------------------
(* The due rows.                                                           *)

\* Hands that do not project, or do not change, keep the locks.
LEMMA LocksFrame ==
  ASSUME LWTypeOK, Locks, shape' = shape, locked' = locked,
         \A w \in Workers : hold'[w] = hold[w] \/ hold'[w].stage \notin {"wrote", "refreshed"}
  PROVE  Locks'
<1>1. \A w \in Workers : Projects(w)' => hold'[w] = hold[w] /\ Projects(w)
  BY DEF Projects
<1>2. Cells' = Cells /\ \A i \in Cells : JobOf(i)' = JobOf(i)
  BY DEF Cells, JobOf
<1>3. ASSUME NEW w \in Workers, Projects(w)'
      PROVE  \E i \in Cells' : /\ hold'[w].id = <<"ires", i>>
                               /\ hold'[w].stage = "refreshed" => locked'[JobOf(i)'] = hold'[w].id
  <2>1. hold'[w] = hold[w] /\ Projects(w)
    BY <1>1, <1>3
  <2>2. PICK i \in Cells : /\ hold[w].id = <<"ires", i>>
                           /\ hold[w].stage = "refreshed" => locked[JobOf(i)] = hold[w].id
    BY <2>1 DEF Locks
  <2> QED
    BY <1>2, <2>1, <2>2
<1>4. \A v, w \in Workers : v # w /\ Projects(v)' /\ Projects(w)' => hold'[v].id # hold'[w].id
  BY <1>1 DEF Locks
<1> QED
  BY <1>3, <1>4 DEF Locks

\* A transaction that ends, and takes its lock with it, keeps those of others.
LEMMA LocksEnd ==
  ASSUME LWTypeOK, Locks, shape' = shape, NEW w \in Workers, Drop(w),
         \A j \in Jobs : locked'[j] = locked[j] \/ (Projects(w) /\ locked[j] = hold[w].id)
  PROVE  Locks'
<1>1. hold'[w] = Nothing /\ \A v \in Workers : v # w => hold'[v] = hold[v]
  BY DEF Drop, LWTypeOK
<1>2. ~Projects(w)'
  BY <1>1 DEF Projects, Nothing
<1>3. \A v \in Workers : Projects(v)' => v # w /\ hold'[v] = hold[v] /\ Projects(v)
  BY <1>1, <1>2 DEF Projects
<1>4. Cells' = Cells /\ \A i \in Cells : JobOf(i)' = JobOf(i) /\ JobOf(i) \in Jobs
  BY ShapeType DEF Cells, JobOf
<1>5. ASSUME NEW v \in Workers, Projects(v)'
      PROVE  \E i \in Cells' : /\ hold'[v].id = <<"ires", i>>
                               /\ hold'[v].stage = "refreshed" => locked'[JobOf(i)'] = hold'[v].id
  <2>1. v # w /\ hold'[v] = hold[v] /\ Projects(v)
    BY <1>3, <1>5
  <2>2. PICK i \in Cells : /\ hold[v].id = <<"ires", i>>
                           /\ hold[v].stage = "refreshed" => locked[JobOf(i)] = hold[v].id
    BY <2>1 DEF Locks
  <2>3. Projects(w) => hold[v].id # hold[w].id
    BY <2>1 DEF Locks
  <2>4. hold[v].stage = "refreshed" => locked'[JobOf(i)] = hold[v].id
    BY <1>4, <2>2, <2>3
  <2> QED
    BY <1>4, <2>1, <2>2, <2>4
<1>6. \A u, v \in Workers : u # v /\ Projects(u)' /\ Projects(v)' => hold'[u].id # hold'[v].id
  BY <1>3 DEF Locks
<1> QED
  BY <1>5, <1>6 DEF Locks

\* Every step keeps the locks.
LEMMA LocksStep ==
  ASSUME LWTypeOK, Custody, Locks, [LWNext]_lwVars
  PROVE  Locks'
<1> USE DEF graph, work, due
<1>1. /\ Cells \subseteq Instances
      /\ \A i \in Instances : <<"mat", i>> \in Ids /\ <<"ires", i>> \in Ids
      /\ \A j \in Jobs : <<"prep", j>> \in Ids /\ <<"act", j>> \in Ids /\ <<"jres", j>> \in Ids
  BY ShapeType, IdsOf
<1>2. ASSUME UNCHANGED <<shape, locked, hold>> PROVE Locks'
  BY <1>2, LocksFrame
<1>3. ASSUME NEW w \in Workers, NEW id \in Ids, Take(w, id), UNCHANGED <<shape, locked>> PROVE Locks'
  <2>1. \A v \in Workers : hold'[v] = hold[v] \/ hold'[v].stage = "held"
    BY <1>3, TakeStates
  <2> QED
    BY <1>3, <2>1, LocksFrame
<1>4. ASSUME NEW w \in Workers, hold[w].id \in Ids, Finish(w), UNCHANGED <<shape, locked>> PROVE Locks'
  <2>1. \A v \in Workers : hold'[v] = hold[v] \/ hold'[v] = Nothing
    BY <1>4, FinishStates
  <2> QED
    BY <1>4, <2>1, LocksFrame DEF Nothing
<1>10. ASSUME NEW w \in Workers, NEW j \in Jobs, ClaimOrchestration(w, j) PROVE Locks'
  BY <1>1, <1>3, <1>10 DEF ClaimOrchestration
<1>11. ASSUME NEW w \in Workers, NEW j \in Jobs, BindPreparation(w, j) PROVE Locks'
  BY <1>1, <1>4, <1>11 DEF BindPreparation, Holds
<1>12. ASSUME NEW w \in Workers, NEW j \in Jobs, NEW matched, PublishActivation(w, j, matched) PROVE Locks'
  BY <1>1, <1>4, <1>12 DEF PublishActivation, Holds
<1>13. ASSUME NEW w \in Workers, NEW j \in Jobs, ClaimJobResult(w, j) PROVE Locks'
  BY <1>1, <1>2, <1>3, <1>13 DEF ClaimJobResult
<1>14. ASSUME NEW w \in Workers, NEW j \in Jobs, CommitJobResult(w, j) PROVE Locks'
  BY <1>1, <1>4, <1>14 DEF CommitJobResult, Holds
<1>15. ASSUME NEW w \in Workers, NEW i \in Cells, ClaimMaterialization(w, i) PROVE Locks'
  BY <1>1, <1>3, <1>15 DEF ClaimMaterialization
<1>16. ASSUME NEW w \in Workers, NEW i \in Cells, CommitMaterialization(w, i) PROVE Locks'
  BY <1>1, <1>4, <1>16 DEF CommitMaterialization, Holds
<1>17. ASSUME NEW w \in Workers, NEW i \in Cells, ClaimInstanceResult(w, i) PROVE Locks'
  BY <1>1, <1>2, <1>3, <1>17 DEF ClaimInstanceResult
<1>18. ASSUME NEW w \in Workers, NEW i \in Cells, WriteInstanceResult(w, i) PROVE Locks'
  <2>1. /\ hold[w].id = <<"ires", i>> /\ hold[w].stage = "held" /\ ~Projecting(i)
        /\ hold' = [hold EXCEPT ![w].stage = "wrote"] /\ UNCHANGED <<shape, locked>>
    BY <1>18 DEF WriteInstanceResult, Holds
  <2>2. /\ \A v \in Workers : v # w => hold'[v] = hold[v]
        /\ hold'[w].id = <<"ires", i>> /\ hold'[w].stage = "wrote"
    BY <2>1 DEF LWTypeOK
  <2>3. \A v \in Workers : Projects(v)' /\ v # w => Projects(v) /\ hold'[v].id # <<"ires", i>>
    BY <2>1, <2>2 DEF Projects, Projecting
  <2>4. Cells' = Cells /\ \A e \in Cells : JobOf(e)' = JobOf(e)
    BY <2>1 DEF Cells, JobOf
  <2>5. ASSUME NEW v \in Workers, Projects(v)'
        PROVE  \E e \in Cells' : /\ hold'[v].id = <<"ires", e>>
                                 /\ hold'[v].stage = "refreshed" => locked'[JobOf(e)'] = hold'[v].id
    <3>1. CASE v = w
      BY <2>2, <2>4, <3>1
    <3>2. CASE v # w
      <4>1. PICK e \in Cells : /\ hold[v].id = <<"ires", e>>
                               /\ hold[v].stage = "refreshed" => locked[JobOf(e)] = hold[v].id
        BY <2>3, <2>5, <3>2 DEF Locks
      <4> QED
        BY <2>1, <2>2, <2>4, <3>2, <4>1
    <3> QED
      BY <3>1, <3>2
  <2>6. \A u, v \in Workers : u # v /\ Projects(u)' /\ Projects(v)' => hold'[u].id # hold'[v].id
    BY <2>2, <2>3 DEF Locks
  <2> QED
    BY <2>5, <2>6 DEF Locks
<1>19. ASSUME NEW w \in Workers, NEW i \in Cells, RefreshAfterWrite(w, i) PROVE Locks'
  <2> DEFINE ready == JobReady(JobOf(i), FinalInstances \cup {i})
  <2>1. /\ hold[w].id = <<"ires", i>> /\ hold[w].stage = "wrote" /\ locked[JobOf(i)] = Free
        /\ hold' = [hold EXCEPT ![w].stage = "refreshed", ![w].due = ready]
        /\ locked' = [locked EXCEPT ![JobOf(i)] = hold[w].id] /\ shape' = shape
    BY <1>19 DEF RefreshAfterWrite, Unlocked
  <2> HIDE DEF ready
  <2>2. /\ \A v \in Workers : v # w => hold'[v] = hold[v]
        /\ hold'[w].id = <<"ires", i>> /\ hold'[w].stage = "refreshed"
    BY <2>1 DEF LWTypeOK
  <2>3. \A v \in Workers : Projects(v)' <=> Projects(v)
    BY <2>1, <2>2 DEF Projects
  <2>4. Cells' = Cells /\ \A e \in Cells : JobOf(e)' = JobOf(e) /\ JobOf(e) \in Jobs
    BY <2>1, ShapeType DEF Cells, JobOf
  <2>5. /\ locked'[JobOf(i)] = <<"ires", i>>
        /\ \A j \in Jobs : j # JobOf(i) => locked'[j] = locked[j]
    BY <2>1, <2>4 DEF LWTypeOK
  <2>6. ASSUME NEW v \in Workers, Projects(v)'
        PROVE  \E e \in Cells' : /\ hold'[v].id = <<"ires", e>>
                                 /\ hold'[v].stage = "refreshed" => locked'[JobOf(e)'] = hold'[v].id
    <3>1. CASE v = w
      BY <2>2, <2>4, <2>5, <3>1
    <3>2. CASE v # w
      <4>1. PICK e \in Cells : /\ hold[v].id = <<"ires", e>>
                               /\ hold[v].stage = "refreshed" => locked[JobOf(e)] = hold[v].id
        BY <2>3, <2>6, <3>2 DEF Locks
      <4>2. hold[v].id # Free
        BY <1>1, <4>1, IdsOf
      <4>3. hold[v].stage = "refreshed" => locked'[JobOf(e)] = hold[v].id
        BY <2>1, <2>4, <2>5, <4>1, <4>2
      <4> QED
        BY <2>2, <2>4, <3>2, <4>1, <4>3
    <3> QED
      BY <3>1, <3>2
  <2>7. \A u, v \in Workers : u # v /\ Projects(u)' /\ Projects(v)' => hold'[u].id # hold'[v].id
    <3>1. \A v \in Workers : hold'[v].id = hold[v].id
      BY <2>1, <2>2
    <3> QED
      BY <2>3, <3>1 DEF Locks
  <2> QED
    BY <2>6, <2>7 DEF Locks
<1>20. ASSUME NEW w \in Workers, NEW i \in Cells, CommitInstanceResult(w, i) PROVE Locks'
  <2>1. /\ hold[w].id = <<"ires", i>> /\ hold[w].stage = "refreshed" /\ Drop(w) /\ shape' = shape
        /\ locked' = [locked EXCEPT ![JobOf(i)] = Free]
    BY <1>20 DEF CommitInstanceResult
  <2>2. PICK e \in Cells : hold[w].id = <<"ires", e>> /\ locked[JobOf(e)] = hold[w].id
    BY <2>1 DEF Locks, Projects
  <2>3. e = i
    BY <2>1, <2>2
  <2>4. \A j \in Jobs : locked'[j] = locked[j] \/ (Projects(w) /\ locked[j] = hold[w].id)
    BY <2>1, <2>2, <2>3 DEF LWTypeOK, Projects
  <2> QED
    BY <2>1, <2>4, LocksEnd
<1>21. ASSUME NEW w \in Workers, ClaimRunFinalization(w) PROVE Locks'
  BY <1>3, <1>21, IdsOf DEF ClaimRunFinalization
<1>22. ASSUME NEW w \in Workers, CommitRunFinalization(w) PROVE Locks'
  BY <1>4, <1>22, IdsOf DEF CommitRunFinalization, Holds
<1>23. ASSUME NEW w \in Workers, ReplayRenew(w) PROVE Locks'
  <2>1. hold' = [hold EXCEPT ![w].stage = "held", ![w].gen = @ + 1] /\ UNCHANGED <<shape, locked>>
    BY <1>23 DEF ReplayRenew
  <2>2. \A v \in Workers : hold'[v] = hold[v] \/ hold'[v].stage = "held"
    BY <2>1 DEF LWTypeOK
  <2> QED
    BY <2>1, <2>2, LocksFrame
<1>24. ASSUME NEW w \in Workers, Forget(w) PROVE Locks'
  <2>1. /\ Drop(w) /\ shape' = shape
        /\ locked' = [j \in Jobs |-> IF locked[j] = hold[w].id /\ hold[w].stage = "refreshed"
                                     THEN Free ELSE locked[j]]
    BY <1>24 DEF Forget
  <2>2. \A j \in Jobs : locked'[j] = locked[j] \/ (Projects(w) /\ locked[j] = hold[w].id)
    BY <2>1 DEF Projects
  <2> QED
    BY <2>1, <2>2, LocksEnd
<1>25. ASSUME NEW w \in Workers, Renew(w) PROVE Locks'
  <2>1. hold' = [hold EXCEPT ![w].stage = "renewing"] /\ UNCHANGED <<shape, locked>>
    BY <1>25 DEF Renew
  <2>2. \A v \in Workers : hold'[v] = hold[v] \/ hold'[v].stage = "renewing"
    BY <2>1 DEF LWTypeOK
  <2> QED
    BY <2>1, <2>2, LocksFrame
<1>26. ASSUME NEW w \in Workers, Quarantine(w) PROVE Locks'
  <2>1. Drop(w) /\ UNCHANGED <<shape, locked>>
    BY <1>26 DEF Quarantine
  <2> QED
    BY <2>1, LocksEnd
<1>27. ASSUME NEW id \in Ids, Expire(id) PROVE Locks'
  BY <1>2, <1>27 DEF Expire
<1>28. ASSUME NEW i \in Cells, NEW c \in Conclusions, Conclude(i, c) PROVE Locks'
  BY <1>2, <1>28 DEF Conclude
<1>29. ASSUME NEW i \in Cells, FailInvalid(i) PROVE Locks'
  BY <1>2, <1>29 DEF FailInvalid
<1>30. ASSUME NEW c \in Jobs, NEW matched, PublishCall(c, matched) PROVE Locks'
  BY <1>2, <1>30 DEF PublishCall
<1>31. ASSUME NEW c \in Jobs, CompleteCall(c) PROVE Locks'
  BY <1>2, <1>31 DEF CompleteCall
<1>32. ASSUME NEW queued \in SUBSET Cells, Preempt(queued) PROVE Locks'
  BY <1>2, <1>32 DEF Preempt
<1>33. ASSUME NEW selected, Rerun(selected) PROVE Locks'
  <2>1. \A w \in Workers : hold'[w].stage = "idle"
    BY <1>33 DEF Rerun, Nothing
  <2> QED
    BY <1>33, <2>1, LocksFrame DEF Rerun
<1>34. CASE UNCHANGED lwVars
  BY <1>2, <1>34 DEF lwVars
<1> QED
  BY <1>10, <1>11, <1>12, <1>13, <1>14, <1>15, <1>16, <1>17, <1>18, <1>19, <1>20, <1>21, <1>22,
     <1>23, <1>24, <1>25, <1>26, <1>27, <1>28, <1>29, <1>30, <1>31, <1>32, <1>33, <1>34
     DEF LWNext, WorkerStep, CallStep

\* A step that changes nothing of what makes the job due.
Still(j) ==
  \/ ~Ripe(j) /\ ~Ripe(j)'
  \/ /\ Ripe(j) /\ Ripe(j)' /\ Published(j)' = Published(j)
     /\ \A i \in Published(j) : Done(<<"ires", i>>)' <=> Done(<<"ires", i>>)

\* A transaction has counted the results of the job and not ended yet.
Busy(j) == \E w \in Workers, i \in Cells :
              hold[w].stage = "refreshed" /\ hold[w].id = <<"ires", i>> /\ JobOf(i) = j

\* A job is due when it is ripe and its published instances have results.
LEMMA ReadyIs == \A j \in Jobs : Ready(j) <=> Ripe(j) /\ Published(j) \subseteq FinalInstances
  BY DEF Ready, JobReady, Ripe

\* Nobody counts the results of a job whose row is not locked.
LEMMA UnlockedIdle ==
  ASSUME LWTypeOK, Locks, NEW j \in Jobs, Unlocked(j)
  PROVE  ~Busy(j)
<1> SUFFICES ASSUME NEW w \in Workers, NEW i \in Cells, hold[w].stage = "refreshed",
                    hold[w].id = <<"ires", i>>, JobOf(i) = j
             PROVE  FALSE
  BY DEF Busy
<1>1. PICK e \in Cells : hold[w].id = <<"ires", e>> /\ locked[JobOf(e)] = hold[w].id
  BY DEF Locks, Projects
<1>2. e = i
  BY <1>1
<1>3. locked[j] = <<"ires", i>>
  BY <1>1, <1>2
<1> QED
  BY <1>3 DEF Unlocked, Free

\* The due rows and the counts survive a step that leaves alone what makes a
\* job due, or refreshes the job's due row while nobody counts.
LEMMA DueFrame ==
  ASSUME LWTypeOK, LWTypeOK', Counts, Due, shape' = shape, run' = run,
         Running => \A j \in Jobs : \/ Still(j) /\ (j \in jdue' <=> j \in jdue)
                                    \/ ~Busy(j)' /\ (j \in jdue' <=> Ready(j)'),
         \A w \in Workers : hold'[w] = hold[w] \/ hold'[w].stage # "refreshed" \/ Counted(w)',
         Running => \A i \in idue' : i \in Cells /\ InstanceTargetOpen(i)'
  PROVE  Counts' /\ Due'
<1>1. Running' <=> Running
  BY DEF Running
<1>2. Cells' = Cells /\ Cells \subseteq Instances /\ \A i \in Cells : JobOf(i)' = JobOf(i) /\ JobOf(i) \in Jobs
  BY ShapeType DEF Cells, JobOf
<1>3. ASSUME NEW j \in Jobs
      PROVE  Published(j) \subseteq Instances
  BY <1>2 DEF Published
<1>4. ASSUME Running, NEW j \in Jobs PROVE j \in jdue' <=> Ready(j)'
  <2>1. CASE Still(j) /\ (j \in jdue' <=> j \in jdue)
    <3>1. Ready(j)' <=> Ripe(j)' /\ Published(j)' \subseteq FinalInstances'
      BY DEF Ready, JobReady, Ripe
    <3>2. Published(j)' = Published(j) /\ (\A i \in Published(j) : Done(<<"ires", i>>)' <=> Done(<<"ires", i>>))
             => (Published(j)' \subseteq FinalInstances' <=> Published(j) \subseteq FinalInstances)
      BY <1>3 DEF FinalInstances
    <3>3. Ready(j)' <=> Ready(j)
      BY <2>1, <3>1, <3>2, ReadyIs DEF Still
    <3>4. j \in jdue <=> Ready(j)
      BY <1>4 DEF Due
    <3> QED
      BY <2>1, <3>3, <3>4
  <2> QED
    BY <1>4, <2>1
<1>5. ASSUME Running, NEW w \in Workers, hold'[w].stage = "refreshed" PROVE Counted(w)'
  <2>1. CASE hold'[w] = hold[w]
    <3> SUFFICES ASSUME NEW i \in Cells, hold'[w].id = <<"ires", i>>
                 PROVE  hold'[w].due = TRUE <=>
                           Ripe(JobOf(i))' /\ Published(JobOf(i))' \subseteq FinalInstances' \cup {i}
      BY <1>2 DEF Counted
    <3> DEFINE j == JobOf(i)
    <3>1. j \in Jobs /\ j' = j /\ i \in Cells'
      BY <1>2
    <3>2. hold[w].due = TRUE <=> Ripe(j) /\ Published(j) \subseteq FinalInstances \cup {i}
      BY <1>5, <2>1 DEF Counts, Counted
    <3>3. Busy(j)'
      BY <1>5, <3>1 DEF Busy
    <3> HIDE DEF j
    <3>4. Still(j)
      BY <1>5, <3>1, <3>3
    <3>5. Published(j)' = Published(j) /\ (\A e \in Published(j) : Done(<<"ires", e>>)' <=> Done(<<"ires", e>>))
             => (Published(j)' \subseteq FinalInstances' \cup {i} <=> Published(j) \subseteq FinalInstances \cup {i})
      BY <1>3, <3>1 DEF FinalInstances
    <3>6. hold[w].due = TRUE <=> Ripe(j)' /\ Published(j)' \subseteq FinalInstances' \cup {i}
      BY <3>2, <3>4, <3>5 DEF Still
    <3>7. hold'[w].due = TRUE <=> Ripe(j)' /\ Published(j)' \subseteq FinalInstances' \cup {i}
      BY <2>1, <3>6
    <3> QED
      BY <3>7 DEF j
  <2> QED
    BY <1>5, <2>1
<1>6. Counts'
  BY <1>1, <1>5 DEF Counts
<1>7. Due'
  BY <1>1, <1>2, <1>4 DEF Due
<1> QED
  BY <1>6, <1>7

\* The invocation of a job stays active while no call is published or ends.
LEMMA SameActive ==
  ASSUME LWTypeOK, shape' = shape, run' = run,
         NEW j \in Jobs,
         \A c \in CallsOf(j) : /\ publication'[c] = publication[c]
                               /\ Done(<<"jres", c>>)' <=> Done(<<"jres", c>>)
  PROVE  Active(j)' <=> Active(j)
<1>1. CallsOf(j)' = CallsOf(j) /\ \A c \in CallsOf(j) : Steps(c)' = Steps(c)
  BY DEF CallsOf, Steps
<1> QED
  BY <1>1 DEF Active, ChildActive, Running

\* What leaves a job still.
LEMMA StillOf ==
  ASSUME LWTypeOK, shape' = shape, NEW j \in Jobs,
         Active(j)' <=> Active(j), job'[j] = job[j], publication'[j] = publication[j],
         Done(<<"jres", j>>)' <=> Done(<<"jres", j>>),
         \A p \in Needs(j) : Done(<<"jres", p>>)' <=> Done(<<"jres", p>>),
         \A i \in Cells : JobOf(i) = j => (Done(<<"ires", i>>)' <=> Done(<<"ires", i>>))
  PROVE  Still(j)
<1>1. Needs(j)' = Needs(j) /\ (Steps(j)' <=> Steps(j)) /\ Published(j)' = Published(j)
  BY DEF Needs, Steps, Published, Cells, JobOf
<1>2. Ripe(j)' <=> Ripe(j)
  BY <1>1 DEF Ripe
<1>3. \A i \in Published(j) : Done(<<"ires", i>>)' <=> Done(<<"ires", i>>)
  BY DEF Published
<1> QED
  BY <1>1, <1>2, <1>3 DEF Still

\* A due instance: its job is activated and has no complete evidence yet.
LEMMA DueInstance ==
  ASSUME LWInv, Due, Running, NEW i \in idue
  PROVE  /\ i \in Cells /\ JobOf(i) \in Jobs /\ Steps(JobOf(i))
         /\ InstanceTargetOpen(i)
         /\ publication[JobOf(i)] = "matched"
         /\ ~(Published(JobOf(i)) \subseteq FinalInstances)
         /\ ~Done(<<"jres", JobOf(i)>>)
<1>1. LWTypeOK /\ Projected /\ Recorded
  BY DEF LWInv, Evidence, JobInv
<1>2. i \in Cells /\ InstanceTargetOpen(i)
  BY DEF Due
<1>3. i \in Instances /\ JobOf(i) \in Jobs /\ Steps(JobOf(i))
  BY <1>1, <1>2, ShapeType
<1>4. attempt[i] \in Final /\ ~Done(<<"ires", i>>) /\ publication[JobOf(i)] = "matched"
  <2>1. ProjectedAt(i)
    BY <1>1, <1>3 DEF Projected
  <2> QED
    BY <2>1, FinalConclusions DEF ProjectedAt, Done
<1>5. i \in Published(JobOf(i)) /\ i \notin FinalInstances
  BY <1>2, <1>4 DEF Published, FinalInstances
<1>6. RecordedAt(JobOf(i))
  BY <1>1, <1>3 DEF Recorded
<1> QED
  BY <1>2, <1>3, <1>4, <1>5, <1>6 DEF RecordedAt

\* The target of an instance stays open while its job and invocation do.
LEMMA TargetStays ==
  ASSUME shape' = shape, NEW j \in Jobs, NEW i \in Cells, JobOf(i) = j, InstanceTargetOpen(i),
         Active(j)' <=> Active(j), job'[j] = job[j]
  PROVE  InstanceTargetOpen(i)'
<1>1. JobOf(i)' = j
  BY DEF JobOf
<1>2. InstanceTargetOpen(i)' <=> Active(j)' /\ job'[j] = "activated"
  BY <1>1 DEF InstanceTargetOpen, Active, ChildActive
<1> QED
  BY <1>2 DEF InstanceTargetOpen

\* A step that changes nothing of the graph and records no result.
LEMMA QuietDue ==
  ASSUME LWInv, LWTypeOK', Counts, Due, UNCHANGED <<shape, graph>>,
         \A j \in Jobs : Done(<<"jres", j>>)' <=> Done(<<"jres", j>>),
         \A i \in Instances : Done(<<"ires", i>>)' <=> Done(<<"ires", i>>),
         Running => jdue' = jdue,
         \A w \in Workers : hold'[w] = hold[w] \/ hold'[w].stage # "refreshed" \/ Counted(w)',
         \A i \in idue' : i \in idue \/ (i \in Cells /\ InstanceTargetOpen(i))
  PROVE  Counts' /\ Due'
<1> USE DEF graph
<1>1. LWTypeOK /\ Cells \subseteq Instances
  BY ShapeType DEF LWInv
<1>2. \A j \in Jobs : CallsOf(j) \subseteq Jobs /\ Needs(j) \subseteq Jobs
  BY <1>1, ShapeType DEF CallsOf
<1>3. \A j \in Jobs : Active(j)' <=> Active(j)
  BY <1>1, <1>2, SameActive
<1>4. \A j \in Jobs : Still(j)
  BY <1>1, <1>2, <1>3, StillOf
<1>5. ASSUME Running, NEW i \in idue' PROVE i \in Cells /\ InstanceTargetOpen(i)'
  <2>1. i \in Cells /\ InstanceTargetOpen(i)
    BY <1>5, DueInstance
  <2>2. JobOf(i) \in Jobs
    BY <1>1, <2>1, ShapeType
  <2> QED
    BY <1>3, <2>1, <2>2, TargetStays
<1> QED
  BY <1>1, <1>4, <1>5, DueFrame

\* A job that starts to be activated is not due, before or after.
LEMMA ActivatingDue ==
  ASSUME LWInv, LWTypeOK', Counts, Due, NEW j \in Jobs, Steps(j),
         job[j] \in {"pending", "activating"}, job' = [job EXCEPT ![j] = "activating"],
         UNCHANGED <<shape, run, carried, publication, due>>,
         \A d \in Jobs : Done(<<"jres", d>>)' <=> Done(<<"jres", d>>),
         \A i \in Instances : Done(<<"ires", i>>)' <=> Done(<<"ires", i>>),
         \A w \in Workers : hold'[w] = hold[w] \/ hold'[w].stage # "refreshed"
  PROVE  Counts' /\ Due'
<1> USE DEF due
<1>1. LWTypeOK /\ Cells \subseteq Instances
  BY ShapeType DEF LWInv
<1>2. \A d \in Jobs : CallsOf(d) \subseteq Jobs /\ Needs(d) \subseteq Jobs
  BY <1>1, ShapeType DEF CallsOf
<1>3. \A d \in Jobs : Active(d)' <=> Active(d)
  BY <1>1, <1>2, SameActive
<1>4. job'[j] = "activating" /\ \A d \in Jobs : d # j => job'[d] = job[d]
  BY <1>1 DEF LWTypeOK
<1>5. \A d \in Jobs : Still(d)
  <2>1. Still(j)
    BY <1>4 DEF Still, Ripe
  <2>2. \A d \in Jobs : d # j => Still(d)
    BY <1>1, <1>2, <1>3, <1>4, StillOf
  <2> QED
    BY <2>1, <2>2
<1>6. ASSUME Running, NEW i \in idue' PROVE i \in Cells /\ InstanceTargetOpen(i)'
  <2>1. i \in Cells /\ InstanceTargetOpen(i) /\ JobOf(i) \in Jobs
    BY <1>6, DueInstance
  <2>2. JobOf(i) # j
    BY <2>1 DEF InstanceTargetOpen
  <2> QED
    BY <1>3, <1>4, <2>1, <2>2, TargetStays
<1> QED
  BY <1>1, <1>5, <1>6, DueFrame

\* Nobody counts the results of a job that is not activated yet.
LEMMA InactiveIdle ==
  ASSUME LWInv, NEW j \in Jobs, publication[j] = "none"
  PROVE  ~Busy(j)
<1> SUFFICES ASSUME NEW w \in Workers, NEW i \in Cells, hold[w].id = <<"ires", i>>, JobOf(i) = j
             PROVE  FALSE
  BY DEF Busy
<1>1. LWTypeOK /\ Custody /\ Projected
  BY DEF LWInv, Evidence
<1>2. i \in Instances /\ hold[w].id # Free
  BY <1>1, ShapeType DEF Free
<1>3. claim[<<"ires", i>>].state # "none"
  BY <1>1, <1>2 DEF Custody
<1>4. ProjectedAt(i)
  BY <1>1, <1>2 DEF Projected
<1>5. attempt[i] \in Final
  BY <1>3, <1>4 DEF ProjectedAt
<1>6. Done(<<"mat", i>>)
  BY <1>4, <1>5, FinalConclusions DEF ProjectedAt
<1>7. publication[JobOf(i)] = "matched"
  BY <1>4, <1>6 DEF ProjectedAt, Done
<1> QED
  BY <1>7

\* An idle job stays idle when no transaction counts.
LEMMA StaysIdle ==
  ASSUME shape' = shape, NEW j \in Jobs, ~Busy(j),
         \A w \in Workers : hold'[w] = hold[w] \/ hold'[w].stage # "refreshed"
  PROVE  ~Busy(j)'
<1>1. Cells' = Cells /\ \A i \in Cells : JobOf(i)' = JobOf(i)
  BY DEF Cells, JobOf
<1> QED
  BY <1>1 DEF Busy

\* Publication of an activation.
LEMMA ActivatedDue ==
  ASSUME LWInv, LWTypeOK', Counts, Due, NEW j \in Jobs, NEW matched,
         ClaimTo(<<"act", j>>, "done"), claim[<<"act", j>>].state = "held",
         publication' = [publication EXCEPT ![j] = IF matched THEN "matched" ELSE "unmatched"],
         job' = [job EXCEPT ![j] = IF matched THEN "activated" ELSE "skipped"],
         UNCHANGED <<shape, run, carried, idue>>,
         jdue' = Refreshed(j, JobReady(j, FinalInstances)'),
         \A w \in Workers : hold'[w] = hold[w] \/ hold'[w].stage # "refreshed"
  PROVE  Counts' /\ Due'
<1>1. LWTypeOK /\ Cells \subseteq Instances /\ Ordered
  BY ShapeType DEF LWInv, Evidence, JobInv
<1>2. \A d \in Jobs : CallsOf(d) \subseteq Jobs /\ Needs(d) \subseteq Jobs
  BY <1>1, ShapeType DEF CallsOf
<1>3. /\ \A d \in Jobs : Done(<<"jres", d>>)' <=> Done(<<"jres", d>>)
      /\ \A i \in Instances : Done(<<"ires", i>>)' <=> Done(<<"ires", i>>)
  BY OneJobClaim DEF JobKinds, Done
<1>4. Steps(j) /\ publication[j] = "none"
  <2>1. OrderedAt(j)
    BY <1>1 DEF Ordered
  <2>2. claim[<<"act", j>>].state # "none" /\ ~Done(<<"act", j>>)
    BY DEF Done
  <2>3. claim[<<"prep", j>>].state # "none"
    BY <2>1, <2>2 DEF OrderedAt, Done
  <2>4. Steps(j)
    BY <2>1, <2>3 DEF OrderedAt
  <2>5. publication[j] = "none"
    BY <2>1, <2>2, <2>4 DEF OrderedAt
  <2> QED
    BY <2>4, <2>5
<1>5. \A d \in Jobs : d # j => job'[d] = job[d] /\ publication'[d] = publication[d]
  BY <1>1 DEF LWTypeOK
<1>6. \A d \in Jobs : \A c \in CallsOf(d) : c # j
  BY <1>4 DEF CallsOf, Steps
<1>7. \A d \in Jobs : Active(d)' <=> Active(d)
  BY <1>1, <1>2, <1>3, <1>5, <1>6, SameActive
<1>8. \A d \in Jobs : d # j => Still(d) /\ (d \in jdue' <=> d \in jdue)
  <2>1. \A d \in Jobs : d # j => Still(d)
    BY <1>1, <1>2, <1>3, <1>5, <1>7, StillOf
  <2>2. \A d \in Jobs : d # j => (d \in jdue' <=> d \in jdue)
    BY DEF Refreshed
  <2> QED
    BY <2>1, <2>2
<1>9. ~Busy(j)'
  BY <1>4, InactiveIdle, StaysIdle
<1>10. j \in jdue' <=> Ready(j)'
  BY DEF Refreshed, Ready
<1>11. ASSUME Running, NEW i \in idue' PROVE i \in Cells /\ InstanceTargetOpen(i)'
  <2>1. i \in Cells /\ InstanceTargetOpen(i) /\ JobOf(i) \in Jobs /\ JobOf(i) # j
    BY <1>4, <1>11, DueInstance
  <2> QED
    BY <1>5, <1>7, <2>1, TargetStays
<1> QED
  BY <1>1, <1>8, <1>9, <1>10, <1>11, DueFrame

\* The commit of an instance result: what was counted under the lock holds.
LEMMA InstanceResultDue ==
  ASSUME LWInv, LWTypeOK', Locks, Counts, Due, NEW w \in Workers, NEW i \in Cells,
         CommitInstanceResult(w, i)
  PROVE  Counts' /\ Due'
<1> USE DEF graph
<1>1. LWTypeOK /\ Cells \subseteq Instances
  BY ShapeType DEF LWInv
<1>2. \A d \in Jobs : CallsOf(d) \subseteq Jobs /\ Needs(d) \subseteq Jobs
  BY <1>1, ShapeType DEF CallsOf
<1>3. /\ hold[w].id = <<"ires", i>> /\ hold[w].stage = "refreshed" /\ Drop(w)
      /\ claim' = [claim EXCEPT ![<<"ires", i>>].state = "done"]
      /\ idue' = idue \ {i} /\ jdue' = Refreshed(JobOf(i), hold[w].due)
      /\ UNCHANGED <<shape, run, carried, publication, job>>
  BY DEF CommitInstanceResult
<1>4. ClaimTo(<<"ires", i>>, "done")
  BY <1>1, <1>3 DEF ClaimTo, LWTypeOK
<1>5. /\ \A d \in Jobs : Done(<<"jres", d>>)' <=> Done(<<"jres", d>>)
      /\ Done(<<"ires", i>>)'
      /\ \A e \in Instances : e # i => (Done(<<"ires", e>>)' <=> Done(<<"ires", e>>))
  BY <1>1, <1>4, OneInstanceClaim DEF JobKinds, Done
<1>6. hold'[w] = Nothing /\ \A v \in Workers : v # w => hold'[v] = hold[v]
  BY <1>1, <1>3 DEF Drop, LWTypeOK
<1>7. \A v \in Workers : hold'[v] = hold[v] \/ hold'[v].stage # "refreshed"
  BY <1>6 DEF Nothing
<1>8. \A d \in Jobs : Active(d)' <=> Active(d)
  BY <1>1, <1>2, <1>3, <1>5, SameActive
<1>9. PICK j \in Jobs : JobOf(i) = j
  BY <1>1, ShapeType
<1>10. \A d \in Jobs : d # j => Still(d) /\ (d \in jdue' <=> d \in jdue)
  <2>1. ASSUME NEW d \in Jobs, d # j PROVE Still(d)
    <3>1. \A e \in Cells : JobOf(e) = d => (Done(<<"ires", e>>)' <=> Done(<<"ires", e>>))
      BY <1>1, <1>5, <1>9, <2>1
    <3> QED
      BY <1>1, <1>2, <1>3, <1>5, <1>8, <3>1, StillOf
  <2>2. \A d \in Jobs : d # j => (d \in jdue' <=> d \in jdue)
    BY <1>3, <1>9 DEF Refreshed
  <2> QED
    BY <2>1, <2>2
<1>11. ~Busy(j)'
  <2> SUFFICES ASSUME NEW v \in Workers, NEW e \in Cells, hold'[v].stage = "refreshed",
                      hold'[v].id = <<"ires", e>>, JobOf(e) = j
               PROVE  FALSE
    <3>1. Cells' = Cells /\ \A e \in Cells : JobOf(e)' = JobOf(e)
      BY <1>3 DEF Cells, JobOf
    <3> QED
      BY <3>1 DEF Busy
  <2>1. v # w /\ hold'[v] = hold[v]
    BY <1>6, <1>7 DEF Nothing
  <2>2. Projects(v) /\ Projects(w)
    BY <1>3, <2>1 DEF Projects
  <2>3. locked[JobOf(i)] = <<"ires", i>>
    <3>1. PICK a \in Cells : hold[w].id = <<"ires", a>> /\ locked[JobOf(a)] = hold[w].id
      BY <1>3, <2>2 DEF Locks
    <3>2. a = i
      BY <1>3, <3>1
    <3> QED
      BY <1>3, <3>1, <3>2
  <2>4. locked[JobOf(e)] = <<"ires", e>>
    <3>1. PICK a \in Cells : hold[v].id = <<"ires", a>> /\ locked[JobOf(a)] = hold[v].id
      BY <2>1, <2>2 DEF Locks
    <3>2. a = e
      BY <2>1, <3>1
    <3> QED
      BY <2>1, <3>1, <3>2
  <2>5. hold[v].id # hold[w].id
    BY <2>1, <2>2 DEF Locks
  <2> QED
    BY <1>3, <1>9, <2>1, <2>3, <2>4, <2>5
<1>12. ASSUME Running PROVE j \in jdue' <=> Ready(j)'
  <2>1. hold[w].due = TRUE <=> Ripe(j) /\ Published(j) \subseteq FinalInstances \cup {i}
    BY <1>3, <1>9, <1>12 DEF Counts, Counted
  <2>2. Published(j)' = Published(j) /\ Needs(j)' = Needs(j) /\ (Steps(j)' <=> Steps(j))
    BY <1>3 DEF Published, Needs, Steps, Cells, JobOf
  <2>3. FinalInstances' = FinalInstances \cup {i}
    BY <1>1, <1>5 DEF FinalInstances
  <2>4. Ripe(j)' <=> Ripe(j)
    BY <1>2, <1>3, <1>5, <1>8, <1>9, <2>2 DEF Ripe
  <2>5. Ready(j)' <=> Ripe(j)' /\ Published(j)' \subseteq FinalInstances'
    BY DEF Ready, JobReady, Ripe
  <2>6. Ready(j)' <=> hold[w].due = TRUE
    BY <2>1, <2>2, <2>3, <2>4, <2>5
  <2>7. hold[w].due \in BOOLEAN
    BY <1>1 DEF LWTypeOK
  <2>8. jdue' = Refreshed(j, hold[w].due)
    BY <1>3, <1>9
  <2> QED
    BY <2>6, <2>7, <2>8 DEF Refreshed
<1>13. ASSUME Running, NEW e \in idue' PROVE e \in Cells /\ InstanceTargetOpen(e)'
  <2>1. e \in Cells /\ InstanceTargetOpen(e) /\ JobOf(e) \in Jobs
    BY <1>3, <1>13, DueInstance
  <2> QED
    BY <1>3, <1>8, <2>1, TargetStays
<1>14. \A d \in Jobs : Running => \/ Still(d) /\ (d \in jdue' <=> d \in jdue)
                                  \/ ~Busy(d)' /\ (d \in jdue' <=> Ready(d)')
  BY <1>10, <1>11, <1>12
<1> QED
  BY <1>1, <1>3, <1>7, <1>13, <1>14, DueFrame

\* The commit of a job result.
LEMMA JobResultDue ==
  ASSUME LWInv, LWTypeOK', Locks, Counts, Due, NEW w \in Workers, NEW j \in Jobs,
         CommitJobResult(w, j)
  PROVE  Counts' /\ Due'
<1> DEFINE stale == {j} \cup {d \in Jobs : j \in Needs(d)}
<1>1. LWTypeOK /\ Cells \subseteq Instances
  BY ShapeType DEF LWInv
<1>2. \A d \in Jobs : CallsOf(d) \subseteq Jobs /\ Needs(d) \subseteq Jobs
  BY <1>1, ShapeType DEF CallsOf
<1>3. /\ Holds(w, <<"jres", j>>) /\ Finish(w) /\ JobTargetOpen(j)
      /\ \A d \in stale : Unlocked(d)
      /\ job' = [job EXCEPT ![j] = TerminalJobState(JobConclusion(j))]
      /\ UNCHANGED <<shape, run, carried, publication, idue>>
      /\ jdue' = (jdue \ stale) \cup {d \in stale : JobReady(d, FinalInstances)'}
  BY DEF CommitJobResult
<1>4. ClaimTo(<<"jres", j>>, "done") /\ \A v \in Workers : hold'[v] = hold[v] \/ hold'[v] = Nothing
  BY <1>1, <1>3, IdsOf, FinishStates DEF Holds
<1>5. /\ \A d \in Jobs : d # j => (Done(<<"jres", d>>)' <=> Done(<<"jres", d>>))
      /\ \A e \in Instances : Done(<<"ires", e>>)' <=> Done(<<"ires", e>>)
  BY <1>1, <1>4, OneJobClaim DEF JobKinds, Done
<1>6. \A v \in Workers : hold'[v] = hold[v] \/ hold'[v].stage # "refreshed"
  BY <1>4 DEF Nothing
<1>7. Steps(j) /\ Published(j) \subseteq FinalInstances
  BY <1>3 DEF JobTargetOpen, DescriptorComplete
<1>8. \A d \in Jobs : \A c \in CallsOf(d) : c # j
  BY <1>7 DEF CallsOf, Steps
<1>9. \A d \in Jobs : Active(d)' <=> Active(d)
  BY <1>1, <1>2, <1>3, <1>5, <1>8, SameActive
<1>10. \A d \in Jobs : d # j => job'[d] = job[d]
  BY <1>1, <1>3 DEF LWTypeOK
<1>11. ASSUME NEW d \in Jobs, d \notin stale PROVE Still(d) /\ (d \in jdue' <=> d \in jdue)
  <2>1. d # j /\ \A p \in Needs(d) : p # j
    BY <1>11
  <2>2. Still(d)
    BY <1>1, <1>2, <1>3, <1>5, <1>9, <1>10, <2>1, StillOf
  <2> QED
    BY <1>3, <1>11, <2>2
<1>12. ASSUME NEW d \in stale PROVE ~Busy(d)' /\ (d \in jdue' <=> Ready(d)')
  <2>1. d \in Jobs /\ Unlocked(d)
    BY <1>3, <1>12
  <2>2. ~Busy(d)'
    BY <1>1, <1>3, <1>6, <2>1, UnlockedIdle, StaysIdle
  <2> QED
    BY <1>3, <1>12, <2>2 DEF Ready
<1>13. ASSUME Running, NEW e \in idue' PROVE e \in Cells /\ InstanceTargetOpen(e)'
  <2>1. e \in Cells /\ InstanceTargetOpen(e) /\ JobOf(e) \in Jobs /\ JobOf(e) # j
    BY <1>3, <1>7, <1>13, DueInstance
  <2> QED
    BY <1>3, <1>9, <1>10, <2>1, TargetStays
<1>14. \A d \in Jobs : \/ Still(d) /\ (d \in jdue' <=> d \in jdue)
                       \/ ~Busy(d)' /\ (d \in jdue' <=> Ready(d)')
  BY <1>11, <1>12
<1> QED
  BY <1>1, <1>3, <1>6, <1>13, <1>14, DueFrame

\* The publication of a call: the jobs of the called workflow are not due.
LEMMA CallPublishedDue ==
  ASSUME LWInv, LWTypeOK', Counts, Due, NEW c \in Jobs, NEW matched \in BOOLEAN, PublishCall(c, matched)
  PROVE  Counts' /\ Due'
<1> USE DEF due
<1>1. LWTypeOK /\ Cells \subseteq Instances /\ Reach /\ OrderedAt(c)
  BY ShapeType DEF LWInv, Evidence, JobInv, Ordered
<1>2. \A d \in Jobs : CallsOf(d) \subseteq Jobs /\ Needs(d) \subseteq Jobs
  BY <1>1, ShapeType DEF CallsOf
<1>3. /\ ~Steps(c) /\ job[c] = "pending"
      /\ publication' = [publication EXCEPT ![c] = IF matched THEN "matched" ELSE "unmatched"]
      /\ job' = [j \in Jobs |-> IF j = c THEN IF matched THEN "activated" ELSE "skipped"
                                ELSE IF matched /\ j \in shape.callees[c] THEN "pending" ELSE job[j]]
      /\ UNCHANGED <<shape, run, carried, claim, due, hold>>
  BY DEF PublishCall
<1>4. /\ \A d \in Jobs : Done(<<"jres", d>>)' <=> Done(<<"jres", d>>)
      /\ \A i \in Instances : Done(<<"ires", i>>)' <=> Done(<<"ires", i>>)
  BY <1>3 DEF Done
<1>5. publication[c] = "none"
  BY <1>1, <1>3 DEF OrderedAt
<1>6. \A d \in shape.callees[c] : d \in Jobs /\ Untouched(d)
  BY <1>1, <1>5, Unpublished, CallsUnique
<1>7. \A d \in Jobs : d # c => publication'[d] = publication[d]
  BY <1>1, <1>3 DEF LWTypeOK
<1>8. ASSUME NEW d \in Jobs, d \notin shape.callees[c]
      PROVE  Active(d)' <=> Active(d)
  <2>1. \A b \in CallsOf(d) : b \in Jobs /\ b # c
    BY <1>8 DEF CallsOf
  <2> QED
    BY <1>1, <1>3, <1>4, <1>7, <2>1, SameActive
<1>9. ASSUME NEW d \in Jobs PROVE Still(d)
  <2>1. CASE d = c
    <3>1. ~Steps(c)'
      BY <1>3 DEF Steps
    <3> QED
      BY <1>3, <2>1, <3>1 DEF Still, Ripe
  <2>2. CASE d \in shape.callees[c] /\ d # c
    <3>1. job[d] = "absent" /\ job'[d] \in {"absent", "pending"}
      BY <1>3, <1>6, <2>2 DEF Untouched
    <3> QED
      BY <3>1 DEF Still, Ripe
  <2>3. CASE d \notin shape.callees[c] /\ d # c
    <3>1. job'[d] = job[d] /\ publication'[d] = publication[d] /\ (Active(d)' <=> Active(d))
      BY <1>3, <1>7, <1>8, <2>3
    <3> QED
      BY <1>1, <1>2, <1>3, <1>4, <3>1, StillOf
  <2> QED
    BY <2>1, <2>2, <2>3
<1>10. ASSUME Running, NEW i \in idue' PROVE i \in Cells /\ InstanceTargetOpen(i)'
  <2>1. /\ i \in Cells /\ InstanceTargetOpen(i) /\ JobOf(i) \in Jobs /\ Steps(JobOf(i))
        /\ publication[JobOf(i)] = "matched"
    BY <1>3, <1>10, DueInstance
  <2>2. JobOf(i) # c /\ JobOf(i) \notin shape.callees[c]
    BY <1>3, <1>6, <2>1 DEF Untouched
  <2>3. job'[JobOf(i)] = job[JobOf(i)]
    BY <1>3, <2>1, <2>2
  <2> QED
    BY <1>3, <1>8, <2>1, <2>2, <2>3, TargetStays
<1> QED
  BY <1>1, <1>3, <1>9, <1>10, DueFrame

\* The completion of a call: the called jobs have results, or do not exist.
LEMMA CallCompletedDue ==
  ASSUME LWInv, LWTypeOK', Locks, Counts, Due, NEW c \in Jobs, CompleteCall(c)
  PROVE  Counts' /\ Due'
<1> DEFINE needing == {d \in Jobs : c \in Needs(d)}
           verdict == IF publication[c] = "matched"
                      THEN Aggregate({result[j] : j \in shape.callees[c]}) ELSE "skipped"
<1>1. LWTypeOK /\ Cells \subseteq Instances /\ Reach
  BY ShapeType DEF LWInv, Evidence, JobInv
<1>2. \A d \in Jobs : CallsOf(d) \subseteq Jobs /\ Needs(d) \subseteq Jobs
  BY <1>1, ShapeType DEF CallsOf
<1>3. /\ ~Steps(c) /\ CallReady(c) /\ ~Done(<<"jres", c>>)
      /\ \A d \in needing : Unlocked(d)
      /\ claim' = [claim EXCEPT ![<<"jres", c>>] = [state |-> "done", gen |-> 1, live |-> TRUE]]
      /\ job' = [job EXCEPT ![c] = TerminalJobState(verdict)]
      /\ UNCHANGED <<shape, run, carried, publication, idue, hold>>
      /\ jdue' = (jdue \ needing) \cup {d \in needing : JobReady(d, FinalInstances)'}
  BY DEF CompleteCall
<1> HIDE DEF verdict
<1>4. ClaimTo(<<"jres", c>>, "done")
  BY <1>1, <1>3, IdsOf DEF ClaimTo, LWTypeOK
<1>5. /\ \A d \in Jobs : d # c => (Done(<<"jres", d>>)' <=> Done(<<"jres", d>>))
      /\ \A e \in Instances : Done(<<"ires", e>>)' <=> Done(<<"ires", e>>)
  BY <1>4, OneJobClaim DEF JobKinds, Done
<1>6. \A d \in Jobs : d # c => job'[d] = job[d]
  BY <1>1, <1>3 DEF LWTypeOK
<1>7. ASSUME NEW d \in Jobs, d \notin shape.callees[c]
      PROVE  Active(d)' <=> Active(d)
  <2>1. \A b \in CallsOf(d) : b \in Jobs /\ b # c
    BY <1>7 DEF CallsOf
  <2> QED
    BY <1>1, <1>3, <1>5, <2>1, SameActive
<1>8. \A d \in shape.callees[c] : d \in Jobs /\ d # c /\ (Done(<<"jres", d>>) \/ job[d] = "absent")
  <2>1. \A d \in shape.callees[c] : d \in Jobs
    BY <1>1, CallsUnique
  <2>2. \A d \in shape.callees[c] : d # c
    <3>1. shape \in Shapes
      BY <1>1 DEF LWTypeOK
    <3>2. PICK depth \in [Jobs -> 0 .. Cardinality(Jobs)] :
             \A b \in Jobs : \A j \in shape.callees[b] : depth[j] > depth[b]
      BY <3>1, GraphAssumption
    <3>3. ASSUME c \in shape.callees[c] PROVE FALSE
      <4>1. depth[c] \in 0 .. Cardinality(Jobs) /\ depth[c] > depth[c]
        BY <3>2, <3>3
      <4> QED
        BY <4>1
    <3> QED
      BY <3>3
  <2>3. CASE publication[c] = "matched"
    BY <1>3, <2>1, <2>2, <2>3 DEF CallReady
  <2>4. CASE publication[c] # "matched"
    BY <1>1, <2>1, <2>2, <2>4, Unpublished DEF Untouched
  <2> QED
    BY <2>3, <2>4
<1>9. ASSUME NEW d \in Jobs, d \notin needing PROVE Still(d) /\ (d \in jdue' <=> d \in jdue)
  <2>1. \A p \in Needs(d) : p # c
    BY <1>9
  <2>2. CASE d = c
    <3>1. ~Steps(c)'
      BY <1>3 DEF Steps
    <3> QED
      BY <1>3, <1>9, <2>2, <3>1 DEF Still, Ripe
  <2>3. CASE d \in shape.callees[c]
    <3>1. ~Ripe(d)
      BY <1>8, <2>3 DEF Ripe
    <3>2. ~Ripe(d)'
      <4>1. (Done(<<"jres", d>>)' \/ job'[d] = "absent")
        BY <1>5, <1>6, <1>8, <2>3
      <4> QED
        BY <4>1 DEF Ripe
    <3> QED
      BY <1>3, <1>9, <3>1, <3>2 DEF Still
  <2>4. CASE d # c /\ d \notin shape.callees[c]
    <3>1. job'[d] = job[d] /\ publication'[d] = publication[d] /\ (Active(d)' <=> Active(d))
      BY <1>3, <1>6, <1>7, <2>4
    <3>2. Still(d)
      BY <1>1, <1>2, <1>3, <1>5, <2>1, <2>4, <3>1, StillOf
    <3> QED
      BY <1>3, <1>9, <3>2
  <2> QED
    BY <2>2, <2>3, <2>4
<1>10. ASSUME NEW d \in needing PROVE ~Busy(d)' /\ (d \in jdue' <=> Ready(d)')
  <2>1. d \in Jobs /\ Unlocked(d)
    BY <1>3, <1>10
  <2>2. ~Busy(d)'
    BY <1>1, <1>3, <2>1, UnlockedIdle, StaysIdle
  <2> QED
    BY <1>3, <1>10, <2>2 DEF Ready
<1>11. ASSUME Running, NEW e \in idue' PROVE e \in Cells /\ InstanceTargetOpen(e)'
  <2>1. /\ e \in Cells /\ InstanceTargetOpen(e) /\ JobOf(e) \in Jobs /\ Steps(JobOf(e))
        /\ ~Done(<<"jres", JobOf(e)>>)
    BY <1>3, <1>11, DueInstance
  <2>2. JobOf(e) # c /\ JobOf(e) \notin shape.callees[c]
    BY <1>3, <1>8, <2>1 DEF InstanceTargetOpen
  <2> QED
    BY <1>3, <1>6, <1>7, <2>1, <2>2, TargetStays
<1>12. \A d \in Jobs : \/ Still(d) /\ (d \in jdue' <=> d \in jdue)
                       \/ ~Busy(d)' /\ (d \in jdue' <=> Ready(d)')
  BY <1>9, <1>10
<1> QED
  BY <1>1, <1>3, <1>11, <1>12, DueFrame

\* A step keeps the results when it ends no claim of a result.
LEMMA KeepsResults ==
  ASSUME LWTypeOK, NEW id \in Ids, NEW s \in {"held", "done"}, ClaimTo(id, s), claim[id].state # "done",
         s = "done" => /\ \A j \in Jobs : id # <<"jres", j>>
                       /\ \A i \in Instances : id # <<"ires", i>>
  PROVE  /\ \A j \in Jobs : Done(<<"jres", j>>)' <=> Done(<<"jres", j>>)
         /\ \A i \in Instances : Done(<<"ires", i>>)' <=> Done(<<"ires", i>>)
<1>1. /\ \A j \in Jobs : <<"jres", j>> \in Ids
      /\ \A i \in Instances : <<"ires", i>> \in Ids
  BY IdsOf
<1>2. ASSUME NEW x \in Ids, x = id => s # "done" PROVE Done(x)' <=> Done(x)
  BY <1>2 DEF ClaimTo, Done
<1>3. ASSUME NEW j \in Jobs PROVE Done(<<"jres", j>>)' <=> Done(<<"jres", j>>)
  <2>1. <<"jres", j>> = id => s # "done"
    OBVIOUS
  <2> QED
    BY <1>1, <1>2, <2>1
<1>4. ASSUME NEW i \in Instances PROVE Done(<<"ires", i>>)' <=> Done(<<"ires", i>>)
  <2>1. <<"ires", i>> = id => s # "done"
    OBVIOUS
  <2> QED
    BY <1>1, <1>2, <2>1
<1> QED
  BY <1>3, <1>4

\* Every step keeps the due rows exact and the counts right.
LEMMA DueStep ==
  ASSUME LWInv, LWInv', Locks, Counts, Due, [LWNext]_lwVars
  PROVE  Counts' /\ Due'
<1> USE DEF graph, work, due
<1>1. /\ LWTypeOK /\ LWTypeOK' /\ Custody
      /\ Cells \subseteq Instances
      /\ \A i \in Instances : <<"mat", i>> \in Ids /\ <<"ires", i>> \in Ids
      /\ \A j \in Jobs : <<"prep", j>> \in Ids /\ <<"act", j>> \in Ids /\ <<"jres", j>> \in Ids
      /\ Root \in Ids
  BY ShapeType, IdsOf DEF LWInv
<1>2. ASSUME UNCHANGED <<shape, graph, idue>>, Running => jdue' = jdue,
             \A x \in Ids : claim'[x].state = claim[x].state,
             \A w \in Workers : hold'[w] = hold[w] \/ hold'[w].stage # "refreshed" \/ Counted(w)'
      PROVE  Counts' /\ Due'
  <2>1. /\ \A j \in Jobs : Done(<<"jres", j>>)' <=> Done(<<"jres", j>>)
        /\ \A i \in Instances : Done(<<"ires", i>>)' <=> Done(<<"ires", i>>)
    BY <1>1, <1>2 DEF Done
  <2> QED
    BY <1>1, <1>2, <2>1, QuietDue
<1>3. ASSUME NEW w \in Workers, NEW id \in Ids, Take(w, id), UNCHANGED <<shape, graph, idue>>,
             Running => jdue' = jdue
      PROVE  Counts' /\ Due'
  <2>1. /\ claim[id].state # "done" /\ ClaimTo(id, "held")
        /\ \A v \in Workers : hold'[v] = hold[v] \/ hold'[v].stage = "held"
    BY <1>1, <1>3, TakeStates
  <2>2. /\ \A j \in Jobs : Done(<<"jres", j>>)' <=> Done(<<"jres", j>>)
        /\ \A i \in Instances : Done(<<"ires", i>>)' <=> Done(<<"ires", i>>)
    BY <1>1, <2>1, KeepsResults
  <2> QED
    BY <1>1, <1>3, <2>1, <2>2, QuietDue
<1>4. ASSUME NEW w \in Workers, NEW id \in Ids, hold[w].id = id, Finish(w),
             \A j \in Jobs : id # <<"jres", j>>, \A i \in Instances : id # <<"ires", i>>
      PROVE  /\ \A j \in Jobs : Done(<<"jres", j>>)' <=> Done(<<"jres", j>>)
             /\ \A i \in Instances : Done(<<"ires", i>>)' <=> Done(<<"ires", i>>)
             /\ \A v \in Workers : hold'[v] = hold[v] \/ hold'[v].stage # "refreshed"
  <2>1. /\ claim[id].state = "held" /\ ClaimTo(id, "done")
        /\ \A v \in Workers : hold'[v] = hold[v] \/ hold'[v] = Nothing
    BY <1>1, <1>4, FinishStates
  <2>2. /\ \A j \in Jobs : Done(<<"jres", j>>)' <=> Done(<<"jres", j>>)
        /\ \A i \in Instances : Done(<<"ires", i>>)' <=> Done(<<"ires", i>>)
    BY <1>1, <1>4, <2>1, KeepsResults
  <2> QED
    BY <2>1, <2>2 DEF Nothing
<1>5. ASSUME ~Running' PROVE Counts' /\ Due'
  BY <1>5 DEF Counts, Due
<1>10. ASSUME NEW w \in Workers, NEW j \in Jobs, ClaimOrchestration(w, j) PROVE Counts' /\ Due'
  <2>1. CASE Take(w, <<"prep", j>>) /\ job' = job
    BY <1>1, <1>3, <1>10, <2>1 DEF ClaimOrchestration
  <2>2. CASE Take(w, <<"act", j>>) /\ job' = [job EXCEPT ![j] = "activating"]
             /\ job[j] \in {"pending", "activating"}
    <3>1. /\ claim[<<"act", j>>].state # "done" /\ ClaimTo(<<"act", j>>, "held")
          /\ \A v \in Workers : hold'[v] = hold[v] \/ hold'[v].stage = "held"
      BY <1>1, <2>2, TakeStates
    <3>2. /\ \A d \in Jobs : Done(<<"jres", d>>)' <=> Done(<<"jres", d>>)
          /\ \A i \in Instances : Done(<<"ires", i>>)' <=> Done(<<"ires", i>>)
      BY <1>1, <3>1, KeepsResults
    <3>3. Steps(j) /\ UNCHANGED <<shape, run, carried, publication, due>>
      BY <1>10 DEF ClaimOrchestration
    <3> QED
      BY <1>1, <2>2, <3>1, <3>2, <3>3, ActivatingDue
  <2> QED
    BY <1>10, <2>1, <2>2 DEF ClaimOrchestration
<1>11. ASSUME NEW w \in Workers, NEW j \in Jobs, BindPreparation(w, j) PROVE Counts' /\ Due'
  <2>1. hold[w].id = <<"prep", j>> /\ Finish(w) /\ UNCHANGED <<shape, graph, due>>
    BY <1>11 DEF BindPreparation, Holds
  <2> QED
    BY <1>1, <1>4, <2>1, QuietDue
<1>12. ASSUME NEW w \in Workers, NEW j \in Jobs, NEW matched, PublishActivation(w, j, matched)
       PROVE  Counts' /\ Due'
  <2>1. /\ hold[w].id = <<"act", j>> /\ Finish(w)
        /\ publication' = [publication EXCEPT ![j] = IF matched THEN "matched" ELSE "unmatched"]
        /\ job' = [job EXCEPT ![j] = IF matched THEN "activated" ELSE "skipped"]
        /\ UNCHANGED <<shape, run, carried, idue>>
        /\ jdue' = Refreshed(j, JobReady(j, FinalInstances)')
    BY <1>12 DEF PublishActivation, Holds
  <2>2. /\ claim[<<"act", j>>].state = "held" /\ ClaimTo(<<"act", j>>, "done")
        /\ \A v \in Workers : hold'[v] = hold[v] \/ hold'[v] = Nothing
    BY <1>1, <2>1, FinishStates
  <2>3. \A v \in Workers : hold'[v] = hold[v] \/ hold'[v].stage # "refreshed"
    BY <2>2 DEF Nothing
  <2> QED
    BY <1>1, <2>1, <2>2, <2>3, ActivatedDue
<1>13. ASSUME NEW w \in Workers, NEW j \in Jobs, ClaimJobResult(w, j) PROVE Counts' /\ Due'
  <2>1. Running => Refreshed(j, JobReady(j, FinalInstances)) = jdue
    BY DEF Refreshed, Due, Ready
  <2> QED
    BY <1>1, <1>2, <1>3, <1>13, <2>1 DEF ClaimJobResult
<1>14. ASSUME NEW w \in Workers, NEW j \in Jobs, CommitJobResult(w, j) PROVE Counts' /\ Due'
  BY <1>1, <1>14, JobResultDue
<1>15. ASSUME NEW w \in Workers, NEW i \in Cells, ClaimMaterialization(w, i) PROVE Counts' /\ Due'
  BY <1>1, <1>3, <1>15 DEF ClaimMaterialization
<1>16. ASSUME NEW w \in Workers, NEW i \in Cells, CommitMaterialization(w, i) PROVE Counts' /\ Due'
  <2>1. hold[w].id = <<"mat", i>> /\ Finish(w) /\ UNCHANGED <<shape, graph, due>>
    BY <1>16 DEF CommitMaterialization, Holds
  <2> QED
    BY <1>1, <1>4, <2>1, QuietDue
<1>17. ASSUME NEW w \in Workers, NEW i \in Cells, ClaimInstanceResult(w, i) PROVE Counts' /\ Due'
  <2>1. JobOf(i) \in Jobs
    BY <1>1, ShapeType
  <2>2. Running => Refreshed(JobOf(i), JobReady(JobOf(i), FinalInstances)) = jdue
    BY <2>1 DEF Refreshed, Due, Ready
  <2> QED
    BY <1>1, <1>2, <1>3, <1>17, <2>2 DEF ClaimInstanceResult
<1>18. ASSUME NEW w \in Workers, NEW i \in Cells, WriteInstanceResult(w, i) PROVE Counts' /\ Due'
  <2>1. hold' = [hold EXCEPT ![w].stage = "wrote"] /\ UNCHANGED <<shape, graph, claim, due>>
    BY <1>18 DEF WriteInstanceResult
  <2>2. \A v \in Workers : hold'[v] = hold[v] \/ hold'[v].stage # "refreshed"
    BY <1>1, <2>1 DEF LWTypeOK
  <2> QED
    BY <1>2, <2>1, <2>2
<1>19. ASSUME NEW w \in Workers, NEW i \in Cells, RefreshAfterWrite(w, i) PROVE Counts' /\ Due'
  <2> DEFINE ready == JobReady(JobOf(i), FinalInstances \cup {i})
  <2>1. /\ hold[w].id = <<"ires", i>>
        /\ hold' = [hold EXCEPT ![w].stage = "refreshed", ![w].due = ready]
        /\ UNCHANGED <<shape, graph, claim, due>>
    BY <1>19 DEF RefreshAfterWrite
  <2>2. ready <=> Ripe(JobOf(i)) /\ Published(JobOf(i)) \subseteq FinalInstances \cup {i}
    BY DEF JobReady, Ripe
  <2>3. ready \in BOOLEAN
    BY DEF JobReady
  <2> HIDE DEF ready
  <2>4. /\ \A v \in Workers : v # w => hold'[v] = hold[v]
        /\ hold'[w].id = <<"ires", i>> /\ hold'[w].due = ready
    BY <1>1, <2>1 DEF LWTypeOK
  <2>5. PICK j \in Jobs : JobOf(i) = j
    BY <1>1, ShapeType
  <2>6. /\ Cells' = Cells /\ JobOf(i)' = j
        /\ (Ripe(j)' <=> Ripe(j)) /\ Published(j)' = Published(j) /\ FinalInstances' = FinalInstances
    BY <2>1, <2>5 DEF Cells, JobOf, Ripe, Active, Running, CallsOf, ChildActive, Steps, Done, Needs,
                      Published, FinalInstances
  <2>7. Counted(w)'
    <3> SUFFICES ASSUME NEW e \in Cells, hold'[w].id = <<"ires", e>>
                 PROVE  hold'[w].due = TRUE <=>
                           Ripe(JobOf(e))' /\ Published(JobOf(e))' \subseteq FinalInstances' \cup {e}
      BY <2>6 DEF Counted
    <3>1. e = i
      BY <2>4
    <3>2. hold'[w].due = TRUE <=> Ripe(j)' /\ Published(j)' \subseteq FinalInstances' \cup {i}
      BY <2>2, <2>3, <2>4, <2>5, <2>6
    <3>3. (Ripe(JobOf(e))' <=> Ripe(j)') /\ Published(JobOf(e))' = Published(j)'
      <4>1. JobOf(e)' = j
        BY <2>6, <3>1
      <4> QED
        BY <4>1 DEF Ripe, Published, Active
    <3> QED
      BY <3>1, <3>2, <3>3
  <2> QED
    BY <1>2, <2>1, <2>4, <2>7
<1>20. ASSUME NEW w \in Workers, NEW i \in Cells, CommitInstanceResult(w, i) PROVE Counts' /\ Due'
  BY <1>1, <1>20, InstanceResultDue
<1>21. ASSUME NEW w \in Workers, ClaimRunFinalization(w) PROVE Counts' /\ Due'
  BY <1>1, <1>3, <1>21 DEF ClaimRunFinalization
<1>22. ASSUME NEW w \in Workers, CommitRunFinalization(w) PROVE Counts' /\ Due'
  BY <1>5, <1>22 DEF CommitRunFinalization, Running
<1>23. ASSUME NEW w \in Workers, ReplayRenew(w) PROVE Counts' /\ Due'
  <2>1. /\ hold' = [hold EXCEPT ![w].stage = "held", ![w].gen = @ + 1]
        /\ UNCHANGED <<shape, graph, claim, due>>
    BY <1>23 DEF ReplayRenew
  <2>2. \A v \in Workers : hold'[v] = hold[v] \/ hold'[v].stage # "refreshed"
    BY <1>1, <2>1 DEF LWTypeOK
  <2> QED
    BY <1>2, <2>1, <2>2
<1>24. ASSUME NEW w \in Workers, Drop(w), UNCHANGED <<shape, graph, claim, due>> PROVE Counts' /\ Due'
  <2>1. \A v \in Workers : hold'[v] = hold[v] \/ hold'[v].stage # "refreshed"
    BY <1>1, <1>24 DEF LWTypeOK, Drop, Nothing
  <2> QED
    BY <1>2, <1>24, <2>1
<1>25. ASSUME NEW w \in Workers, Renew(w) PROVE Counts' /\ Due'
  <2>1. /\ claim' = [claim EXCEPT ![hold[w].id].gen = @ + 1]
        /\ hold' = [hold EXCEPT ![w].stage = "renewing"] /\ UNCHANGED <<shape, graph, due>>
    BY <1>25 DEF Renew
  <2>2. \A v \in Workers : hold'[v] = hold[v] \/ hold'[v].stage # "refreshed"
    BY <1>1, <2>1 DEF LWTypeOK
  <2>3. \A x \in Ids : claim'[x].state = claim[x].state
    BY <1>1, <2>1 DEF LWTypeOK
  <2> QED
    BY <1>2, <2>1, <2>2, <2>3
<1>26. ASSUME NEW w \in Workers, Quarantine(w) PROVE Counts' /\ Due'
  BY <1>24, <1>26 DEF Quarantine
<1>27. ASSUME NEW w \in Workers, Forget(w) PROVE Counts' /\ Due'
  BY <1>24, <1>27 DEF Forget
<1>28. ASSUME NEW id \in Ids, Expire(id) PROVE Counts' /\ Due'
  <2>1. claim' = [claim EXCEPT ![id].live = FALSE] /\ UNCHANGED <<shape, graph, due, hold>>
    BY <1>28 DEF Expire
  <2>2. \A x \in Ids : claim'[x].state = claim[x].state
    BY <1>1, <2>1 DEF LWTypeOK
  <2> QED
    BY <1>2, <2>1, <2>2
<1>29. ASSUME NEW i \in Cells, UNCHANGED <<shape, graph, claim, jdue, hold>>,
              \A e \in idue' : e \in idue \/ (e = i /\ InstanceTargetOpen(i))
       PROVE  Counts' /\ Due'
  <2>1. /\ \A j \in Jobs : Done(<<"jres", j>>)' <=> Done(<<"jres", j>>)
        /\ \A e \in Instances : Done(<<"ires", e>>)' <=> Done(<<"ires", e>>)
    BY <1>29 DEF Done
  <2> QED
    BY <1>1, <1>29, <2>1, QuietDue
<1>30. ASSUME NEW i \in Cells, NEW c \in Conclusions, Conclude(i, c) PROVE Counts' /\ Due'
  <2>1. \A e \in idue' : e \in idue \/ (e = i /\ InstanceTargetOpen(i))
    BY <1>30 DEF Conclude, InstanceReady, InstanceTargetOpen
  <2> QED
    BY <1>29, <1>30, <2>1 DEF Conclude
<1>31. ASSUME NEW i \in Cells, FailInvalid(i) PROVE Counts' /\ Due'
  BY <1>29, <1>31 DEF FailInvalid
<1>32. ASSUME NEW c \in Jobs, NEW matched \in BOOLEAN, PublishCall(c, matched) PROVE Counts' /\ Due'
  BY <1>1, <1>32, CallPublishedDue
<1>33. ASSUME NEW c \in Jobs, CompleteCall(c) PROVE Counts' /\ Due'
  BY <1>1, <1>33, CallCompletedDue
<1>34. ASSUME NEW queued \in SUBSET Cells, Preempt(queued) PROVE Counts' /\ Due'
  BY <1>5, <1>34 DEF Preempt, Running
<1>35. ASSUME NEW selected, Rerun(selected) PROVE Counts' /\ Due'
  <2>1. /\ \A w \in Workers : hold'[w].stage = "idle"
        /\ \A j \in Jobs : publication'[j] = "none"
        /\ idue' = {} /\ jdue' = {}
    BY <1>35 DEF Rerun, Nothing
  <2>2. Counts'
    BY <2>1 DEF Counts
  <2>3. \A j \in Jobs : ~Ready(j)'
    BY <2>1 DEF Ready, JobReady
  <2> QED
    BY <2>1, <2>2, <2>3 DEF Due
<1>36. CASE UNCHANGED lwVars
  BY <1>2, <1>36 DEF lwVars
<1> QED
  BY <1>10, <1>11, <1>12, <1>13, <1>14, <1>15, <1>16, <1>17, <1>18, <1>19, <1>20, <1>21, <1>22,
     <1>23, <1>25, <1>26, <1>27, <1>28, <1>30, <1>31, <1>32, <1>33, <1>34, <1>35, <1>36
     DEF LWNext, WorkerStep, CallStep

\* A job result has a due row as soon as its evidence is complete, and no due
\* row of an active run leads a worker to incomplete evidence, although the last
\* instances of a job may commit at the same time and triggers decide from what
\* is committed (automata_refresh_logical_workflow_job_result_due).
THEOREM DueRowsExact == LWSpec => []DueExact
<1> DEFINE Inv == LWInv /\ Locks /\ Counts /\ Due
<1>1. LWInit => Locks /\ Counts /\ Due
  <2> SUFFICES ASSUME LWInit PROVE Locks /\ Counts /\ Due
    OBVIOUS
  <2>1. /\ \A w \in Workers : hold[w].stage = "idle"
        /\ \A j \in Jobs : publication[j] = "none"
        /\ idue = {} /\ jdue = {}
    BY DEF LWInit, Nothing
  <2>2. \A j \in Jobs : ~Ready(j)
    BY <2>1 DEF Ready, JobReady
  <2> QED
    BY <2>1, <2>2 DEF Locks, Projects, Counts, Due
<1>2. LWInv /\ LWInv' /\ Locks /\ Counts /\ Due /\ [LWNext]_lwVars => Locks' /\ Counts' /\ Due'
  BY LocksStep, DueStep DEF LWInv
<1>3. LWInv /\ Due => DueExact
  <2> SUFFICES ASSUME LWInv, Due PROVE DueExact
    OBVIOUS
  <2>1. ASSUME NEW j \in Jobs, JobTargetOpen(j), ~Done(<<"jres", j>>), Needs(j) \cap carried = {}
        PROVE  j \in jdue
    <3>1. Ready(j)
      BY <2>1 DEF JobTargetOpen, DescriptorComplete, NeedsReady, Effective, Ready, JobReady
    <3> QED
      BY <2>1, <3>1 DEF Due, JobTargetOpen, Active
  <2>2. ASSUME Running, NEW j \in jdue PROVE JobTargetOpen(j)
    <3>1. j \in Jobs
      BY DEF LWInv, LWTypeOK
    <3>2. Ready(j)
      BY <2>2, <3>1 DEF Due
    <3> QED
      BY <3>2 DEF JobTargetOpen, DescriptorComplete, NeedsReady, Effective, Ready, JobReady
  <2>3. ASSUME Running, NEW i \in idue PROVE InstanceTargetOpen(i)
    BY <2>3 DEF Due
  <2> QED
    BY <2>1, <2>2, <2>3 DEF DueExact
<1> QED
  BY <1>1, <1>2, <1>3, WorkflowInvariant, PTL DEF LWSpec
=============================================================================
