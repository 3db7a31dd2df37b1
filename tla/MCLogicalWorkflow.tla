-------------------------- MODULE MCLogicalWorkflow --------------------------
(* Small instances of LogicalWorkflow for TLC. *)
EXTENDS LogicalWorkflow, TLC

Alone == [j \in Jobs |-> {}]

\* deploy needs build, which has a matrix of two instances.
Matrix == [root |-> {"build", "deploy"},
           needs |-> [Alone EXCEPT !["deploy"] = {"build"}],
           callees |-> Alone,
           jobOf |-> "build1" :> "build" @@ "build2" :> "build" @@ "deploy1" :> "deploy"]

\* deploy needs a call of the workflow that consists of build.
Call == [root |-> {"call", "deploy"},
         needs |-> [Alone EXCEPT !["deploy"] = {"call"}],
         callees |-> [Alone EXCEPT !["call"] = {"build"}],
         jobOf |-> "build1" :> "build" @@ "deploy1" :> "deploy"]

\* deploy needs build.
Chain == [Matrix EXCEPT !.jobOf = Call.jobOf]

MatrixOrCall == {Matrix, Call}
OnlyChain == {Chain}
=============================================================================
