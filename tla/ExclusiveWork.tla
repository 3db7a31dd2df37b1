---------------------------- MODULE ExclusiveWork ----------------------------
(***************************************************************************)
(* What the lease protocol promises, without leases, sessions, tokens or   *)
(* clocks: a piece of work is assigned to at most one place, a place is    *)
(* assigned at most one piece of work, only the place a piece of work is   *)
(* assigned to executes it, the assignment ends only when nobody executes  *)
(* it any more, and work that may have started is never assigned again.    *)
(*                                                                         *)
(* Module AttemptLease is shown to implement this specification.           *)
(***************************************************************************)
CONSTANTS
    Work,    \* the pieces of work
    Places,  \* where work can be executed
    Nowhere  \* the place of unassigned work

VARIABLES
    phase,     \* absent, waiting, assigned, started or done
    place,     \* where the work is assigned
    executing  \* who executes what, as pairs of work and place

workVars == <<phase, place, executing>>

WorkInit ==
    /\ phase = [w \in Work |-> "absent"]
    /\ place = [w \in Work |-> Nowhere]
    /\ executing = {}

ExecutingBut(w) == {e \in executing : e[1] # w}

\* New work arrives and other work is called off in one step: waiting work
\* is done with, assigned work counts as started.
Change(new, off) ==
    /\ \A w \in new : phase[w] = "absent"
    /\ \A w \in off : phase[w] \in {"waiting", "assigned", "started"}
    /\ phase' = [w \in Work |-> CASE w \in new -> "waiting"
                                  [] w \in off /\ phase[w] = "waiting" -> "done"
                                  [] w \in off /\ phase[w] # "waiting" -> "started"
                                  [] OTHER -> phase[w]]
    /\ UNCHANGED <<place, executing>>

\* Waiting work is assigned to a place that has none and executes none.
Assign(w, p) ==
    /\ phase[w] = "waiting"
    /\ \A v \in Work : place[v] # p
    /\ \A e \in executing : e[1] # w /\ e[2] # p
    /\ phase' = [phase EXCEPT ![w] = "assigned"]
    /\ place' = [place EXCEPT ![w] = p]
    /\ UNCHANGED executing

\* The place the work is assigned to executes it and may start it.
Execute(w, next) ==
    /\ place[w] # Nowhere
    /\ next = phase[w] \/ next = "started"
    /\ phase' = [phase EXCEPT ![w] = next]
    /\ executing' = executing \cup {<<w, place[w]>>}
    /\ UNCHANGED place

\* Some places stop executing what they are assigned.
Stop(left) ==
    /\ left \subseteq executing
    /\ executing' = left
    /\ UNCHANGED <<phase, place>>

\* The assignment ends and nobody executes the work any more.  Only work that
\* has not started waits again.
Release(w, next) ==
    /\ place[w] # Nowhere
    /\ next = "done" \/ (next = "waiting" /\ phase[w] = "assigned")
    /\ phase' = [phase EXCEPT ![w] = next]
    /\ place' = [place EXCEPT ![w] = Nowhere]
    /\ executing' = ExecutingBut(w)

WorkNext ==
    \/ \E new, off \in SUBSET Work : Change(new, off)
    \/ \E w \in Work :
          \/ \E p \in Places : Assign(w, p)
          \/ \E next \in {"assigned", "started"} : Execute(w, next)
          \/ \E next \in {"waiting", "done"} : Release(w, next)
    \/ \E left \in SUBSET executing : Stop(left)

WorkSpec == WorkInit /\ [][WorkNext]_workVars
=============================================================================
