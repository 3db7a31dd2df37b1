------------------------------ MODULE DurableLog ------------------------------
(***************************************************************************)
(* What the runner and the control plane promise of the log of an attempt, *)
(* without journal, spool, segments, receipts, retries or crashes: the log *)
(* grows at its end and loses nothing, a closing record ends it, what the  *)
(* control plane has is a beginning of it, an emission is reported durable *)
(* only when its record is in it, and the attempt is concluded when all of *)
(* it has arrived.  Only giving the attempt up forgets records, and then   *)
(* those that have not arrived.                                            *)
(*                                                                         *)
(* Module RunnerSlot is shown to implement this specification.             *)
(***************************************************************************)
EXTENDS Naturals, Sequences, Functions

CONSTANTS
    Record,  \* what can be emitted: numbers, in the order of emission
    Closing  \* the record that ends the log

VARIABLES
    log,        \* the records that are durable somewhere
    arrived,    \* the records that the control plane has
    reported,   \* the records whose emission was told that they are durable
    concluded,  \* whether the control plane has the result
    givenUp     \* whether the attempt was given up

logVars == <<log, arrived, reported, concluded, givenUp>>

LogInit ==
    /\ log = <<>>
    /\ arrived = <<>>
    /\ reported = {}
    /\ concluded = FALSE
    /\ givenUp = FALSE

\* A later record is added at the end of a log that is not closed.
Extend(r) ==
    /\ ~givenUp
    /\ Closing \notin Range(log)
    /\ \A q \in Range(log) : q < r
    /\ log' = Append(log, r)
    /\ UNCHANGED <<arrived, reported, concluded, givenUp>>

\* An emission returns.  What becomes of one that outlives the attempt does not
\* matter.
Report(r) ==
    /\ givenUp \/ r \in Range(log)
    /\ reported' = reported \cup {r}
    /\ UNCHANGED <<log, arrived, concluded, givenUp>>

\* The next records arrive.
Arrive(n) ==
    /\ ~givenUp /\ ~concluded
    /\ n > Len(arrived)
    /\ arrived' = SubSeq(log, 1, n)
    /\ UNCHANGED <<log, reported, concluded, givenUp>>

Conclude ==
    /\ ~givenUp
    /\ Closing \in Range(log)
    /\ arrived = log
    /\ concluded' = TRUE
    /\ UNCHANGED <<log, arrived, reported, givenUp>>

GiveUp ==
    /\ givenUp' = TRUE
    /\ log' = arrived
    /\ UNCHANGED <<arrived, reported, concluded>>

LogNext ==
    \/ \E r \in Record : Extend(r) \/ Report(r)
    \/ \E n \in 1 .. Len(log) : Arrive(n)
    \/ Conclude
    \/ GiveUp

LogSpec == LogInit /\ [][LogNext]_logVars
=============================================================================
