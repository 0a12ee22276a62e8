---------------------------- MODULE SequenceRun ----------------------------
(***************************************************************************)
(* What a power sequence promises whoever starts it, without hosts,        *)
(* outlets, timers or phases: an accepted request runs its steps one after *)
(* the other, in order, each step ends once, the first failure ends the    *)
(* sequence and leaves the rest untouched, nothing else can start or       *)
(* disturb a sequence that runs, and every sequence ends.                  *)
(*                                                                         *)
(* Module PowerSequence implements it (its property ImplementsRun).        *)
(***************************************************************************)
EXTENDS Naturals, Sequences

VARIABLES
  running,   \* a sequence is in progress
  complete,  \* the last sequence ended with every step succeeded
  outcome    \* the state of each step of the last sequence

vars == <<running, complete, outcome>>

StepState == {"Pending", "Running", "Succeeded", "Failed"}

Init == running = FALSE /\ complete = FALSE /\ outcome = <<>>

Accept ==
  /\ ~running
  /\ running' = TRUE /\ complete' = FALSE
  /\ outcome' \in Seq({"Pending"}) \ {<<>>}

\* A request without hosts is refused, but the last outcome is forgotten.
Forget ==
  /\ ~running
  /\ running' = FALSE /\ complete' = FALSE /\ outcome' = <<>>

\* The step whose turn it is: the first that is not Succeeded.
Turn(k) ==
  /\ outcome[k] \in {"Pending", "Running"}
  /\ \A j \in 1..(k - 1) : outcome[j] = "Succeeded"

Work(k) ==
  /\ running /\ Turn(k)
  /\ outcome[k] = "Pending"
  /\ outcome' = [outcome EXCEPT ![k] = "Running"]
  /\ UNCHANGED <<running, complete>>

Pass(k) ==
  /\ running /\ Turn(k)
  /\ outcome' = [outcome EXCEPT ![k] = "Succeeded"]
  /\ running' = (k < Len(outcome))
  /\ complete' = (k = Len(outcome))

Fail(k) ==
  /\ running /\ Turn(k)
  /\ outcome' = [outcome EXCEPT ![k] = "Failed"]
  /\ running' = FALSE
  /\ UNCHANGED complete

EndStep == \E k \in DOMAIN outcome : Pass(k) \/ Fail(k)

Next == Accept \/ Forget \/ EndStep \/ \E k \in DOMAIN outcome : Work(k)

Spec == Init /\ [][Next]_vars /\ WF_vars(EndStep)
=============================================================================
