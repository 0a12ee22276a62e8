---------------------------- MODULE CommandLife ----------------------------
(***************************************************************************)
(* What CommandRouter promises whoever gives commands, without sessions,   *)
(* queues, connections or threads: commands are carried out at most once   *)
(* and in the order they were given, some never; of the newest of them one *)
(* is told the outcome, once and truly; one that is refused is refused     *)
(* right away and is not carried out while that is still shown.            *)
(*                                                                         *)
(* Module CommandFlow implements it (its property ImplementsLife).         *)
(***************************************************************************)
EXTENDS Naturals, Sequences

CONSTANT Memory   \* how many commands are remembered

VARIABLES
  kinds,     \* the commands given: "agent" for its host, "local" for this one
  carried,   \* what agents carried out: the command, and whether it went well
  told       \* what is told of each: Pending, an outcome, or Dropped

vars == <<kinds, carried, told>>

Outcome(ok) == IF ok THEN "Succeeded" ELSE "Failed"

Init == kinds = <<>> /\ carried = <<>> /\ told = <<>>

Newest(id) == id = Len(kinds)

\* A command is given; one more may be too many to remember.
Give(kind) ==
  /\ kinds' = Append(kinds, kind)
  /\ told' = [id \in 1..Len(kinds) + 1 |->
                IF id + Memory <= Len(kinds) + 1 THEN "Dropped"
                ELSE IF id = Len(kinds) + 1 THEN "Pending" ELSE told[id]]
  /\ UNCHANGED carried

\* A command that needs no agent ends where it was given.
End(id, ok) ==
  /\ Newest(id) /\ kinds[id] = "local" /\ told[id] = "Pending"
  /\ told' = [told EXCEPT ![id] = Outcome(ok)]
  /\ UNCHANGED <<kinds, carried>>

Refuse(id) ==
  /\ Newest(id) /\ kinds[id] = "agent" /\ told[id] = "Pending"
  /\ \A k \in DOMAIN carried : carried[k].id # id
  /\ told' = [told EXCEPT ![id] = "Failed"]
  /\ UNCHANGED <<kinds, carried>>

CarryOut(id, ok) ==
  /\ kinds[id] = "agent" /\ told[id] \in {"Pending", "Dropped"}
  /\ \A k \in DOMAIN carried : carried[k].id < id
  /\ carried' = Append(carried, [id |-> id, ok |-> ok])
  /\ UNCHANGED <<kinds, told>>

Tell(id) ==
  /\ told[id] = "Pending"
  /\ \E k \in DOMAIN carried :
       /\ carried[k].id = id
       /\ told' = [told EXCEPT ![id] = Outcome(carried[k].ok)]
  /\ UNCHANGED <<kinds, carried>>

Next ==
  \/ \E kind \in {"agent", "local"} : Give(kind)
  \/ \E id \in DOMAIN kinds :
       \/ Refuse(id) \/ Tell(id)
       \/ \E ok \in BOOLEAN : End(id, ok) \/ CarryOut(id, ok)

Spec == Init /\ [][Next]_vars
=============================================================================
