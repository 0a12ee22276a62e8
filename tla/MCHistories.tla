---------------------------- MODULE MCHistories ----------------------------
(***************************************************************************)
(* The two histories the program keeps, of the rack's power and of a host. *)
(* They share neither state nor clock: one run explores each of them, with *)
(* the other one at rest.                                                  *)
(***************************************************************************)
EXTENDS PowerHistory, HostHistory

BothInit == Init /\ RingInit

\* The power history, before the first sample of the host ...
RackStep == RingInit /\ Next /\ UNCHANGED ringVars

\* ... and the history of the host, before the first poll of the rack.
HostStep == Init /\ RingNext /\ UNCHANGED vars

BothSpec == BothInit /\ [][RackStep \/ HostStep]_<<vars, ringVars>>
=============================================================================
