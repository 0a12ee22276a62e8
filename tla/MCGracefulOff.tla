--------------------------- MODULE MCGracefulOff ---------------------------
(***************************************************************************)
(* GracefulOff with two hosts, each on an outlet of its own; the PDU knows *)
(* both outlets once it has answered a poll.                               *)
(***************************************************************************)
EXTENDS GracefulOff

MCHost == {"storage", "node"}
MCAgentOutlet == [h \in MCHost |-> IF h = "storage" THEN 1 ELSE 2]
=============================================================================
