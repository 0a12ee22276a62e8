-------------------------- MODULE MCPowerSequence --------------------------
(***************************************************************************)
(* PowerSequence on the rack of config.toml's example: "storage" in group  *)
(* core, "node" in group compute, which depends on core, and a group       *)
(* without hosts.  The plans are those that StepsAreTheMembers and         *)
(* DependencyOrdered of PowerPlan determine for that configuration.        *)
(***************************************************************************)
EXTENDS PowerSequence

MCHost == {"storage", "node"}
MCGroup == {"core", "compute", "spare"}

Storage == [group |-> "core", host |-> "storage"]
Node == [group |-> "compute", host |-> "node"]

MCStartupPlan ==
  [t \in MCGroup \cup {"rack"} |-> CASE t \in {"rack", "compute"} -> <<Storage, Node>>
                                    [] t = "core" -> <<Storage>>
                                    [] t = "spare" -> <<>>]
MCShutdownPlan ==
  [t \in MCGroup \cup {"rack"} |-> CASE t = "rack" -> <<Node, Storage>>
                                    [] t = "compute" -> <<Node>>
                                    [] t = "core" -> <<Storage>>
                                    [] t = "spare" -> <<>>]
MCDependsOn == [g \in MCGroup |-> IF g = "compute" THEN {"core"} ELSE {}]
MCStartupTimeout == [g \in MCGroup |-> 2]
MCShutdownTimeout == [g \in MCGroup |-> 1]

\* Outlet 9 is one the PDU does not have.
MCOutletChoice == [h \in MCHost |-> IF h = "storage" THEN {1, 9} ELSE {0}]
=============================================================================
