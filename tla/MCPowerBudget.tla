--------------------------- MODULE MCPowerBudget ---------------------------
(***************************************************************************)
(* PowerBudget on three groups with one host each and one without hosts:   *)
(* "core" may not be shed, "compute" goes first, then "spare", which has no*)
(* hosts, then "edge".                                                     *)
(***************************************************************************)
EXTENDS PowerBudget

MCHost == {"storage", "node", "camera"}
MCGroup == {"core", "compute", "spare", "edge"}

Storage == [group |-> "core", host |-> "storage"]
Node == [group |-> "compute", host |-> "node"]
Camera == [group |-> "edge", host |-> "camera"]

\* The plans that PowerPlan's invariants determine: compute depends on core.
Alone(t) == CASE t = "core" -> <<Storage>> [] t = "compute" -> <<Node>>
              [] t = "edge" -> <<Camera>> [] t = "spare" -> <<>>
MCStartupPlan ==
  [t \in MCGroup \cup {"rack"} |-> CASE t = "rack" -> <<Storage, Node, Camera>>
                                    [] t = "compute" -> <<Storage, Node>>
                                    [] OTHER -> Alone(t)]
MCShutdownPlan ==
  [t \in MCGroup \cup {"rack"} |-> IF t = "rack" THEN <<Camera, Node, Storage>> ELSE Alone(t)]
MCDependsOn == [g \in MCGroup |-> IF g = "compute" THEN {"core"} ELSE {}]
MCTimeout == [g \in MCGroup |-> 0]
MCOutletChoice == [h \in MCHost |-> IF h = "node" THEN {1} ELSE {0}]
MCPriority == [g \in MCGroup |-> CASE g = "core" -> 200 [] g = "compute" -> 100
                                   [] g = "spare" -> 50 [] g = "edge" -> 10]
=============================================================================
