---------------------------- MODULE MCPowerPlan ----------------------------
(***************************************************************************)
(* PowerPlan over every configuration of up to three groups: the names and *)
(* dependency lists that matter (repeated, empty and absent names, self    *)
(* loops, cycles, diamonds), with groups of two, one and no hosts.         *)
(***************************************************************************)
EXTENDS PowerPlan

Names == {"core", "compute", "edge"}
Known == Names \cup {"ghost"}

\* Dependency lists: up to two names, "ghost" being no group.
DepLists == {<<>>} \cup {<<d>> : d \in Known}
                   \cup ({<<d, e>> : d \in Names, e \in Known} \ {<<d, d>> : d \in Names})

Hosts == [core |-> <<"storage", "services">>, compute |-> <<"node">>, edge |-> <<>>]
HostsFor(name) == IF name \in Names THEN Hosts[name] ELSE <<"stray">>

Grp(name, deps) == [name |-> name, members |-> HostsFor(name), deps |-> deps]

OneGroup == {<<Grp(n, d)>> : n \in Names \cup {""}, d \in DepLists}
TwoGroups == {<<Grp(n, d), Grp(m, e)>> :
                n \in {"core", "compute"}, m \in {"core", "edge", ""},
                d \in {x \in DepLists : Len(x) < 2}, e \in DepLists}
\* The third group depends on at most one.
ThreeGroups == {<<Grp("compute", d), Grp("core", e), Grp("edge", f)>> :
                  d \in DepLists, e \in DepLists,
                  f \in {<<>>} \cup {<<x>> : x \in Known}}

MCConfigs == {<<>>} \cup OneGroup \cup TwoGroups \cup ThreeGroups
MCRoots == Names \cup {"ghost"}
MCName == Known \cup {""}
MCMember == {"storage", "services", "node", "stray"}
=============================================================================
