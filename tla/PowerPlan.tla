----------------------------- MODULE PowerPlan -----------------------------
(***************************************************************************)
(* How PowerSequenceEngine turns the [[power_group]] tables of the         *)
(* configuration into the list of steps of a sequence: the constructor's   *)
(* validation, topological_groups (a depth-first search with marks), and   *)
(* what start_all / start_group / begin make of the order it returns       *)
(* (control-pi/src/power/power_sequence_engine.cpp).                       *)
(*                                                                         *)
(* A behaviour takes a configuration, constructs the engine and makes one  *)
(* start request.  The recursive lambda of the search is its stack: one    *)
(* action for each call and each return.  What happens to an accepted list *)
(* of steps afterwards is module PowerSequence; the assumptions it makes   *)
(* on its plans are the invariants of this one.                            *)
(***************************************************************************)
EXTENDS Integers, Sequences, FiniteSets, SequencesExt

CONSTANTS
  Name,      \* what groups and dependencies may be called
  Member,    \* the hosts
  Configs,   \* the configurations looked at: sequences of groups
  Roots      \* the group names a caller may ask for

ASSUME ConfigsAssumption ==
  /\ Configs \subseteq Seq([name : Name, members : Seq(Member), deps : Seq(Name)])
  /\ Roots \subseteq Name \ {""}

VARIABLES
  config,      \* groups_
  validation,  \* validation_error_: "none" or the kind of error
  request,     \* the start request made, NoRequest before it
  result,      \* what the request returned
  steps,       \* status_.steps, as group and host
  at,          \* what runs: the search, the loops of begin, or nothing
  \* topological_groups: the calls of visit under way with the names each has
  \* still to visit, below them the loop that started it; marks (0 unseen, 1
  \* on the stack, 2 finished), order and error
  stack, marks, order, error,
  listed       \* begin: how many groups the loop has done

searchVars == <<stack, marks, order, error>>
vars == <<config, validation, request, result, steps, at, searchVars, listed>>

NoRequest == [root |-> "", startup |-> FALSE, made |-> FALSE]
Refused(e) == [ok |-> FALSE, error |-> e]

Errors == {"none", "names", "unknown", "missing", "cycle", "no groups", "no hosts"}

NamesOf(cfg) == {cfg[i].name : i \in DOMAIN cfg}

\* by_name: a later group of the same name replaces an earlier one.
ByName(cfg, name) ==
  cfg[CHOOSE i \in DOMAIN cfg :
        /\ cfg[i].name = name
        /\ \A j \in DOMAIN cfg : cfg[j].name = name => j <= i]

\* begin looks a group up with find_if: the first of that name.
FirstNamed(cfg, name) ==
  cfg[CHOOSE i \in DOMAIN cfg :
        /\ cfg[i].name = name
        /\ \A j \in DOMAIN cfg : cfg[j].name = name => i <= j]

Init ==
  /\ config \in Configs
  /\ validation = "none" /\ request = NoRequest /\ result = Refused("none")
  /\ at = "new" /\ steps = <<>> /\ listed = 0
  /\ stack = <<>> /\ marks = [n \in NamesOf(config) |-> 0] /\ order = <<>> /\ error = "none"

-----------------------------------------------------------------------------
(* topological_groups.                                                     *)

\* Its first lines; root "" asks for every group, in configuration order.
Search(root) ==
  /\ at' = "visit"
  /\ stack' = <<[name |-> "", left |-> IF root = "" THEN [i \in DOMAIN config |-> config[i].name]
                                       ELSE <<root>>]>>
  /\ marks' = [n \in NamesOf(config) |-> 0]
  /\ order' = <<>> /\ error' = "none"

\* The constructor: names non-empty and unique first, then the graph.
Construct ==
  /\ at = "new"
  /\ IF \E i \in DOMAIN config :
          \/ config[i].name = ""
          \/ \E j \in DOMAIN config : j < i /\ config[j].name = config[i].name
     THEN validation' = "names" /\ at' = "ready" /\ UNCHANGED searchVars
     ELSE Search("") /\ UNCHANGED validation
  /\ UNCHANGED <<config, request, result, steps, listed>>

\* start_all (root "") and start_group, up to the search.
Start(root, startup) ==
  /\ at = "ready"
  /\ request' = [root |-> root, startup |-> startup, made |-> TRUE]
  /\ IF root # "" /\ root \notin NamesOf(config)
     THEN result' = Refused("unknown") /\ at' = "answered" /\ UNCHANGED searchVars
     ELSE Search(root) /\ UNCHANGED result
  /\ UNCHANGED <<config, validation, steps, listed>>

Top == stack[Len(stack)]
Advanced == [stack EXCEPT ![Len(stack)].left = Tail(@)]

\* Mutant: a mark of 1 is taken for a finished group, so a cycle goes unseen.
RefusalNoCycle(name) == IF name \notin NamesOf(config) THEN "missing" ELSE "none"

\* Why visit returns false at once.
Refusal(name) ==
  IF name \notin NamesOf(config) THEN "missing"
  ELSE IF marks[name] = 1 THEN "cycle" ELSE "none"

SearchOnly == UNCHANGED <<config, validation, request, result, steps, at, listed>>

\* visit(name), up to its loop.
Visit(name) ==
  /\ at = "visit" /\ error = "none" /\ Top.left # <<>> /\ name = Head(Top.left)
  /\ \/ /\ Refusal(name) # "none"
        /\ error' = Refusal(name)
        /\ UNCHANGED <<stack, marks, order>>
     \/ /\ Refusal(name) = "none" /\ marks[name] # 0
        /\ stack' = Advanced
        /\ UNCHANGED <<marks, order, error>>
     \/ /\ Refusal(name) = "none" /\ marks[name] = 0
        /\ marks' = [marks EXCEPT ![name] = 1]
        /\ stack' = Append(Advanced, [name |-> name, left |-> ByName(config, name).deps])
        /\ UNCHANGED <<order, error>>
  /\ SearchOnly

\* The lines of visit after its loop.
Finish ==
  /\ at = "visit" /\ error = "none" /\ Len(stack) > 1 /\ Top.left = <<>>
  /\ marks' = [marks EXCEPT ![Top.name] = 2]
  /\ order' = Append(order, Top.name)
  /\ stack' = SubSeq(stack, 1, Len(stack) - 1)
  /\ UNCHANGED error
  /\ SearchOnly

\* The search returns: every loop stops at the first visit that returns false.
Searched ==
  /\ at = "visit" /\ (error # "none" \/ (Len(stack) = 1 /\ Top.left = <<>>))
  /\ IF ~request.made
     THEN validation' = error /\ at' = "ready" /\ UNCHANGED result
     ELSE IF error = "none"
     THEN at' = "begin" /\ UNCHANGED <<validation, result>>
     ELSE result' = Refused(error) /\ at' = "answered" /\ UNCHANGED validation
  /\ UNCHANGED <<config, request, steps, searchVars, listed>>

-----------------------------------------------------------------------------
(* begin, on an idle engine.                                               *)

\* Mutant: start_group shuts the whole dependency closure down.
OrderForClosure == order

\* start_group replaces the closure by the one group when it shuts down.
OrderFor == IF request.root # "" /\ ~request.startup THEN <<request.root>> ELSE order

\* Mutant: a shutdown takes the groups in the order of a startup.
GroupOrderOfStartup == OrderFor

GroupOrder == IF request.startup THEN OrderFor ELSE Reverse(OrderFor)

Members(name) ==
  LET members == FirstNamed(config, name).members
  IN IF request.startup THEN members ELSE Reverse(members)

Begin ==
  /\ at = "begin"
  /\ IF validation # "none" THEN result' = Refused(validation) /\ at' = "answered"
     ELSE IF OrderFor = <<>> THEN result' = Refused("no groups") /\ at' = "answered"
     ELSE at' = "list" /\ UNCHANGED result
  /\ UNCHANGED <<config, validation, request, steps, searchVars, listed>>

\* The steps of the next group are pushed.
ListGroup ==
  /\ at = "list" /\ listed < Len(GroupOrder)
  /\ listed' = listed + 1
  /\ LET name == GroupOrder[listed + 1]
     IN steps' = steps \o [k \in DOMAIN Members(name) |-> [group |-> name, host |-> Members(name)[k]]]
  /\ UNCHANGED <<config, validation, request, result, at, searchVars>>

\* Mutant: the "sequence has no hosts" test is gone.
AnswerAlways == [ok |-> TRUE, error |-> "none"]

Answer == IF steps = <<>> THEN Refused("no hosts") ELSE [ok |-> TRUE, error |-> "none"]

Listed ==
  /\ at = "list" /\ listed = Len(GroupOrder)
  /\ at' = "answered" /\ result' = Answer
  /\ UNCHANGED <<config, validation, request, steps, searchVars, listed>>

Next ==
  \/ Construct \/ Finish \/ Searched \/ Begin \/ ListGroup \/ Listed
  \/ \E name \in Name : Visit(name)
  \/ \E root \in Roots \cup {""}, startup \in BOOLEAN : ~request.made /\ Start(root, startup)

Spec == Init /\ [][Next]_vars

-----------------------------------------------------------------------------
(* The reference: dependency as a relation, without a search.              *)

DepsOf(cfg, name) ==
  IF name \in NamesOf(cfg) THEN ToSet(ByName(cfg, name).deps) ELSE {}

\* The least set of names that holds S and the dependencies of its members.
ClosureOf(cfg, S) ==
  LET all == NamesOf(cfg) \cup (UNION {DepsOf(cfg, n) : n \in NamesOf(cfg)}) \cup S
      closed == {C \in SUBSET all : S \subseteq C /\ \A n \in C : DepsOf(cfg, n) \subseteq C}
  IN {n \in all : \A C \in closed : n \in C}

WellFormed(cfg) ==
  /\ \A i \in DOMAIN cfg : cfg[i].name # ""
  /\ \A i, j \in DOMAIN cfg : cfg[i].name = cfg[j].name => i = j
  /\ \A n \in NamesOf(cfg) : DepsOf(cfg, n) \subseteq NamesOf(cfg)
  /\ \A n \in NamesOf(cfg) : n \notin ClosureOf(cfg, DepsOf(cfg, n))

\* The groups a request is about.
Wanted ==
  IF request.root = "" THEN NamesOf(config)
  ELSE IF request.startup THEN ClosureOf(config, {request.root}) ELSE {request.root}

HostsAt(name) == FirstNamed(config, name).members

-----------------------------------------------------------------------------
(* Properties.                                                             *)

Constructed == at = "ready" \/ request.made

(* The constructor accepts exactly the configurations whose names are      *)
(* unique and non-empty and whose dependencies exist and have no cycle:    *)
(* the marks of the search decide what reachability defines.               *)
ValidationIsExact == Constructed => (validation = "none" <=> WellFormed(config))

(* A request is accepted exactly when the configuration is valid, the      *)
(* group is known and one of the groups it is about has a host; a refused  *)
(* one says why and leaves no steps.                                       *)
AcceptedExactly ==
  at = "answered" =>
    /\ result.ok <=> /\ WellFormed(config)
                     /\ request.root \in NamesOf(config) \cup {""}
                     /\ \E n \in Wanted : HostsAt(n) # <<>>
    /\ result.ok <=> result.error = "none"
    /\ result.ok <=> steps # <<>>

(* An accepted sequence has the members of each group it is about, in the  *)
(* order the direction asks for and with no other step between them, and   *)
(* nothing else (group_order and members of begin).                        *)
StepsAreTheMembers ==
  result.ok =>
    /\ \A i \in DOMAIN steps : steps[i].group \in Wanted
    /\ \A n \in Wanted : \E d \in 0..Len(steps) :
         /\ {i \in DOMAIN steps : steps[i].group = n} = d + 1..d + Len(HostsAt(n))
         /\ \A k \in 1..Len(HostsAt(n)) :
              steps[d + k].host = HostsAt(n)[IF request.startup THEN k ELSE Len(HostsAt(n)) + 1 - k]

(* "Dependencies define group startup order. Shutdown uses the reverse     *)
(* order": in a startup every host of a dependency, direct or not, comes   *)
(* before the hosts that need it, in a shutdown after them.                *)
DependencyOrdered ==
  result.ok =>
    \A i, j \in DOMAIN steps :
      steps[i].group \in ClosureOf(config, DepsOf(config, steps[j].group)) =>
        IF request.startup THEN i < j ELSE j < i
=============================================================================
