---------------------------- MODULE PowerBudget ----------------------------
(***************************************************************************)
(* PowerBudgetController (control-pi/src/power/power_budget_controller.cpp)*)
(* on top of PowerSequence: its tick() runs the engine's tick and then     *)
(* decides, from the measured load, whether to shut another group down.    *)
(* It shares the engine with the buttons of the Power tab, and both run on *)
(* the LVGL thread: while an outlet PUT blocks the engine's half of a tick *)
(* no button is handled, but hosts and PDU go on.                          *)
(*                                                                         *)
(* start_group's plans are the engine's ShutdownPlan.  Load levels stand   *)
(* for total_watts against warning_watts <= critical_watts.                *)
(***************************************************************************)
EXTENDS PowerSequence

CONSTANTS
  NoGroup,
  Priority,        \* shedding_priority
  NeverShed,       \* groups with never_shed
  Hold             \* critical_hold_s

ASSUME BudgetAssumption ==
  /\ NoGroup \notin Group
  /\ Priority \in [Group -> Int]
  /\ NeverShed \subseteq Group
  /\ Hold \in Nat
  \* What PowerPlan's StepsAreTheMembers says of the shutdown of one group.
  /\ \A g \in Group : \A k \in DOMAIN ShutdownPlan[g] : ShutdownPlan[g][k].group = g

VARIABLES
  \* load_shedding_enabled, seconds since critical_since_, shedding_,
  \* shed_groups_, pending_shed_group_
  enabled, criticalFor, shedding, shedGroups, pendingShed,
  \* tick() has run the engine and not yet its own part
  inTick,
  \* history: seconds since a tick last saw the load below critical, or
  \* since shedding was enabled
  calmAgo

budgetVars == <<enabled, criticalFor, shedding, shedGroups, pendingShed>>
budgetAllVars == <<vars, budgetVars, inTick, calmAgo>>

NotSince == -1       \* critical_since_ is unset

-----------------------------------------------------------------------------
(* tick(): the engine first.                                               *)

\* PowerSequenceEngine::tick with nothing to do.
IdleTick == ~active /\ UNCHANGED vars

EngineTick ==
  /\ ~inTick
  /\ Tick \/ IdleTick
  /\ inTick' = TRUE
  /\ UNCHANGED <<budgetVars, calmAgo>>

BudgetFinishPut == FinishPut /\ UNCHANGED <<budgetVars, inTick, calmAgo>>

\* The head of the controller's own part: the shutdown it had started ended.
Settled == pendingShed # NoGroup /\ ~active

\* Mutant: a shutdown that failed counts as well.
ShedAnyway == IF Settled THEN shedGroups \cup {pendingShed} ELSE shedGroups

ShedSoFar == IF Settled /\ succeeded THEN shedGroups \cup {pendingShed} ELSE shedGroups

\* Mutant: the pending group is only forgotten when its shutdown succeeded.
StillPendingOnFailure == IF Settled /\ succeeded THEN NoGroup ELSE pendingShed

StillPending == IF Settled THEN NoGroup ELSE pendingShed

Measured == healthy /\ load # "unmeasured"

\* Disabled, or nothing to go by: critical_since_ keeps what it says.
TailBlind ==
  /\ ~enabled \/ ~Measured
  /\ pendingShed' = StillPending
  /\ UNCHANGED <<vars, criticalFor, shedding, calmAgo>>

\* Mutant: the hold time goes on through a dip below critical.
TailCalmKeepsClock ==
  /\ enabled /\ Measured /\ load # "critical"
  /\ calmAgo' = 0
  /\ shedding' = (shedding /\ load = "warning")
  /\ pendingShed' = StillPending
  /\ UNCHANGED <<vars, criticalFor>>

TailCalm ==
  /\ enabled /\ Measured /\ load # "critical"
  /\ criticalFor' = NotSince /\ calmAgo' = 0
  /\ shedding' = (shedding /\ load = "warning")
  /\ pendingShed' = StillPending
  /\ UNCHANGED vars

heldNow == IF criticalFor = NotSince THEN 0 ELSE criticalFor

TailHold ==
  /\ enabled /\ Measured /\ load = "critical"
  /\ heldNow < Hold
  /\ criticalFor' = heldNow
  /\ pendingShed' = StillPending
  /\ UNCHANGED <<vars, shedding, calmAgo>>

Sheddable == Group \ (NeverShed \cup ShedSoFar)

\* Mutant: a group whose shutdown is refused is passed over.
NextToShedSkipping ==
  LET able == {g \in Sheddable : ShutdownPlan[g] # <<>>}
  IN {g \in able : \A h \in able : Priority[h] <= Priority[g]}

\* The first of the sorted groups; std::sort leaves ties in any order.
NextToShed == {g \in Sheddable : \A h \in Sheddable : Priority[h] <= Priority[g]}

\* Held long enough: shut the next group down, unless the engine is busy. A
\* group without hosts is refused, and tried again on every tick.
TailShed ==
  /\ enabled /\ Measured /\ load = "critical"
  /\ heldNow >= Hold
  /\ criticalFor' = heldNow
  /\ shedding' = TRUE
  /\ IF active \/ NextToShed = {} \/ ids >= MaxIds
     THEN pendingShed' = StillPending /\ UNCHANGED vars
     ELSE \E g \in NextToShed :
            /\ IF ShutdownPlan[g] = <<>>
               THEN RefuseEmpty(FALSE) /\ pendingShed' = StillPending
               ELSE Accept(g, FALSE) /\ pendingShed' = g
            /\ UNCHANGED <<putting, hostVars, pduVars, historyVars>>
  /\ UNCHANGED calmAgo

ShedTail ==
  /\ inTick /\ ~putting
  /\ inTick' = FALSE
  /\ shedGroups' = ShedSoFar
  /\ TailBlind \/ TailCalm \/ TailHold \/ TailShed
  /\ UNCHANGED enabled

-----------------------------------------------------------------------------
(* Buttons of the Power tab: START RACK, SHUT DOWN RACK, AUTO SHEDDING.    *)

UserStart(up) ==
  /\ ~inTick
  /\ Start(Rack, up)
  /\ UNCHANGED <<budgetVars, inTick, calmAgo>>

Enable ==
  /\ ~inTick /\ ~enabled
  /\ enabled' = TRUE /\ calmAgo' = 0
  /\ UNCHANGED <<vars, criticalFor, shedding, shedGroups, pendingShed, inTick>>

\* A shutdown the controller started goes on.
Disable ==
  /\ ~inTick /\ enabled
  /\ enabled' = FALSE
  /\ shedding' = FALSE /\ criticalFor' = NotSince
  /\ UNCHANGED <<vars, shedGroups, pendingShed, inTick, calmAgo>>

-----------------------------------------------------------------------------

EngineClock ==
  IF active /\ Now.state = "Running" /\ elapsed <= Timeout(Now.group)
  THEN Second
  ELSE UNCHANGED vars

\* A second passes for engine and controller alike.
BudgetSecond ==
  /\ EngineClock
  /\ criticalFor' = IF criticalFor = NotSince THEN NotSince ELSE Least(criticalFor + 1, Hold)
  /\ calmAgo' = Least(calmAgo + 1, Hold)
  /\ UNCHANGED <<enabled, shedding, shedGroups, pendingShed, inTick>>

World == Environment /\ UNCHANGED <<budgetVars, inTick, calmAgo>>

BudgetInit ==
  /\ Init
  /\ enabled \in BOOLEAN
  /\ criticalFor = NotSince /\ shedding = FALSE
  /\ shedGroups = {} /\ pendingShed = NoGroup
  /\ inTick = FALSE /\ calmAgo = 0

BudgetNext ==
  \/ EngineTick \/ BudgetFinishPut \/ ShedTail
  \/ \E up \in BOOLEAN : UserStart(up)
  \/ Enable \/ Disable
  \/ BudgetSecond
  \/ World

\* As in PowerSequence: timers fire, time passes, a PUT returns.
BudgetSpec ==
  /\ BudgetInit /\ [][BudgetNext]_budgetAllVars
  /\ WF_budgetAllVars(EngineTick) /\ WF_budgetAllVars(ShedTail)
  /\ WF_budgetAllVars(BudgetFinishPut) /\ WF_budgetAllVars(BudgetSecond)

-----------------------------------------------------------------------------
(* Properties.                                                             *)

(* Whenever buttons can be pressed, the group the controller waits for is  *)
(* the one the engine is shutting down, and nothing else: no user sequence *)
(* is ever credited to load shedding, and none of the controller's is lost.*)
PendingIsRunning ==
  (pendingShed # NoGroup /\ ~inTick) =>
    /\ active /\ ~startup
    /\ \A k \in DOMAIN steps : steps[k].group = pendingShed

(* Groups are shed by priority: none is listed as shed while another of a  *)
(* higher priority that may be shed is not, whatever fails in between; and *)
(* a protected group is neither shed nor waited for.                       *)
ShedByPriority ==
  /\ \A g \in shedGroups, h \in Group \ NeverShed :
       Priority[h] > Priority[g] => h \in shedGroups
  /\ NeverShed \cap (shedGroups \cup {pendingShed}) = {}

(* A group is only listed as shed when every one of its hosts was taken    *)
(* down by the sequence that just ended.                                   *)
ShedMeansDown ==
  [][\A g \in shedGroups' \ shedGroups :
       /\ ~startup /\ steps # <<>>
       /\ \A k \in DOMAIN steps : steps[k].group = g /\ steps[k].state = "Succeeded"]_budgetAllVars

(* The controller starts a shutdown only after Hold seconds in which       *)
(* shedding was enabled and no measurement it saw was below critical.      *)
HoldKept ==
  [][(inTick /\ ids' > ids) => enabled /\ calmAgo >= Hold]_budgetAllVars

(* The controller never waits for a group for ever, whether hosts and PDU  *)
(* answer or not.                                                          *)
ShedSettles == (pendingShed # NoGroup) ~> (pendingShed = NoGroup \/ ~active)
=============================================================================
