--------------------------- MODULE PowerSequence ---------------------------
(***************************************************************************)
(* PowerSequenceEngine: the state machine that powers the rack up or down  *)
(* one host at a time (control-pi/src/power/power_sequence_engine.cpp).    *)
(*                                                                         *)
(* The engine is ticked once a second on the LVGL thread (AppShell's power *)
(* timer) and started by buttons on the same thread.  It reads MetricsStore*)
(* and PduStore, which the WebSocket thread and the PDU polling thread     *)
(* write at any moment, and it sends commands through CommandRouter.  An   *)
(* outlet command is an HTTP PUT that blocks the LVGL thread for up to     *)
(* five seconds: the tick is cut in two there (Tick..., then FinishPut),   *)
(* and everything the other threads do can fall in between.                *)
(*                                                                         *)
(* Steps come from the plans of module PowerPlan, given here as constants; *)
(* PlanAssumption states of them what PlanProofs proves.                   *)
(***************************************************************************)
EXTENDS Integers, Sequences, FiniteSets

CONSTANTS
  Host, Group,
  Rack,               \* the target of start_all; other targets are groups
  StartupPlan,        \* StartupPlan[t]: the steps of a startup of target t
  ShutdownPlan,       \* the same for a shutdown
  DependsOn,          \* DependsOn[g]: every group g needs, directly or not
  StartupTimeout,     \* startup_timeout_s by group
  ShutdownTimeout,    \* shutdown_timeout_s by group
  Readiness,          \* startup_readiness_s
  OutletChoice,       \* OutletChoice[h]: effective outlets h may be given, 0 = none
  PduOutlet,          \* the outlets the PDU reports
  Loads,              \* what the inlet may read, a subset of LoadLevel
  HasMac,             \* the hosts with a MAC address
  Joining,            \* the hosts that may connect or be removed while it runs
  MaxIds              \* bound on the activity ids drawn before the last start

Target == Group \cup {Rack}
LoadLevel == {"unmeasured", "normal", "warning", "critical"}
PlanStep == [group : Group, host : Host]
OutletNum == UNION {OutletChoice[h] : h \in Host}

Plan(t, up) == IF up THEN StartupPlan[t] ELSE ShutdownPlan[t]

\* What PowerPlan's DependencyOrdered says of every accepted plan.
Ordered(t) ==
  /\ \A i, j \in DOMAIN StartupPlan[t] :
       StartupPlan[t][i].group \in DependsOn[StartupPlan[t][j].group] => i < j
  /\ \A i, j \in DOMAIN ShutdownPlan[t] :
       ShutdownPlan[t][i].group \in DependsOn[ShutdownPlan[t][j].group] => j < i

ASSUME PlanAssumption ==
  /\ StartupPlan \in [Target -> Seq(PlanStep)]
  /\ ShutdownPlan \in [Target -> Seq(PlanStep)]
  /\ DependsOn \in [Group -> SUBSET Group]
  /\ \A t \in Target : Ordered(t)

ASSUME ConfigAssumption ==
  /\ StartupTimeout \in [Group -> Nat]
  /\ ShutdownTimeout \in [Group -> Nat]
  /\ Readiness \in Nat
  /\ OutletChoice \in [Host -> SUBSET Nat]
  /\ Loads \subseteq LoadLevel
  /\ HasMac \subseteq Host
  /\ Joining \subseteq Host
  /\ MaxIds \in Nat

VARIABLES
  \* PowerSequenceStatus, current_ (from 1 here)
  active, startup, succeeded, steps, current,
  \* phase_; seconds since phase_started_; seconds since ready_since_
  phase, elapsed, ready,
  \* ids_, the ids of the current sequence and step, and the ids of the
  \* engine's activities that ActivityStore still shows as Pending
  ids, seqId, stepId, pending,
  \* a tick is blocked in SynlinkClient::set_outlet
  putting,
  \* MetricsStore: hosts it has an entry for, those shown online, their
  \* effective_pdu_outlet
  known, online, outletOf,
  \* PduStore: the outlets last reported on, healthy_, and the level of
  \* total_watts
  view, healthy, load,
  \* history: commands sent in the running step, and the value of elapsed
  \* at the last tick of it that saw the host offline
  issued, offlineAt

statusVars == <<active, startup, succeeded, steps, current>>
timerVars == <<phase, elapsed, ready>>
activityVars == <<ids, seqId, stepId, pending>>
hostVars == <<known, online, outletOf>>
pduVars == <<view, healthy, load>>
historyVars == <<issued, offlineAt>>
vars == <<statusVars, timerVars, activityVars, putting, hostVars, pduVars, historyVars>>

NotReady == -1       \* ready_since_ is unset
Command == {"on", "wol", "shutdown", "off"}
NoCommand == [c \in Command |-> 0]
StepState == {"Pending", "Running", "Succeeded", "Failed"}
Step == [group : Group, host : Host, state : StepState]

-----------------------------------------------------------------------------
(* What a tick looks at.                                                   *)

Now == steps[current]
Timeout(g) == IF startup THEN StartupTimeout[g] ELSE ShutdownTimeout[g]

\* get_outlet(o) has a value, and its .on.  Before the first poll nothing is
\* found, but then healthy_ is false, which tick() tests first.
Found(o) == o \in PduOutlet
IsOn(o) == o \in view

\* start_current, at the head of the tick that finds the step Pending.
Starting == Now.state = "Pending"
phaseNow == IF Starting THEN 0 ELSE phase
elapsedNow == IF Starting THEN 0 ELSE elapsed
readyNow == IF Starting THEN NotReady ELSE ready
idsNow == IF Starting THEN ids + 1 ELSE ids
stepIdNow == IF Starting THEN ids + 1 ELSE stepId
pendingNow == IF Starting THEN pending \cup {ids + 1} ELSE pending
issuedNow == IF Starting THEN NoCommand ELSE issued
offlineAtNow == IF Starting THEN 0 ELSE offlineAt

\* The phase and clocks of a step mean nothing until begin and start_current
\* set them again, and are kept at rest in between.
ClocksAtRest ==
  /\ phase' = 0 /\ elapsed' = 0 /\ ready' = NotReady
  /\ issued' = NoCommand /\ offlineAt' = 0

\* Mutant: the step's own activity is left open when a sequence completes.
SucceedLeavingStep ==
  LET last == current = Len(steps)
  IN /\ steps' = [steps EXCEPT ![current].state = "Succeeded"]
     /\ current' = current + 1
     /\ active' = ~last
     /\ succeeded' = (succeeded \/ last)
     /\ ids' = idsNow /\ stepId' = stepIdNow
     /\ pending' = pendingNow \ (IF last THEN {seqId} ELSE {stepIdNow})
     /\ ClocksAtRest
     /\ UNCHANGED <<startup, seqId, putting>>

\* succeed_current
SucceedCurrent ==
  LET last == current = Len(steps)
  IN /\ steps' = [steps EXCEPT ![current].state = "Succeeded"]
     /\ current' = current + 1
     /\ active' = ~last
     /\ succeeded' = (succeeded \/ last)
     /\ ids' = idsNow /\ stepId' = stepIdNow
     /\ pending' = pendingNow \ (IF last THEN {stepIdNow, seqId} ELSE {stepIdNow})
     /\ ClocksAtRest
     /\ UNCHANGED <<startup, seqId, putting>>

\* Mutant: the sequence goes on after a failed step.
FailCurrentGoOn ==
  /\ steps' = [steps EXCEPT ![current].state = "Failed"]
  /\ active' = (current < Len(steps))
  /\ current' = IF current < Len(steps) THEN current + 1 ELSE current
  /\ ids' = idsNow /\ stepId' = stepIdNow
  /\ pending' = pendingNow \ {stepIdNow, seqId}
  /\ ClocksAtRest
  /\ UNCHANGED <<startup, succeeded, seqId, putting>>

\* fail_current
FailCurrent ==
  /\ steps' = [steps EXCEPT ![current].state = "Failed"]
  /\ active' = FALSE
  /\ ids' = idsNow /\ stepId' = stepIdNow
  /\ pending' = pendingNow \ {stepIdNow, seqId}
  /\ ClocksAtRest
  /\ UNCHANGED <<startup, succeeded, current, seqId, putting>>

\* The tick ends with the step Running, in phase ph, ready_since_ r seconds
\* ago, after sending the commands in sent.
Continue(ph, r, sent) ==
  /\ steps' = [steps EXCEPT ![current].state = "Running"]
  /\ phase' = ph /\ ready' = r
  /\ elapsed' = elapsedNow
  /\ ids' = idsNow /\ stepId' = stepIdNow /\ pending' = pendingNow
  /\ issued' = [c \in Command |-> issuedNow[c] + IF c \in sent THEN 1 ELSE 0]
  /\ offlineAt' = IF Now.host \in online THEN offlineAtNow ELSE elapsedNow
  /\ UNCHANGED <<active, startup, succeeded, current, seqId>>

\* dispatch of an outlet command: the tick stops in the PUT.
BlockInPut(r, c) == Continue(phaseNow, r, {c}) /\ putting' = TRUE
Return(ph, r, sent) == Continue(ph, r, sent) /\ UNCHANGED putting

-----------------------------------------------------------------------------
(* tick(), one action for each way it can go.                              *)

Ticking ==
  /\ ~putting
  /\ active /\ current <= Len(steps)
  /\ UNCHANGED <<hostVars, pduVars>>

InTime == Now.host \in known /\ elapsedNow <= Timeout(Now.group)

\* Mutant: the timeout is only looked at before the first command.
TickGiveUpEarlyOnly ==
  /\ Ticking
  /\ Now.host \notin known \/ (elapsedNow > Timeout(Now.group) /\ phaseNow = 0)
  /\ FailCurrent

\* Unknown host, or the step ran out of time.
TickGiveUp ==
  /\ Ticking
  /\ ~InTime
  /\ FailCurrent

Mac(h) == IF h \in HasMac THEN {"wol"} ELSE {}

\* Mutant: ready_since_ survives a tick that sees the host offline.
ReadyWhenOffline == readyNow

\* ready_since_ = {} while the host is offline.
ReadyOffline == NotReady

\* Startup, host online: it must stay so for Readiness seconds.
TickOnline ==
  /\ Ticking /\ InTime
  /\ startup /\ Now.host \in online
  /\ LET since == IF readyNow = NotReady THEN 0 ELSE readyNow
     IN IF since >= Readiness THEN SucceedCurrent ELSE Return(phaseNow, since, {})

\* Startup, host offline, nothing sent yet: power it.
TickPowerOn ==
  /\ Ticking /\ InTime
  /\ startup /\ Now.host \notin online /\ phaseNow = 0
  /\ LET o == outletOf[Now.host]
     IN IF \/ o > 0 /\ ~healthy
           \/ o > 0 /\ ~Found(o)
           \/ Found(o) /\ ~IsOn(o) /\ load = "critical"
        THEN FailCurrent
        ELSE IF Found(o) /\ ~IsOn(o)
             THEN BlockInPut(ReadyOffline, "on")
             ELSE Return(1, ReadyOffline, Mac(Now.host))

\* Startup, host offline, commands sent: wait.
TickAwaitBoot ==
  /\ Ticking /\ InTime
  /\ startup /\ Now.host \notin online /\ phaseNow # 0
  /\ Return(phaseNow, ReadyOffline, {})

\* Shutdown, host online, nothing sent yet: ask the agent.
TickAskShutdown ==
  /\ Ticking /\ InTime
  /\ ~startup /\ Now.host \in online /\ phaseNow = 0
  /\ Return(1, readyNow, {"shutdown"})

\* Shutdown asked for, host still online: wait.
TickAwaitOffline ==
  /\ Ticking /\ InTime
  /\ ~startup /\ Now.host \in online /\ phaseNow = 1
  /\ Return(1, readyNow, {})

\* Shutdown, host offline (phase 0 or 1 goes to 2 in this same tick): cut
\* its outlet, or succeed when there is nothing to cut.
TickCut ==
  /\ Ticking /\ InTime
  /\ ~startup /\ Now.host \notin online /\ phaseNow \in {0, 1}
  /\ LET o == outletOf[Now.host]
     IN IF o = 0 THEN SucceedCurrent
        ELSE IF ~healthy \/ ~Found(o) THEN FailCurrent
        ELSE IF IsOn(o) THEN BlockInPut(readyNow, "off") ELSE SucceedCurrent

\* Shutdown, outlet cut: wait until a poll shows it off.
TickAwaitCut ==
  /\ Ticking /\ InTime
  /\ ~startup /\ phaseNow = 3
  /\ LET o == outletOf[Now.host]
     IN IF ~healthy \/ ~Found(o) THEN FailCurrent
        ELSE IF IsOn(o) THEN Return(3, readyNow, {}) ELSE SucceedCurrent

Tick ==
  \/ TickGiveUp
  \/ TickOnline \/ TickPowerOn \/ TickAwaitBoot
  \/ TickAskShutdown \/ TickAwaitOffline \/ TickCut \/ TickAwaitCut

\* Mutant: the startup branch forgets to leave phase 0 after the PUT.
FinishPutSamePhase ==
  /\ putting
  /\ putting' = FALSE
  /\ phase' = IF startup THEN 0 ELSE 3
  /\ issued' = [c \in Command |->
                  issued[c] + IF startup /\ c \in Mac(Now.host) THEN 1 ELSE 0]
  /\ UNCHANGED <<statusVars, elapsed, ready, activityVars, hostVars, pduVars, offlineAt>>

\* set_outlet returned, well or badly (the engine does not ask): the rest of
\* the tick.  A startup goes on to the wake-on-LAN packet.
FinishPut ==
  /\ putting
  /\ putting' = FALSE
  /\ phase' = IF startup THEN 1 ELSE 3
  /\ issued' = [c \in Command |->
                  issued[c] + IF startup /\ c \in Mac(Now.host) THEN 1 ELSE 0]
  /\ UNCHANGED <<statusVars, elapsed, ready, activityVars, hostVars, pduVars, offlineAt>>

-----------------------------------------------------------------------------
(* start_all / start_group, from the buttons of the Power tab: begin.      *)

Accept(t, up) ==
  /\ active' = TRUE /\ startup' = up /\ succeeded' = FALSE
  /\ steps' = [k \in DOMAIN Plan(t, up) |->
                 [group |-> Plan(t, up)[k].group, host |-> Plan(t, up)[k].host,
                  state |-> "Pending"]]
  /\ current' = 1 /\ phase' = 0
  /\ ids' = ids + 1 /\ seqId' = ids + 1 /\ pending' = pending \cup {ids + 1}
  /\ UNCHANGED <<stepId, elapsed, ready>>

\* "sequence has no hosts": refused after status_ was cleared.
RefuseEmpty(up) ==
  /\ active' = FALSE /\ startup' = up /\ succeeded' = FALSE /\ steps' = <<>>
  /\ UNCHANGED <<current, timerVars, activityVars>>

\* A request while a sequence is active changes nothing and is left out.
Start(t, up) ==
  /\ ~putting /\ ids < MaxIds
  /\ ~active
  /\ IF Plan(t, up) = <<>> THEN RefuseEmpty(up) ELSE Accept(t, up)
  /\ UNCHANGED <<putting, hostVars, pduVars, historyVars>>

-----------------------------------------------------------------------------
(* The rest of the program, as the engine can see it.                      *)

engineVars == <<statusVars, activityVars, putting, historyVars>>

Least(a, b) == IF a <= b THEN a ELSE b

\* One second passes for the running step.  Its clocks stop where the code
\* no longer tells values apart: one past the timeout, and at Readiness.
Second ==
  /\ active /\ Now.state = "Running"
  /\ elapsed <= Timeout(Now.group)
  /\ elapsed' = elapsed + 1
  /\ ready' = IF ready = NotReady THEN ready ELSE Least(ready + 1, Readiness)
  /\ UNCHANGED <<phase, engineVars, hostVars, pduVars>>

\* Mutant: metrics of a host without an entry only mark it online.
HostSeenNoEntry(h) ==
  /\ h \in known \/ h \in Joining
  /\ online' = online \cup {h}
  /\ UNCHANGED <<known, outletOf, timerVars, engineVars, pduVars>>

\* WebSocket thread: update_hello or update_metrics of a host.  A host that
\* was removed comes back with the outlet of its hello.
HostSeen(h) ==
  /\ h \in known \/ h \in Joining
  /\ known' = known \cup {h} /\ online' = online \cup {h}
  /\ \E o \in OutletChoice[h] :
       /\ h \in known => o = outletOf[h]
       /\ outletOf' = [outletOf EXCEPT ![h] = o]
  /\ UNCHANGED <<timerVars, engineVars, pduVars>>

\* WebSocket thread (mark_offline) or LVGL thread (tick_online_status).
HostLost(h) ==
  /\ h \in online
  /\ online' = online \ {h}
  /\ UNCHANGED <<known, outletOf, timerVars, engineVars, pduVars>>

\* remove_host, from the host's page.
RemoveHost(h) ==
  /\ ~putting
  /\ h \in known \cap Joining
  /\ known' = known \ {h} /\ online' = online \ {h}
  /\ UNCHANGED <<outletOf, timerVars, engineVars, pduVars>>

\* The effective outlet changes: set_pdu_outlet_override, or a hello of an
\* agent whose own configuration changed.
AssignOutlet(h, o) ==
  /\ h \in known /\ o # outletOf[h]
  /\ outletOf' = [outletOf EXCEPT ![h] = o]
  /\ UNCHANGED <<known, online, timerVars, engineVars, pduVars>>

\* PDU thread: PduStore::update with whatever the poll brought.
PduUpdate ==
  /\ view' \in SUBSET PduOutlet
  /\ load' \in Loads
  /\ healthy' = TRUE
  /\ UNCHANGED <<timerVars, engineVars, hostVars>>

\* PDU thread: mark_poll_failed.
PduPollFailed ==
  /\ healthy' = FALSE
  /\ UNCHANGED <<view, load, timerVars, engineVars, hostVars>>

Environment ==
  \/ \E h \in Host : HostSeen(h) \/ HostLost(h) \/ RemoveHost(h)
  \/ \E h \in Host : \E o \in OutletChoice[h] : AssignOutlet(h, o)
  \/ PduUpdate \/ PduPollFailed

-----------------------------------------------------------------------------

Init ==
  /\ active = FALSE /\ startup = FALSE /\ succeeded = FALSE
  /\ steps = <<>> /\ current = 1
  /\ phase = 0 /\ elapsed = 0 /\ ready = NotReady
  /\ ids = 0 /\ seqId = 0 /\ stepId = 0 /\ pending = {}
  /\ putting = FALSE
  /\ known = Host \ Joining /\ online = {}
  /\ outletOf \in [Host -> OutletNum]
  /\ \A h \in Host : outletOf[h] \in OutletChoice[h]
  /\ view = {} /\ healthy = FALSE /\ load = "unmeasured"
  /\ issued = NoCommand /\ offlineAt = 0

Next ==
  \/ Tick \/ FinishPut
  \/ \E t \in Target, up \in BOOLEAN : Start(t, up)
  \/ Second
  \/ Environment

Spec == Init /\ [][Next]_vars

\* The LVGL timer keeps firing, time passes, and httplib gives a PUT up
\* after five seconds.  Nothing is asked of hosts, agents, PDU or user.
Fairness == WF_vars(Tick) /\ WF_vars(FinishPut) /\ WF_vars(Second)

FairSpec == Spec /\ Fairness

-----------------------------------------------------------------------------
(* Properties.                                                             *)

TypeOK ==
  /\ active \in BOOLEAN /\ startup \in BOOLEAN /\ succeeded \in BOOLEAN
  /\ steps \in Seq(Step)
  /\ current \in Nat \ {0}
  /\ phase \in {0, 1, 3}
  /\ elapsed \in Nat /\ ready \in Nat \cup {NotReady}
  /\ ids \in Nat /\ seqId \in 0..ids /\ stepId \in 0..ids
  /\ pending \subseteq 1..ids
  /\ putting \in BOOLEAN
  /\ known \subseteq Host /\ online \subseteq known
  /\ outletOf \in [Host -> Nat]
  /\ view \subseteq PduOutlet
  /\ healthy \in BOOLEAN /\ load \in LoadLevel
  /\ issued \in [Command -> Nat] /\ offlineAt \in Nat

(* The status shown on the Power tab tells one story: every step before    *)
(* the current one succeeded, every later one is untouched; while active   *)
(* the current step is Pending or Running; once inactive either all steps  *)
(* succeeded, or the current one failed, or there are none.                *)
StatusConsistent ==
  /\ \A k \in DOMAIN steps :
       /\ k < current => steps[k].state = "Succeeded"
       /\ k > current => steps[k].state = "Pending"
  /\ active => /\ current <= Len(steps) /\ ~succeeded
               /\ Now.state \in {"Pending", "Running"}
  /\ (~active /\ steps # <<>>) =>
       IF succeeded THEN current = Len(steps) + 1
       ELSE current <= Len(steps) /\ Now.state = "Failed"
  /\ putting => active /\ Now.state = "Running"

(* No host is touched before every host its group depends on has come up,  *)
(* and in a shutdown none before every host that depends on it went down,  *)
(* whatever hosts, PDU and user do meanwhile.                              *)
DependenciesFirst ==
  \A i, j \in DOMAIN steps :
    /\ steps[i].state # "Pending"
    /\ IF startup THEN steps[j].group \in DependsOn[steps[i].group]
                  ELSE steps[i].group \in DependsOn[steps[j].group]
    => steps[j].state = "Succeeded"

(* The activities the engine opens are those of the sequence in progress   *)
(* and of its running step, and nothing else of it ever stays Pending on   *)
(* the activity screen: every exit of tick() completes what begin and      *)
(* start_current opened.                                                   *)
ActivitiesSettle ==
  pending = (IF active THEN {seqId} ELSE {})
              \cup (IF active /\ Now.state = "Running" THEN {stepId} ELSE {})

(* A step sends each of its commands at most once, however the host flaps, *)
(* the outlet is reassigned or the PUT turns out.                          *)
CommandsOnce == \A c \in Command : issued[c] <= 1

(* A host is only taken for started when no tick of its step has seen it   *)
(* offline for the last Readiness seconds.                                 *)
ReadinessHeld ==
  [][\A k \in DOMAIN steps :
       (/\ active /\ startup /\ k = current /\ steps[k].state = "Running"
        /\ steps'[k].state = "Succeeded")
         => elapsed - offlineAt >= Readiness]_vars

\* The engine's status seen as a SequenceRun.
Run == INSTANCE SequenceRun WITH
  running <- active,
  complete <- succeeded,
  outcome <- [k \in DOMAIN steps |-> steps[k].state]

(* The engine implements a SequenceRun: steps in order, each ending once,  *)
(* a failure stops the sequence, a running sequence is not disturbed, and  *)
(* every sequence ends although hosts and PDU may never answer.            *)
ImplementsRun == Run!Spec
=============================================================================
