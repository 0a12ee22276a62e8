---------------------------- MODULE PowerProofs ----------------------------
(***************************************************************************)
(* Proofs about the power sequence engine and the load shedding on top of  *)
(* it, for any rack: any hosts, groups, plans that respect the             *)
(* dependencies, timeouts, outlets, shed priorities and hold time.         *)
(*                                                                         *)
(* The engine: every way through tick() ends in one of three places, the   *)
(* step succeeds, the step fails, or it stays Running (TickShape).  The    *)
(* proofs go by that distinction wherever it is enough.                    *)
(*                                                                         *)
(* Load shedding, from "The engine in the composition" on: every step of   *)
(* the composition is a step of the engine or leaves it alone, so that all *)
(* that is shown of the engine holds under load shedding too.              *)
(***************************************************************************)
EXTENDS PowerBudget, SequenceTheorems, TLAPS

USE DEF NotReady, Command, StepState, LoadLevel, NoCommand

-----------------------------------------------------------------------------
(* Sequences of steps.                                                     *)

(* Setting the state of one step, as tick does with status_.steps[current],*)
(* leaves a sequence of steps of the same length and the same hosts.       *)
LEMMA SetState ==
  ASSUME NEW s \in Seq(Step), NEW i \in DOMAIN s, NEW v \in StepState
  PROVE  LET t == [s EXCEPT ![i].state = v]
         IN /\ t \in Seq(Step)
            /\ Len(t) = Len(s) /\ DOMAIN t = DOMAIN s
            /\ \A k \in DOMAIN s : /\ t[k].group = s[k].group
                                   /\ t[k].state = IF k = i THEN v ELSE s[k].state
<1> DEFINE e == [s[i] EXCEPT !.state = v]
           t == [s EXCEPT ![i] = e]
<1>1. Len(s) \in Nat /\ DOMAIN s = 1..Len(s)
  BY LenProperties
<1>2. s[i] \in Step
  BY <1>1, ElementOfSeq
<1>3. e \in Step /\ e.group = s[i].group /\ e.state = v
  BY <1>2 DEF Step
<1>4. /\ t \in Seq(Step) /\ Len(t) = Len(s)
      /\ \A k \in 1..Len(s) : t[k] = IF k = i THEN e ELSE s[k]
  <2> HIDE DEF e
  <2> QED BY <1>1, <1>3, ExceptSeq
<1>5. DOMAIN t = DOMAIN s
  OBVIOUS
<1>6. \A k \in DOMAIN s : /\ t[k].group = s[k].group
                          /\ t[k].state = IF k = i THEN v ELSE s[k].state
  <2> HIDE DEF t, e
  <2> QED BY <1>1, <1>3, <1>4
<1> QED
  BY <1>4, <1>5, <1>6

(* The steps of an accepted request are those of its plan, all Pending.    *)
LEMMA AcceptedSteps ==
  ASSUME NEW t \in Target, NEW up \in BOOLEAN
  PROVE  LET s == [k \in DOMAIN Plan(t, up) |->
                     [group |-> Plan(t, up)[k].group, host |-> Plan(t, up)[k].host,
                      state |-> "Pending"]]
         IN /\ s \in Seq(Step)
            /\ Len(s) = Len(Plan(t, up)) /\ DOMAIN s = DOMAIN Plan(t, up)
            /\ \A k \in DOMAIN s : /\ s[k].group = Plan(t, up)[k].group
                                   /\ s[k].state = "Pending"
<1> DEFINE P == Plan(t, up)
           s == [k \in DOMAIN P |-> [group |-> P[k].group, host |-> P[k].host,
                                     state |-> "Pending"]]
<1>1. P \in Seq(PlanStep)
  BY PlanAssumption DEF Plan
<1> HIDE DEF P
<1>2. Len(P) \in Nat /\ DOMAIN P = 1..Len(P)
  BY <1>1, LenProperties
<1>3. \A k \in 1..Len(P) : P[k] \in PlanStep
  BY <1>1, <1>2, ElementOfSeq
<1>4. \A k \in DOMAIN P : s[k] \in Step
  BY <1>2, <1>3 DEF Step, PlanStep, StepState
<1>5. s \in [1..Len(P) -> Step]
  BY <1>2, <1>4
<1>6. s \in Seq(Step)
  BY <1>2, <1>5, SeqDef
<1>7. Len(s) = Len(P)
  BY <1>2, <1>6, LenProperties
<1> QED
  BY <1>6, <1>7 DEF P

-----------------------------------------------------------------------------
(* Type correctness.                                                       *)

(* Where a tick leaves a step that goes on.                                *)
Goes ==
  /\ putting' \in BOOLEAN
  /\ \E ph \in {0, 1, 3}, r \in Nat \cup {NotReady}, sent \in SUBSET Command :
       Continue(ph, r, sent)

(* The three places a tick can end in.                                     *)
LEMMA TickShape ==
  ASSUME TypeOK, Tick
  PROVE  Ticking /\ (SucceedCurrent \/ FailCurrent \/ Goes)
<1>1. phaseNow \in {0, 1, 3} /\ readyNow \in Nat \cup {NotReady} /\ putting \in BOOLEAN
  BY DEF TypeOK, phaseNow, readyNow
<1>2. \A h \in Host : Mac(h) \in SUBSET Command
  BY DEF Mac
<1>3. ASSUME NEW ph \in {0, 1, 3}, NEW r \in Nat \cup {NotReady}, NEW sent \in SUBSET Command,
             Return(ph, r, sent)
      PROVE  Goes
  BY <1>1, <1>3 DEF Return, Goes
<1>4. ASSUME NEW r \in Nat \cup {NotReady}, NEW c \in Command, BlockInPut(r, c)
      PROVE  Goes
  <2>1. Continue(phaseNow, r, {c}) /\ putting' = TRUE
    BY <1>4 DEF BlockInPut
  <2>2. {c} \in SUBSET Command
    OBVIOUS
  <2> QED BY <1>1, <2>1, <2>2 DEF Goes
<1>5. CASE TickGiveUp
  BY <1>5 DEF TickGiveUp
<1>6. CASE TickOnline
  <2> DEFINE since == IF readyNow = NotReady THEN 0 ELSE readyNow
  <2>1. since \in Nat \cup {NotReady} /\ {} \in SUBSET Command
    BY <1>1
  <2>2. Ticking /\ (SucceedCurrent \/ Return(phaseNow, since, {}))
    BY <1>6 DEF TickOnline
  <2> HIDE DEF since
  <2> QED BY <1>1, <1>3, <2>1, <2>2
<1>7. CASE TickPowerOn
  <2>1. Ticking /\ Now.host \in known
    BY <1>7 DEF TickPowerOn, InTime
  <2>2. Now.host \in Host
    BY <2>1 DEF TypeOK
  <2>3. FailCurrent \/ BlockInPut(NotReady, "on") \/ Return(1, NotReady, Mac(Now.host))
    BY <1>7 DEF TickPowerOn, ReadyOffline
  <2>4. Mac(Now.host) \in SUBSET Command
    BY <1>2, <2>2
  <2> QED BY <1>3, <1>4, <2>1, <2>3, <2>4
<1>8. CASE TickAwaitBoot
  <2>1. Ticking /\ Return(phaseNow, NotReady, {})
    BY <1>8 DEF TickAwaitBoot, ReadyOffline
  <2> QED BY <1>1, <1>3, <2>1
<1>9. CASE TickAskShutdown
  <2>1. Ticking /\ Return(1, readyNow, {"shutdown"})
    BY <1>9 DEF TickAskShutdown
  <2> QED BY <1>1, <1>3, <2>1
<1>10. CASE TickAwaitOffline
  <2>1. Ticking /\ Return(1, readyNow, {})
    BY <1>10 DEF TickAwaitOffline
  <2> QED BY <1>1, <1>3, <2>1
<1>11. CASE TickCut
  <2>1. Ticking /\ (SucceedCurrent \/ FailCurrent \/ BlockInPut(readyNow, "off"))
    BY <1>11 DEF TickCut
  <2> QED BY <1>1, <1>4, <2>1
<1>12. CASE TickAwaitCut
  <2>1. Ticking /\ (SucceedCurrent \/ FailCurrent \/ Return(3, readyNow, {}))
    BY <1>12 DEF TickAwaitCut
  <2> QED BY <1>1, <1>3, <2>1
<1> QED
  BY <1>5, <1>6, <1>7, <1>8, <1>9, <1>10, <1>11, <1>12 DEF Tick

(* What the head of a tick makes of the ids and clocks.                    *)
LEMMA NowTypes ==
  ASSUME TypeOK
  PROVE  /\ idsNow \in Nat /\ ids <= idsNow /\ stepIdNow \in 0..idsNow
         /\ seqId \in 0..idsNow
         /\ pendingNow \subseteq 1..idsNow
         /\ elapsedNow \in Nat /\ offlineAtNow \in Nat
         /\ issuedNow \in [Command -> Nat]
  BY DEF TypeOK, idsNow, stepIdNow, pendingNow, elapsedNow, offlineAtNow, issuedNow

(* What a tick leaves of the types, whichever way it goes.                 *)
LEMMA TickTypes ==
  ASSUME TypeOK, Tick
  PROVE  TypeOK'
<1>1. Ticking /\ (SucceedCurrent \/ FailCurrent \/ Goes)
  BY TickShape
<1>2. current \in DOMAIN steps
  BY <1>1, LenProperties DEF Ticking, TypeOK
<1>3. /\ known' = known /\ online' = online /\ outletOf' = outletOf
      /\ view' = view /\ healthy' = healthy /\ load' = load
  BY <1>1 DEF Ticking, hostVars, pduVars
<1>4. CASE SucceedCurrent \/ FailCurrent
  <2>1. PICK v \in StepState : steps' = [steps EXCEPT ![current].state = v]
    BY <1>4 DEF SucceedCurrent, FailCurrent
  <2>2. steps' \in Seq(Step)
    BY <1>2, <2>1, SetState DEF TypeOK
  <2>3. active' \in BOOLEAN /\ succeeded' \in BOOLEAN /\ startup' = startup
    BY <1>4 DEF SucceedCurrent, FailCurrent, TypeOK
  <2>4. current' \in Nat \ {0}
    BY <1>4 DEF SucceedCurrent, FailCurrent, TypeOK
  <2>5. /\ ids' = idsNow /\ stepId' = stepIdNow /\ seqId' = seqId /\ putting' = putting
        /\ pending' \subseteq pendingNow
    BY <1>4 DEF SucceedCurrent, FailCurrent
  <2>6. phase' = 0 /\ elapsed' = 0 /\ ready' = NotReady /\ issued' = NoCommand /\ offlineAt' = 0
    BY <1>4 DEF SucceedCurrent, FailCurrent, ClocksAtRest
  <2>7. issued' \in [Command -> Nat]
    BY <2>6
  <2> QED
    BY <1>3, <2>2, <2>3, <2>4, <2>5, <2>6, <2>7, NowTypes DEF TypeOK
<1>5. CASE Goes
  <2>1. PICK ph \in {0, 1, 3}, r \in Nat \cup {NotReady}, sent \in SUBSET Command :
          Continue(ph, r, sent)
    BY <1>5 DEF Goes
  <2>2. steps' \in Seq(Step)
    BY <1>2, <2>1, SetState DEF TypeOK, Continue
  <2>3. issued' \in [Command -> Nat]
    BY <2>1, NowTypes DEF Continue
  <2>4. offlineAt' \in Nat /\ elapsed' \in Nat /\ phase' \in {0, 1, 3}
        /\ ready' \in Nat \cup {NotReady}
    BY <2>1, NowTypes DEF Continue
  <2>5. /\ ids' = idsNow /\ stepId' = stepIdNow /\ pending' = pendingNow
        /\ active' = active /\ startup' = startup /\ succeeded' = succeeded
        /\ current' = current /\ seqId' = seqId
    BY <2>1 DEF Continue
  <2>6. putting' \in BOOLEAN
    BY <1>5 DEF Goes
  <2> QED
    BY <1>3, <2>2, <2>3, <2>4, <2>5, <2>6, NowTypes DEF TypeOK
<1> QED
  BY <1>1, <1>4, <1>5

(* The engine the constructor leaves is well typed.                        *)
LEMMA InitTypes == Init => TypeOK
<1> SUFFICES ASSUME Init PROVE TypeOK
  OBVIOUS
<1>1. \A h \in Host : outletOf[h] \in Nat
  BY ConfigAssumption DEF Init
<1>2. outletOf \in [Host -> Nat]
  BY <1>1 DEF Init
<1>3. steps \in Seq(Step)
  BY EmptySeq DEF Init
<1>4. issued \in [Command -> Nat]
  BY DEF Init
<1>5. ids \in Nat /\ seqId \in 0..ids /\ stepId \in 0..ids /\ pending \subseteq 1..ids
  BY DEF Init
<1>6. /\ active \in BOOLEAN /\ startup \in BOOLEAN /\ succeeded \in BOOLEAN
      /\ putting \in BOOLEAN /\ healthy \in BOOLEAN
  BY DEF Init
<1>7. known \subseteq Host /\ online \subseteq known /\ view \subseteq PduOutlet
  BY DEF Init
<1>8. /\ current \in Nat \ {0} /\ phase \in {0, 1, 3} /\ elapsed \in Nat
      /\ ready \in Nat \cup {NotReady} /\ load \in LoadLevel /\ offlineAt \in Nat
  BY DEF Init
<1> QED
  BY <1>2, <1>3, <1>4, <1>5, <1>6, <1>7, <1>8 DEF TypeOK

(* Every action of engine, user, hosts and PDU keeps the types.            *)
LEMMA StepTypes == TypeOK /\ [Next]_vars => TypeOK'
<1> SUFFICES ASSUME TypeOK, [Next]_vars PROVE TypeOK'
  OBVIOUS
<1>1. CASE Tick
  BY <1>1, TickTypes
<1>2. CASE FinishPut
  <2>1. issued' \in [Command -> Nat]
    BY <1>2 DEF FinishPut, TypeOK
  <2> QED
    BY <1>2, <2>1 DEF FinishPut, TypeOK, statusVars, activityVars, hostVars, pduVars
<1>3. ASSUME NEW t \in Target, NEW up \in BOOLEAN, Start(t, up)
      PROVE  TypeOK'
  <2>1. CASE Accept(t, up)
    <3>1. steps' \in Seq(Step)
      BY <2>1, AcceptedSteps DEF Accept
    <3>2. /\ ids' \in Nat /\ seqId' \in 0..ids' /\ stepId' \in 0..ids'
          /\ pending' \subseteq 1..ids'
      BY <2>1 DEF Accept, TypeOK
    <3>3. active' \in BOOLEAN /\ startup' \in BOOLEAN /\ succeeded' \in BOOLEAN
      BY <2>1, Zenon DEF Accept
    <3>4. /\ current' \in Nat \ {0} /\ phase' \in {0, 1, 3}
          /\ elapsed' = elapsed /\ ready' = ready
      BY <2>1 DEF Accept
    <3>5. UNCHANGED <<putting, hostVars, pduVars, historyVars>>
      BY <1>3 DEF Start
    <3> QED
      BY <3>1, <3>2, <3>3, <3>4, <3>5 DEF TypeOK, hostVars, pduVars, historyVars
  <2>2. CASE RefuseEmpty(up)
    <3>1. steps' \in Seq(Step)
      BY <2>2, EmptySeq DEF RefuseEmpty
    <3> QED
      BY <1>3, <2>2, <3>1
      DEF Start, RefuseEmpty, TypeOK, timerVars, activityVars, hostVars, pduVars, historyVars
  <2> QED BY <1>3, <2>1, <2>2 DEF Start
<1>4. CASE Second
  <2>1. elapsed' \in Nat /\ ready' \in Nat \cup {NotReady}
    BY <1>4, ConfigAssumption DEF Second, Least, TypeOK
  <2> QED
    BY <1>4, <2>1 DEF Second, TypeOK, engineVars, statusVars, activityVars, historyVars,
                      hostVars, pduVars
<1>5. CASE Environment
  <2> USE DEF TypeOK, timerVars, engineVars, statusVars, activityVars, historyVars,
              hostVars, pduVars
  <2>1. ASSUME NEW h \in Host, HostSeen(h)
        PROVE  TypeOK'
    <3>1. outletOf' \in [Host -> Nat]
      BY <2>1, ConfigAssumption DEF HostSeen
    <3> QED BY <2>1, <3>1 DEF HostSeen
  <2>2. ASSUME NEW h \in Host, HostLost(h)
        PROVE  TypeOK'
    BY <2>2 DEF HostLost
  <2>3. ASSUME NEW h \in Host, RemoveHost(h)
        PROVE  TypeOK'
    BY <2>3 DEF RemoveHost
  <2>4. ASSUME NEW h \in Host, NEW o \in OutletChoice[h], AssignOutlet(h, o)
        PROVE  TypeOK'
    <3>1. outletOf' \in [Host -> Nat]
      BY <2>4, ConfigAssumption DEF AssignOutlet
    <3> QED BY <2>4, <3>1 DEF AssignOutlet
  <2>5. CASE PduUpdate
    BY <2>5, ConfigAssumption DEF PduUpdate
  <2>6. CASE PduPollFailed
    BY <2>6 DEF PduPollFailed
  <2> QED BY <1>5, <2>1, <2>2, <2>3, <2>4, <2>5, <2>6 DEF Environment
<1>6. CASE UNCHANGED vars
  BY <1>6 DEF vars, TypeOK, statusVars, timerVars, activityVars, hostVars, pduVars, historyVars
<1> QED
  BY <1>1, <1>2, <1>3, <1>4, <1>5, <1>6 DEF Next

(* Every variable of the engine and of the stores it reads keeps its type, *)
(* for any rack: in particular no step is ever lost or added, and an       *)
(* activity id is drawn before it is used.                                 *)
THEOREM TypeCorrect == Spec => []TypeOK
BY InitTypes, StepTypes, PTL DEF Spec

-----------------------------------------------------------------------------
(* The status.                                                             *)

(* Time, hosts, PDU and stuttering do not touch the engine's status,       *)
(* activities or history.                                                  *)
LEMMA OthersLeave ==
  ASSUME Second \/ Environment \/ UNCHANGED vars
  PROVE  UNCHANGED engineVars
<1>1. CASE Second
  BY <1>1 DEF Second
<1>2. CASE Environment
  BY <1>2 DEF Environment, HostSeen, HostLost, RemoveHost, AssignOutlet, PduUpdate, PduPollFailed
<1>3. CASE UNCHANGED vars
  BY <1>3 DEF vars, engineVars
<1> QED
  BY <1>1, <1>2, <1>3

(* What a tick that leaves the step Running does to the status.            *)
LEMMA GoesStatus ==
  ASSUME TypeOK, Ticking, Goes
  PROVE  /\ steps' = [steps EXCEPT ![current].state = "Running"]
         /\ UNCHANGED <<active, startup, succeeded, current, seqId>>
         /\ ids' = idsNow /\ stepId' = stepIdNow /\ pending' = pendingNow
  BY DEF Goes, Continue

(* Each of the ways a tick goes keeps the status coherent: it moves the    *)
(* current step on, or ends the sequence with it.                          *)
LEMMA StatusTick ==
  ASSUME TypeOK, StatusConsistent, Tick
  PROVE  StatusConsistent'
<1>1. Ticking /\ (SucceedCurrent \/ FailCurrent \/ Goes)
  BY TickShape
<1>2. /\ active /\ ~putting /\ current \in DOMAIN steps
      /\ current \in Nat /\ Len(steps) \in Nat /\ DOMAIN steps = 1..Len(steps)
      /\ ~succeeded
  BY <1>1, LenProperties DEF Ticking, TypeOK, StatusConsistent
<1>3. ASSUME NEW v \in StepState, steps' = [steps EXCEPT ![current].state = v]
      PROVE  /\ Len(steps') = Len(steps) /\ DOMAIN steps' = DOMAIN steps /\ steps' # <<>>
             /\ \A k \in DOMAIN steps :
                  steps'[k].state = IF k = current THEN v ELSE steps[k].state
  <2>1. /\ Len(steps') = Len(steps) /\ DOMAIN steps' = DOMAIN steps
        /\ \A k \in DOMAIN steps :
             steps'[k].state = IF k = current THEN v ELSE steps[k].state
    BY <1>2, <1>3, SetState DEF TypeOK
  <2>2. steps' # <<>>
    BY <1>2, <2>1
  <2> QED BY <2>1, <2>2
<1>4. CASE SucceedCurrent
  <2>1. /\ steps' = [steps EXCEPT ![current].state = "Succeeded"]
        /\ current' = current + 1 /\ putting' = putting
        /\ active' <=> current # Len(steps)
        /\ succeeded' <=> current = Len(steps)
    BY <1>2, <1>4 DEF SucceedCurrent
  <2>2. /\ Len(steps') = Len(steps) /\ DOMAIN steps' = DOMAIN steps
        /\ \A k \in DOMAIN steps :
             steps'[k].state = IF k = current THEN "Succeeded" ELSE steps[k].state
    BY <1>3, <2>1
  <2>3. \A k \in DOMAIN steps' : /\ k < current' => steps'[k].state = "Succeeded"
                                 /\ k > current' => steps'[k].state = "Pending"
    BY <1>2, <2>1, <2>2 DEF StatusConsistent
  <2>4. active' => /\ current' <= Len(steps') /\ ~succeeded'
                   /\ steps'[current'].state = "Pending"
    BY <1>2, <2>1, <2>2 DEF StatusConsistent
  <2>5. ~active' => succeeded' /\ current' = Len(steps') + 1
    BY <2>1, <2>2
  <2>6. ~putting'
    BY <1>2, <2>1
  <2> QED
    BY <2>3, <2>4, <2>5, <2>6 DEF StatusConsistent, Now
<1>5. CASE FailCurrent
  <2>1. /\ steps' = [steps EXCEPT ![current].state = "Failed"]
        /\ current' = current /\ putting' = putting
        /\ ~active' /\ ~succeeded'
    BY <1>2, <1>5 DEF FailCurrent
  <2>2. /\ Len(steps') = Len(steps) /\ DOMAIN steps' = DOMAIN steps
        /\ \A k \in DOMAIN steps :
             steps'[k].state = IF k = current THEN "Failed" ELSE steps[k].state
    BY <1>3, <2>1
  <2>3. \A k \in DOMAIN steps' : /\ k < current' => steps'[k].state = "Succeeded"
                                 /\ k > current' => steps'[k].state = "Pending"
    BY <1>2, <2>1, <2>2 DEF StatusConsistent
  <2>4. current' <= Len(steps') /\ steps'[current'].state = "Failed"
    BY <1>2, <2>1, <2>2
  <2> QED
    BY <1>2, <2>1, <2>3, <2>4 DEF StatusConsistent, Now
<1>6. CASE Goes
  <2>1. /\ steps' = [steps EXCEPT ![current].state = "Running"]
        /\ current' = current /\ active' = active /\ succeeded' = succeeded
    BY <1>1, <1>6, GoesStatus
  <2>2. /\ Len(steps') = Len(steps) /\ DOMAIN steps' = DOMAIN steps
        /\ \A k \in DOMAIN steps :
             steps'[k].state = IF k = current THEN "Running" ELSE steps[k].state
    BY <1>3, <2>1
  <2>3. \A k \in DOMAIN steps' : /\ k < current' => steps'[k].state = "Succeeded"
                                 /\ k > current' => steps'[k].state = "Pending"
    BY <1>2, <2>1, <2>2 DEF StatusConsistent
  <2>4. current' <= Len(steps') /\ steps'[current'].state = "Running"
    BY <1>2, <2>1, <2>2
  <2> QED
    BY <1>2, <2>1, <2>3, <2>4 DEF StatusConsistent, Now
<1> QED
  BY <1>1, <1>4, <1>5, <1>6

(* So does every other step of the system.                                 *)
LEMMA StatusStep == TypeOK /\ StatusConsistent /\ [Next]_vars => StatusConsistent'
<1> SUFFICES ASSUME TypeOK, StatusConsistent, [Next]_vars PROVE StatusConsistent'
  OBVIOUS
<1>1. CASE Tick
  BY <1>1, StatusTick
<1>2. CASE FinishPut
  BY <1>2 DEF FinishPut, StatusConsistent, Now, statusVars
<1>3. ASSUME NEW t \in Target, NEW up \in BOOLEAN, Start(t, up)
      PROVE  StatusConsistent'
  <2>1. ~putting'
    BY <1>3 DEF Start
  <2>2. CASE Plan(t, up) = <<>>
    BY <1>3, <2>1, <2>2 DEF Start, RefuseEmpty, StatusConsistent
  <2>3. CASE Plan(t, up) # <<>>
    <3>1. Accept(t, up)
      BY <1>3, <2>3 DEF Start
    <3>2. /\ steps' \in Seq(Step) /\ Len(steps') = Len(Plan(t, up))
          /\ \A k \in DOMAIN steps' : steps'[k].state = "Pending"
      BY <3>1, AcceptedSteps DEF Accept
    <3>3. Plan(t, up) \in Seq(PlanStep)
      BY PlanAssumption DEF Plan
    <3>4. Len(steps') \in Nat \ {0} /\ DOMAIN steps' = 1..Len(steps')
      BY <2>3, <3>2, <3>3, EmptySeq, LenProperties
    <3>5. active' /\ ~succeeded' /\ current' = 1
      BY <3>1 DEF Accept
    <3> QED
      BY <2>1, <3>2, <3>4, <3>5 DEF StatusConsistent, Now
  <2> QED BY <2>2, <2>3
<1>4. CASE Second \/ Environment \/ UNCHANGED vars
  BY <1>4, OthersLeave DEF engineVars, statusVars, StatusConsistent, Now
<1> QED
  BY <1>1, <1>2, <1>3, <1>4 DEF Next

-----------------------------------------------------------------------------
(* The activities.                                                         *)

\* A running step has an activity of its own, apart from the sequence's.
IdsApart == (active /\ Now.state = "Running") => seqId # stepId

(* A tick opens only the activity of the step it starts, and closes what it*)
(* ends.                                                                   *)
LEMMA ActivityTick ==
  ASSUME TypeOK, StatusConsistent, StatusConsistent', ActivitiesSettle, IdsApart, Tick
  PROVE  ActivitiesSettle' /\ IdsApart'
<1>1. Ticking /\ (SucceedCurrent \/ FailCurrent \/ Goes)
  BY TickShape
<1>2. /\ active /\ current \in DOMAIN steps /\ current \in Nat /\ Len(steps) \in Nat
      /\ DOMAIN steps = 1..Len(steps)
  BY <1>1, LenProperties DEF Ticking, TypeOK
<1>3. pendingNow = {seqId, stepIdNow} /\ seqId # stepIdNow
  <2>1. CASE Starting
    <3>1. pending = {seqId}
      BY <1>2, <2>1 DEF Starting, ActivitiesSettle
    <3>2. seqId \in 0..ids /\ ids \in Nat
      BY DEF TypeOK
    <3> QED BY <2>1, <3>1, <3>2 DEF pendingNow, stepIdNow
  <2>2. CASE ~Starting
    <3>1. Now.state = "Running"
      BY <1>2, <2>2 DEF Starting, StatusConsistent
    <3>2. pending = {seqId, stepId} /\ seqId # stepId
      BY <1>2, <3>1 DEF ActivitiesSettle, IdsApart
    <3> QED BY <2>2, <3>2 DEF pendingNow, stepIdNow
  <2> QED BY <2>1, <2>2
<1>4. CASE SucceedCurrent
  <2>1. CASE current = Len(steps)
    <3>1. pending' = pendingNow \ {stepIdNow, seqId} /\ ~active'
      BY <1>4, <2>1 DEF SucceedCurrent
    <3> QED BY <1>3, <3>1 DEF ActivitiesSettle, IdsApart
  <2>2. CASE current # Len(steps)
    <3>1. /\ pending' = pendingNow \ {stepIdNow} /\ active' /\ seqId' = seqId
          /\ current' = current + 1 /\ steps' = [steps EXCEPT ![current].state = "Succeeded"]
      BY <1>4, <2>2 DEF SucceedCurrent
    <3>2. /\ current + 1 \in DOMAIN steps
          /\ steps'[current + 1].state = steps[current + 1].state
      BY <1>2, <2>2, <3>1, SetState DEF TypeOK
    <3>3. steps'[current'].state = "Pending"
      BY <1>2, <3>1, <3>2 DEF StatusConsistent
    <3> QED BY <1>3, <3>1, <3>3 DEF ActivitiesSettle, IdsApart, Now
  <2> QED BY <2>1, <2>2
<1>5. CASE FailCurrent
  <2>1. pending' = pendingNow \ {stepIdNow, seqId} /\ ~active'
    BY <1>5 DEF FailCurrent
  <2> QED BY <1>3, <2>1 DEF ActivitiesSettle, IdsApart
<1>6. CASE Goes
  <2>1. /\ steps' = [steps EXCEPT ![current].state = "Running"]
        /\ current' = current /\ active' = active /\ seqId' = seqId
        /\ stepId' = stepIdNow /\ pending' = pendingNow
    BY <1>1, <1>6, GoesStatus
  <2>2. steps'[current'].state = "Running"
    BY <1>2, <2>1, SetState DEF TypeOK
  <2> QED BY <1>2, <1>3, <2>1, <2>2 DEF ActivitiesSettle, IdsApart, Now
<1> QED
  BY <1>1, <1>4, <1>5, <1>6

(* So every step of the system leaves open only what is in progress.       *)
LEMMA ActivityStep ==
  TypeOK /\ StatusConsistent /\ StatusConsistent' /\ ActivitiesSettle /\ IdsApart /\ [Next]_vars
    => ActivitiesSettle' /\ IdsApart'
<1> SUFFICES ASSUME TypeOK, StatusConsistent, StatusConsistent', ActivitiesSettle, IdsApart,
                    [Next]_vars
             PROVE  ActivitiesSettle' /\ IdsApart'
  OBVIOUS
<1>1. CASE Tick
  BY <1>1, ActivityTick
<1>2. CASE FinishPut
  BY <1>2 DEF FinishPut, ActivitiesSettle, IdsApart, Now, statusVars, activityVars
<1>3. ASSUME NEW t \in Target, NEW up \in BOOLEAN, Start(t, up)
      PROVE  ActivitiesSettle' /\ IdsApart'
  <2>1. pending = {}
    BY <1>3 DEF Start, ActivitiesSettle
  <2>2. CASE Plan(t, up) = <<>>
    BY <1>3, <2>1, <2>2 DEF Start, RefuseEmpty, ActivitiesSettle, IdsApart, activityVars
  <2>3. CASE Plan(t, up) # <<>>
    <3>1. Accept(t, up)
      BY <1>3, <2>3 DEF Start
    <3>2. /\ \A k \in DOMAIN steps' : steps'[k].state = "Pending"
          /\ Len(steps') = Len(Plan(t, up)) /\ steps' \in Seq(Step)
      BY <3>1, AcceptedSteps DEF Accept
    <3>3. 1 \in DOMAIN steps'
      <4>1. Plan(t, up) \in Seq(PlanStep)
        BY PlanAssumption DEF Plan
      <4> QED BY <2>3, <3>2, <4>1, EmptySeq, LenProperties
    <3>4. active' /\ current' = 1 /\ pending' = pending \cup {seqId'}
      BY <3>1 DEF Accept
    <3> QED
      BY <2>1, <3>2, <3>3, <3>4 DEF ActivitiesSettle, IdsApart, Now
  <2> QED BY <2>2, <2>3
<1>4. CASE Second \/ Environment \/ UNCHANGED vars
  BY <1>4, OthersLeave DEF engineVars, statusVars, activityVars, ActivitiesSettle, IdsApart, Now
<1> QED
  BY <1>1, <1>2, <1>3, <1>4 DEF Next

-----------------------------------------------------------------------------
(* The plan behind the steps.                                              *)

\* The steps are those of some target's plan, in its order.
StepsPlanned ==
  steps = <<>> \/ \E t \in Target :
    /\ DOMAIN steps = DOMAIN Plan(t, startup)
    /\ \A k \in DOMAIN steps : steps[k].group = Plan(t, startup)[k].group

(* Only begin replaces the list of steps, by a plan; every other step keeps*)
(* the groups of the list.                                                 *)
LEMMA PlannedStep == TypeOK /\ StepsPlanned /\ [Next]_vars => StepsPlanned'
<1> SUFFICES ASSUME TypeOK, StepsPlanned, [Next]_vars PROVE StepsPlanned'
  OBVIOUS
<1>1. CASE Tick
  <2>1. Ticking /\ (SucceedCurrent \/ FailCurrent \/ Goes)
    BY <1>1, TickShape
  <2>2. current \in DOMAIN steps
    BY <2>1, LenProperties DEF Ticking, TypeOK
  <2>3. /\ startup' = startup
        /\ \E v \in StepState : steps' = [steps EXCEPT ![current].state = v]
    BY <2>1, GoesStatus DEF SucceedCurrent, FailCurrent
  <2>4. /\ DOMAIN steps' = DOMAIN steps
        /\ \A k \in DOMAIN steps : steps'[k].group = steps[k].group
    BY <2>2, <2>3, SetState DEF TypeOK
  <2>5. PICK t \in Target : /\ DOMAIN steps = DOMAIN Plan(t, startup)
                            /\ \A k \in DOMAIN steps : steps[k].group = Plan(t, startup)[k].group
    BY <2>2 DEF StepsPlanned
  <2>6. Plan(t, startup)' = Plan(t, startup)
    BY <2>3 DEF Plan
  <2> QED BY <2>4, <2>5, <2>6 DEF StepsPlanned
<1>2. CASE FinishPut
  BY <1>2 DEF FinishPut, StepsPlanned, Plan, statusVars
<1>3. ASSUME NEW t \in Target, NEW up \in BOOLEAN, Start(t, up)
      PROVE  StepsPlanned'
  <2>1. CASE Plan(t, up) = <<>>
    BY <1>3, <2>1 DEF Start, RefuseEmpty, StepsPlanned
  <2>2. CASE Plan(t, up) # <<>>
    <3>1. Accept(t, up)
      BY <1>3, <2>2 DEF Start
    <3>2. /\ startup' = up /\ DOMAIN steps' = DOMAIN Plan(t, up)
          /\ \A k \in DOMAIN steps' : steps'[k].group = Plan(t, up)[k].group
      BY <3>1, AcceptedSteps DEF Accept
    <3> QED BY <3>2 DEF StepsPlanned, Plan
  <2> QED BY <2>1, <2>2
<1>4. CASE Second \/ Environment \/ UNCHANGED vars
  BY <1>4, OthersLeave DEF engineVars, statusVars, StepsPlanned, Plan
<1> QED
  BY <1>1, <1>2, <1>3, <1>4 DEF Next

(* Steps of a plan that succeed in order respect the dependencies the plan *)
(* respects.                                                               *)
LEMMA DependenciesFollow ==
  ASSUME TypeOK, StatusConsistent, StepsPlanned
  PROVE  DependenciesFirst
<1> SUFFICES ASSUME NEW i \in DOMAIN steps, NEW j \in DOMAIN steps,
                    steps[i].state # "Pending",
                    IF startup THEN steps[j].group \in DependsOn[steps[i].group]
                               ELSE steps[i].group \in DependsOn[steps[j].group]
             PROVE  steps[j].state = "Succeeded"
  BY DEF DependenciesFirst
<1>1. PICK t \in Target : /\ DOMAIN steps = DOMAIN Plan(t, startup)
                          /\ \A k \in DOMAIN steps : steps[k].group = Plan(t, startup)[k].group
  BY DEF StepsPlanned
<1>2. Ordered(t)
  BY PlanAssumption
<1>3. j < i
  BY <1>1, <1>2 DEF Ordered, Plan
<1>4. i \in Nat /\ j \in Nat /\ current \in Nat
  BY LenProperties DEF TypeOK
<1>5. i <= current
  BY <1>4 DEF StatusConsistent
<1> QED
  BY <1>3, <1>4, <1>5 DEF StatusConsistent

-----------------------------------------------------------------------------
(* The clocks and the commands of a step.                                  *)

\* Between sequences the phase and the clocks are at rest.
AtRest == ~active => /\ phase = 0 /\ elapsed = 0 /\ ready = NotReady /\ offlineAt = 0

\* What has been sent in each phase: nothing in phase 0, unless the PUT of
\* this very tick is on its way; no "off" before a shutdown's third phase.
CommandPhases ==
  /\ (phase = 0 /\ ~putting) => issued = NoCommand
  /\ (~startup /\ phase \in {0, 1} /\ ~putting) => issued["off"] = 0
  /\ (startup /\ putting) => issued["wol"] = 0
  /\ CommandsOnce

\* ready_since_ of a startup lies after the last tick that saw the host
\* offline.
ReadySinceSeen ==
  /\ offlineAt <= elapsed
  /\ (startup /\ ready # NotReady) => ready <= elapsed - offlineAt

ClockInv == AtRest /\ CommandPhases /\ ReadySinceSeen

(* The same at the head of a tick, where start_current may have reset them.*)
LEMMA HeadOfTick ==
  ASSUME TypeOK, ClockInv, Ticking
  PROVE  /\ issuedNow \in [Command -> 0..1] /\ phaseNow \in {0, 1, 3}
         /\ phaseNow = 0 => issuedNow = NoCommand
         /\ (~startup /\ phaseNow = 1) => issuedNow["off"] = 0
         /\ offlineAtNow <= elapsedNow
         /\ (startup /\ readyNow # NotReady) => readyNow <= elapsedNow - offlineAtNow
         /\ elapsedNow \in Nat /\ offlineAtNow \in Nat /\ readyNow \in Nat \cup {NotReady}
<1>1. issued \in [Command -> 0..1]
  BY DEF TypeOK, ClockInv, CommandPhases, CommandsOnce
<1>2. CASE Starting
  BY <1>2 DEF issuedNow, phaseNow, offlineAtNow, elapsedNow, readyNow
<1>3. CASE ~Starting
  BY <1>1, <1>3 DEF issuedNow, phaseNow, offlineAtNow, elapsedNow, readyNow, Ticking,
                    TypeOK, ClockInv, CommandPhases, ReadySinceSeen
<1> QED
  BY <1>2, <1>3

(* A step that ends leaves everything at rest.                             *)
LEMMA ClocksReset ==
  ASSUME TypeOK, Ticking, SucceedCurrent \/ FailCurrent
  PROVE  ClockInv'
<1>1. phase' = 0 /\ elapsed' = 0 /\ ready' = NotReady /\ issued' = NoCommand /\ offlineAt' = 0
  BY DEF SucceedCurrent, FailCurrent, ClocksAtRest
<1>2. ~putting'
  BY DEF Ticking, SucceedCurrent, FailCurrent
<1> QED
  BY <1>1, <1>2 DEF ClockInv, AtRest, CommandPhases, CommandsOnce, ReadySinceSeen

(* A step that goes on keeps the clocks in order, if a startup only keeps  *)
(* ready_since_ while its host is online.                                  *)
LEMMA ClocksContinue ==
  ASSUME TypeOK, ClockInv, Ticking, NEW ph, NEW r \in Nat \cup {NotReady}, NEW sent,
         Continue(ph, r, sent),
         startup => r = NotReady \/ (Now.host \in online /\ r \in {0, readyNow})
  PROVE  AtRest' /\ ReadySinceSeen'
<1>1. /\ active' = active /\ active /\ startup' = startup
      /\ ready' = r /\ elapsed' = elapsedNow
      /\ offlineAt' = IF Now.host \in online THEN offlineAtNow ELSE elapsedNow
  BY DEF Continue, Ticking
<1>2. AtRest'
  BY <1>1 DEF AtRest
<1>3. ReadySinceSeen'
  BY <1>1, HeadOfTick DEF ReadySinceSeen
<1> QED
  BY <1>2, <1>3

(* What the commands sent in a tick add up to.                             *)
LEMMA CommandsContinue ==
  ASSUME TypeOK, ClockInv, Ticking, NEW ph, NEW r, NEW sent, Continue(ph, r, sent)
  PROVE  /\ issued' = [c \in Command |-> issuedNow[c] + IF c \in sent THEN 1 ELSE 0]
         /\ phase' = ph /\ startup' = startup
         /\ sent = {} => issued' = issuedNow
<1>1. issued' = [c \in Command |-> issuedNow[c] + IF c \in sent THEN 1 ELSE 0]
  BY DEF Continue
<1>2. sent = {} => issued' = issuedNow
  BY <1>1, HeadOfTick
<1>3. phase' = ph /\ startup' = startup
  BY DEF Continue
<1> QED
  BY <1>1, <1>2, <1>3

(* A tick keeps the clocks and the count of commands of the running step in*)
(* order.                                                                  *)
LEMMA ClockTick ==
  ASSUME TypeOK, ClockInv, Tick
  PROVE  ClockInv'
<1>0. Ticking /\ ~putting
  BY TickShape DEF Ticking
<1>1. CASE SucceedCurrent \/ FailCurrent
  BY <1>0, <1>1, ClocksReset
\* Nothing is sent and the phase stays: only the clocks are at stake.
<1>2. ASSUME NEW r \in Nat \cup {NotReady}, Return(phaseNow, r, {}),
             startup => r = NotReady \/ (Now.host \in online /\ r \in {0, readyNow})
      PROVE  ClockInv'
  <2>1. Continue(phaseNow, r, {}) /\ putting' = putting
    BY <1>2 DEF Return
  <2>2. AtRest' /\ ReadySinceSeen'
    BY <1>0, <1>2, <2>1, ClocksContinue
  <2>3. issued' = issuedNow /\ phase' = phaseNow /\ startup' = startup
    BY <1>0, <2>1, CommandsContinue
  <2>4. CommandPhases'
    BY <1>0, <2>1, <2>3, HeadOfTick DEF CommandPhases, CommandsOnce
  <2> QED BY <2>2, <2>4 DEF ClockInv
<1>3. CASE TickGiveUp
  BY <1>1, <1>3 DEF TickGiveUp
<1>4. CASE TickOnline
  <2> DEFINE since == IF readyNow = NotReady THEN 0 ELSE readyNow
  <2>1. /\ Now.host \in online
        /\ SucceedCurrent \/ Return(phaseNow, since, {})
    BY <1>4 DEF TickOnline
  <2>2. since \in Nat \cup {NotReady} /\ since \in {0, readyNow}
    BY <1>0, HeadOfTick
  <2> HIDE DEF since
  <2> QED BY <1>1, <1>2, <2>1, <2>2
<1>5. CASE TickPowerOn
  <2>1. phaseNow = 0 /\ startup /\ Now.host \notin online
    BY <1>5 DEF TickPowerOn
  <2>2. CASE BlockInPut(NotReady, "on")
    <3>1. Continue(phaseNow, NotReady, {"on"}) /\ putting' = TRUE
      BY <2>2 DEF BlockInPut
    <3>2. AtRest' /\ ReadySinceSeen'
      BY <1>0, <3>1, ClocksContinue
    <3>3. /\ issued' = [c \in Command |-> issuedNow[c] + IF c \in {"on"} THEN 1 ELSE 0]
          /\ phase' = 0 /\ startup' = startup
      BY <1>0, <2>1, <3>1, CommandsContinue
    <3>4. CommandPhases'
      BY <1>0, <2>1, <3>1, <3>3, HeadOfTick DEF CommandPhases, CommandsOnce
    <3> QED BY <3>2, <3>4 DEF ClockInv
  <2>3. CASE Return(1, NotReady, Mac(Now.host))
    <3>1. Continue(1, NotReady, Mac(Now.host)) /\ putting' = putting
      BY <2>3 DEF Return
    <3>2. AtRest' /\ ReadySinceSeen'
      BY <1>0, <3>1, ClocksContinue
    <3>3. /\ issued' = [c \in Command |-> issuedNow[c] + IF c \in Mac(Now.host) THEN 1 ELSE 0]
          /\ phase' = 1 /\ startup' = startup
      BY <1>0, <3>1, CommandsContinue
    <3>4. CommandPhases'
      BY <1>0, <2>1, <3>1, <3>3, HeadOfTick DEF CommandPhases, CommandsOnce
    <3> QED BY <3>2, <3>4 DEF ClockInv
  <2> QED BY <1>1, <1>5, <2>2, <2>3 DEF TickPowerOn, ReadyOffline
<1>6. CASE TickAwaitBoot
  <2>1. Return(phaseNow, NotReady, {})
    BY <1>6 DEF TickAwaitBoot, ReadyOffline
  <2> QED BY <1>2, <2>1
<1>7. CASE TickAskShutdown
  <2>1. ~startup /\ phaseNow = 0 /\ Return(1, readyNow, {"shutdown"})
    BY <1>7 DEF TickAskShutdown
  <2>2. Continue(1, readyNow, {"shutdown"}) /\ putting' = putting
    BY <2>1 DEF Return
  <2>3. AtRest' /\ ReadySinceSeen'
    BY <1>0, <2>1, <2>2, HeadOfTick, ClocksContinue
  <2>4. /\ issued' = [c \in Command |-> issuedNow[c] + IF c \in {"shutdown"} THEN 1 ELSE 0]
        /\ phase' = 1 /\ startup' = startup
    BY <1>0, <2>2, CommandsContinue
  <2>5. CommandPhases'
    BY <1>0, <2>1, <2>2, <2>4, HeadOfTick DEF CommandPhases, CommandsOnce
  <2> QED BY <2>3, <2>5 DEF ClockInv
<1>8. CASE TickAwaitOffline
  <2>1. ~startup /\ phaseNow = 1 /\ Return(phaseNow, readyNow, {})
    BY <1>8 DEF TickAwaitOffline
  <2> QED BY <1>0, <1>2, <2>1, HeadOfTick
<1>9. CASE TickCut
  <2>1. ~startup /\ phaseNow \in {0, 1}
    BY <1>9 DEF TickCut
  <2>2. CASE BlockInPut(readyNow, "off")
    <3>1. Continue(phaseNow, readyNow, {"off"}) /\ putting' = TRUE
      BY <2>2 DEF BlockInPut
    <3>2. AtRest' /\ ReadySinceSeen'
      BY <1>0, <2>1, <3>1, HeadOfTick, ClocksContinue
    <3>3. /\ issued' = [c \in Command |-> issuedNow[c] + IF c \in {"off"} THEN 1 ELSE 0]
          /\ startup' = startup
      BY <1>0, <3>1, CommandsContinue
    <3>4. CommandPhases'
      BY <1>0, <2>1, <3>1, <3>3, HeadOfTick DEF CommandPhases, CommandsOnce
    <3> QED BY <3>2, <3>4 DEF ClockInv
  <2> QED BY <1>1, <1>9, <2>2 DEF TickCut
<1>10. CASE TickAwaitCut
  <2>1. ~startup /\ phaseNow = 3
    BY <1>10 DEF TickAwaitCut
  <2>2. SucceedCurrent \/ FailCurrent \/ Return(phaseNow, readyNow, {})
    BY <1>10 DEF TickAwaitCut
  <2> QED BY <1>0, <1>1, <1>2, <2>1, <2>2, HeadOfTick
<1> QED
  BY <1>3, <1>4, <1>5, <1>6, <1>7, <1>8, <1>9, <1>10 DEF Tick

(* So does every other step: the time that passes, the rest of a tick after*)
(* its PUT, a new request.                                                 *)
LEMMA ClockStep ==
  TypeOK /\ StatusConsistent /\ ClockInv /\ [Next]_vars => ClockInv'
<1> SUFFICES ASSUME TypeOK, StatusConsistent, ClockInv, [Next]_vars PROVE ClockInv'
  OBVIOUS
<1>1. CASE Tick
  BY <1>1, ClockTick
<1>2. CASE FinishPut
  <2>1. /\ putting /\ ~putting' /\ phase' = IF startup THEN 1 ELSE 3
        /\ issued' = [c \in Command |->
                        issued[c] + IF startup /\ c \in Mac(Now.host) THEN 1 ELSE 0]
        /\ UNCHANGED <<active, startup, elapsed, ready, offlineAt>>
    BY <1>2 DEF FinishPut, statusVars
  <2>2. issued \in [Command -> 0..1] /\ (startup => issued["wol"] = 0)
    BY <2>1 DEF TypeOK, ClockInv, CommandPhases, CommandsOnce
  <2>3. CommandsOnce'
    BY <2>1, <2>2 DEF CommandsOnce, Mac
  <2>4. CommandPhases'
    BY <2>1, <2>3 DEF CommandPhases
  <2>5. AtRest'
    BY <2>1 DEF AtRest, StatusConsistent
  <2>6. ReadySinceSeen'
    BY <2>1 DEF ReadySinceSeen, ClockInv
  <2> QED BY <2>4, <2>5, <2>6 DEF ClockInv
<1>3. ASSUME NEW t \in Target, NEW up \in BOOLEAN, Start(t, up)
      PROVE  ClockInv'
  <2>1. phase = 0 /\ elapsed = 0 /\ ready = NotReady /\ offlineAt = 0 /\ issued = NoCommand
    BY <1>3 DEF Start, ClockInv, AtRest, CommandPhases
  <2>2. /\ phase' = 0 /\ elapsed' = elapsed /\ ready' = ready /\ offlineAt' = offlineAt
        /\ issued' = issued /\ ~putting'
    BY <1>3, <2>1 DEF Start, Accept, RefuseEmpty, timerVars, historyVars
  <2> QED BY <2>1, <2>2 DEF ClockInv, AtRest, CommandPhases, CommandsOnce, ReadySinceSeen
<1>4. CASE Second
  <2>1. /\ active /\ elapsed' = elapsed + 1 /\ phase' = phase
        /\ ready' = IF ready = NotReady THEN ready ELSE Least(ready + 1, Readiness)
    BY <1>4 DEF Second
  <2>2. UNCHANGED <<active, startup, putting, issued, offlineAt>>
    BY <1>4 DEF Second, engineVars, statusVars, historyVars
  <2>3. ReadySinceSeen'
    BY <2>1, <2>2, ConfigAssumption DEF ReadySinceSeen, ClockInv, TypeOK, Least
  <2>4. AtRest'
    BY <2>1, <2>2 DEF AtRest
  <2>5. CommandPhases'
    BY <2>1, <2>2 DEF CommandPhases, CommandsOnce, ClockInv
  <2> QED BY <2>3, <2>4, <2>5 DEF ClockInv
<1>5. CASE Environment \/ UNCHANGED vars
  <2>1. UNCHANGED <<engineVars, timerVars>>
    BY <1>5, OthersLeave DEF Environment, HostSeen, HostLost, RemoveHost, AssignOutlet,
                             PduUpdate, PduPollFailed, vars
  <2> QED BY <2>1 DEF engineVars, statusVars, timerVars, historyVars,
                      ClockInv, AtRest, CommandPhases, CommandsOnce, ReadySinceSeen
<1> QED
  BY <1>1, <1>2, <1>3, <1>4, <1>5 DEF Next

-----------------------------------------------------------------------------
(* The inductive invariant and what follows from it.                       *)

IInv ==
  /\ TypeOK
  /\ StatusConsistent
  /\ ActivitiesSettle /\ IdsApart
  /\ StepsPlanned
  /\ ClockInv

(* The inductive invariant holds at first.                                 *)
LEMMA IInvInit == Init => IInv
<1> SUFFICES ASSUME Init PROVE IInv
  OBVIOUS
<1>1. TypeOK
  BY InitTypes
<1>2. ~active /\ steps = <<>> /\ ~putting /\ pending = {}
  BY DEF Init
<1>3. StatusConsistent
  BY <1>2 DEF StatusConsistent
<1>4. ActivitiesSettle /\ IdsApart /\ StepsPlanned
  BY <1>2 DEF ActivitiesSettle, IdsApart, StepsPlanned
<1>5. ClockInv
  BY DEF Init, ClockInv, AtRest, CommandPhases, CommandsOnce, ReadySinceSeen
<1> QED
  BY <1>1, <1>3, <1>4, <1>5 DEF IInv

(* Every step of the system keeps it.                                      *)
LEMMA IInvStep == IInv /\ [Next]_vars => IInv'
<1> SUFFICES ASSUME IInv, [Next]_vars PROVE IInv'
  OBVIOUS
<1>1. TypeOK' /\ StatusConsistent'
  BY StepTypes, StatusStep DEF IInv
<1>2. ActivitiesSettle' /\ IdsApart'
  BY <1>1, ActivityStep DEF IInv
<1>3. StepsPlanned' /\ ClockInv'
  BY PlannedStep, ClockStep DEF IInv
<1> QED
  BY <1>1, <1>2, <1>3 DEF IInv

(* Hence it holds throughout every behaviour.                              *)
LEMMA Inductive == Spec => []IInv
BY IInvInit, IInvStep, PTL DEF Spec

(* The status always tells one story: steps before the current one         *)
(* succeeded, later ones are untouched, and the end of the sequence says   *)
(* why it ended.                                                           *)
THEOREM StatusAlwaysConsistent == Spec => []StatusConsistent
<1>1. IInv => StatusConsistent
  BY DEF IInv
<1> QED
  BY Inductive, <1>1, PTL

(* Nothing the engine opened stays Pending on the activity screen.         *)
THEOREM ActivitiesAlwaysSettle == Spec => []ActivitiesSettle
<1>1. IInv => ActivitiesSettle
  BY DEF IInv
<1> QED
  BY Inductive, <1>1, PTL

(* For every plan that respects the dependencies: no host is touched before*)
(* all the hosts it has to wait for are done.                              *)
THEOREM DependenciesAlwaysFirst == Spec => []DependenciesFirst
<1>1. IInv => DependenciesFirst
  BY DependenciesFollow DEF IInv
<1> QED
  BY Inductive, <1>1, PTL

(* No step sends a command twice, however hosts flap, outlets move and PUTs*)
(* block.                                                                  *)
THEOREM CommandsSentOnce == Spec => []CommandsOnce
<1>1. IInv => CommandsOnce
  BY DEF IInv, ClockInv, CommandPhases
<1> QED
  BY Inductive, <1>1, PTL

(* A tick that leaves the step Running or fails it does not succeed it.    *)
LEMMA NotSucceeded ==
  ASSUME TypeOK, Ticking,
         FailCurrent \/ \E ph, r, sent : Continue(ph, r, sent)
  PROVE  steps'[current].state # "Succeeded"
<1>1. PICK v \in StepState : v # "Succeeded" /\ steps' = [steps EXCEPT ![current].state = v]
  BY DEF FailCurrent, Continue
<1>2. current \in DOMAIN steps
  BY LenProperties DEF Ticking, TypeOK
<1>3. \A k \in DOMAIN steps : steps'[k].state = IF k = current THEN v ELSE steps[k].state
  BY <1>1, <1>2, SetState DEF TypeOK
<1> QED
  BY <1>1, <1>2, <1>3

(* The one way a running startup step succeeds.                            *)
LEMMA StartupSucceeds ==
  ASSUME TypeOK, ClockInv, Tick, startup, Now.state = "Running",
         steps'[current].state = "Succeeded"
  PROVE  elapsed - offlineAt >= Readiness
<1>1. Ticking
  BY TickShape
<1>2. ~Starting
  BY DEF Starting
<1>3. ~FailCurrent /\ \A ph, r, sent : ~Continue(ph, r, sent)
  BY <1>1, NotSucceeded
<1>4. CASE TickOnline
  <2> DEFINE since == IF readyNow = NotReady THEN 0 ELSE readyNow
  <2>1. since >= Readiness
    BY <1>3, <1>4 DEF TickOnline, Return
  <2>2. readyNow = ready
    BY <1>2 DEF readyNow
  <2>3. offlineAt \in Nat /\ elapsed \in Nat /\ Readiness \in Nat /\ ready \in Nat \cup {NotReady}
    BY ConfigAssumption DEF TypeOK
  <2>4. offlineAt <= elapsed /\ (ready # NotReady => ready <= elapsed - offlineAt)
    BY DEF ClockInv, ReadySinceSeen
  <2> QED BY <2>1, <2>2, <2>3, <2>4
<1>5. ~TickGiveUp
  BY <1>3 DEF TickGiveUp
<1>6. ~TickPowerOn
  BY <1>3 DEF TickPowerOn, BlockInPut, Return
<1>7. ~TickAwaitBoot
  BY <1>3 DEF TickAwaitBoot, Return
<1>8. ~(TickAskShutdown \/ TickAwaitOffline \/ TickCut \/ TickAwaitCut)
  BY DEF TickAskShutdown, TickAwaitOffline, TickCut, TickAwaitCut
<1> QED
  BY <1>4, <1>5, <1>6, <1>7, <1>8 DEF Tick

(* A startup step never succeeds before its host has been seen online, at  *)
(* every tick, for Readiness seconds.                                      *)
THEOREM ReadinessAlwaysHeld == Spec => ReadinessHeld
<1> DEFINE Held == \A k \in DOMAIN steps :
             (/\ active /\ startup /\ k = current /\ steps[k].state = "Running"
              /\ steps'[k].state = "Succeeded")
               => elapsed - offlineAt >= Readiness
<1>1. IInv /\ [Next]_vars => [Held]_vars
  <2> SUFFICES ASSUME IInv, [Next]_vars, active, startup, current \in DOMAIN steps,
                      Now.state = "Running", steps'[current].state = "Succeeded"
               PROVE  elapsed - offlineAt >= Readiness
    BY DEF Now
  <2>1. steps' # steps
    BY DEF Now
  <2>2. Tick
    <3>1. ~FinishPut
      BY <2>1 DEF FinishPut, statusVars
    <3>2. ~(Second \/ Environment \/ UNCHANGED vars)
      BY <2>1, OthersLeave DEF engineVars, statusVars
    <3>3. ASSUME NEW t \in Target, NEW up \in BOOLEAN PROVE ~Start(t, up)
      BY DEF Start
    <3> QED BY <3>1, <3>2, <3>3 DEF Next
  <2> QED BY <2>2, StartupSucceeds DEF IInv
<1> QED
  BY <1>1, Inductive, PTL DEF Spec, ReadinessHeld

-----------------------------------------------------------------------------
(* The engine implements SequenceRun: every step of it is a step of the    *)
(* abstract run, or leaves that alone.                                     *)

Outcome == [k \in DOMAIN steps |-> steps[k].state]

(* An idle engine is an idle run.                                          *)
LEMMA RunInit == Init => Run!Init
<1> SUFFICES ASSUME Init PROVE Run!Init
  OBVIOUS
<1>1. Outcome = <<>>
  BY DEF Init, Outcome
<1> QED
  BY <1>1 DEF Init, Run!Init, Outcome

(* The outcome after the state of the current step is set.                 *)
LEMMA OutcomeOf ==
  ASSUME TypeOK, Ticking, NEW v \in StepState, steps' = [steps EXCEPT ![current].state = v]
  PROVE  /\ current \in DOMAIN Outcome
         /\ Outcome' = [Outcome EXCEPT ![current] = v]
         /\ Len(Outcome) = Len(steps)
<1>1. current \in DOMAIN steps /\ Len(steps) \in Nat /\ DOMAIN steps = 1..Len(steps)
  BY LenProperties DEF Ticking, TypeOK
<1>2. /\ DOMAIN steps' = DOMAIN steps
      /\ \A k \in DOMAIN steps : steps'[k].state = IF k = current THEN v ELSE steps[k].state
  BY <1>1, SetState DEF TypeOK
<1>3. Outcome' = [k \in DOMAIN steps |-> IF k = current THEN v ELSE steps[k].state]
  BY <1>2 DEF Outcome
<1>4. Outcome' = [Outcome EXCEPT ![current] = v]
  BY <1>1, <1>3 DEF Outcome
<1>5. Outcome \in Seq(StepState)
  <2>1. ASSUME NEW k \in DOMAIN steps PROVE steps[k].state \in StepState
    <3>1. steps[k] \in Step
      BY <1>1, ElementOfSeq DEF TypeOK
    <3> QED BY <3>1 DEF Step
  <2>2. Outcome \in [1..Len(steps) -> StepState]
    BY <1>1, <2>1 DEF Outcome
  <2> QED BY <1>1, <2>2, SeqDef
<1>6. Len(Outcome) = Len(steps)
  BY <1>1, <1>5, LenProperties DEF Outcome
<1> QED
  BY <1>1, <1>4, <1>6 DEF Outcome

(* A tick is one step of the run for the step whose turn it is, or none.   *)
LEMMA RunTick ==
  ASSUME TypeOK, StatusConsistent, Tick
  PROVE  Run!Next \/ UNCHANGED Run!vars
<1>1. Ticking /\ (SucceedCurrent \/ FailCurrent \/ Goes)
  BY TickShape
<1>2. /\ active /\ current \in DOMAIN steps /\ current \in Nat /\ Len(steps) \in Nat
      /\ DOMAIN steps = 1..Len(steps) /\ ~succeeded
  BY <1>1, LenProperties DEF Ticking, TypeOK, StatusConsistent
<1>3. /\ current \in DOMAIN Outcome
      /\ Outcome[current] \in {"Pending", "Running"}
      /\ \A j \in 1..(current - 1) : Outcome[j] = "Succeeded"
  BY <1>2 DEF Outcome, StatusConsistent, Now
<1> DEFINE Turns == DOMAIN [k \in DOMAIN steps |-> steps[k].state]
<1>4. PICK c \in Turns : c = current /\ Run!Turn(c)
  BY <1>3 DEF Run!Turn, Outcome
<1>5. CASE SucceedCurrent
  <2>1. steps' = [steps EXCEPT ![current].state = "Succeeded"]
    BY <1>5 DEF SucceedCurrent
  <2>2. Outcome' = [Outcome EXCEPT ![current] = "Succeeded"] /\ Len(Outcome) = Len(steps)
    BY <1>1, <2>1, OutcomeOf
  <2>3. active' = (current < Len(steps)) /\ succeeded' = (current = Len(steps))
    BY <1>2, <1>5, <2>2 DEF SucceedCurrent
  <2>4. Run!Pass(c)
    BY <1>2, <1>4, <2>2, <2>3 DEF Run!Pass, Outcome
  <2>5. \E k \in Turns : Run!Pass(k) \/ Run!Fail(k)
    BY <2>4
  <2>6. Run!EndStep
    BY <2>5 DEF Run!EndStep
  <2> QED BY <2>6 DEF Run!Next
<1>6. CASE FailCurrent
  <2>1. steps' = [steps EXCEPT ![current].state = "Failed"]
    BY <1>6 DEF FailCurrent
  <2>2. Outcome' = [Outcome EXCEPT ![current] = "Failed"]
    BY <1>1, <2>1, OutcomeOf
  <2>3. active' = FALSE /\ succeeded' = succeeded
    BY <1>6 DEF FailCurrent
  <2>4. Run!Fail(c)
    BY <1>2, <1>4, <2>2, <2>3 DEF Run!Fail, Outcome
  <2>5. \E k \in Turns : Run!Pass(k) \/ Run!Fail(k)
    BY <2>4
  <2>6. Run!EndStep
    BY <2>5 DEF Run!EndStep
  <2> QED BY <2>6 DEF Run!Next
<1>7. CASE Goes
  <2>1. /\ steps' = [steps EXCEPT ![current].state = "Running"]
        /\ active' = active /\ succeeded' = succeeded
    BY <1>1, <1>7, GoesStatus
  <2>2. Outcome' = [Outcome EXCEPT ![current] = "Running"]
    BY <1>1, <2>1, OutcomeOf
  <2>3. CASE Outcome[current] = "Pending"
    <3>1. Run!Work(c)
      BY <1>2, <1>4, <2>1, <2>2, <2>3 DEF Run!Work, Outcome
    <3>2. \E k \in Turns : Run!Work(k)
      BY <3>1
    <3> QED BY <3>2 DEF Run!Next
  <2>4. CASE Outcome[current] = "Running"
    <3>1. Outcome' = Outcome
      BY <2>2, <2>4 DEF Outcome
    <3> QED BY <2>1, <3>1 DEF Run!vars, Outcome
  <2> QED BY <1>3, <2>3, <2>4
<1> QED
  BY <1>1, <1>5, <1>6, <1>7

(* Every step of the system is a step of the run or leaves it alone.       *)
LEMMA RunStep ==
  TypeOK /\ StatusConsistent /\ [Next]_vars => [Run!Next]_(Run!vars)
<1> SUFFICES ASSUME TypeOK, StatusConsistent, [Next]_vars
             PROVE  Run!Next \/ UNCHANGED Run!vars
  OBVIOUS
<1>1. CASE Tick
  BY <1>1, RunTick
<1>2. CASE FinishPut
  BY <1>2 DEF FinishPut, statusVars, Run!vars
<1>3. ASSUME NEW t \in Target, NEW up \in BOOLEAN, Start(t, up)
      PROVE  Run!Next
  <2>1. CASE Plan(t, up) = <<>>
    <3>1. ~active /\ active' = FALSE /\ succeeded' = FALSE /\ steps' = <<>>
      BY <1>3, <2>1 DEF Start, RefuseEmpty
    <3>2. Outcome' = <<>>
      BY <3>1 DEF Outcome
    <3> QED BY <3>1, <3>2 DEF Run!Next, Run!Forget, Outcome
  <2>2. CASE Plan(t, up) # <<>>
    <3>1. Accept(t, up) /\ ~active
      BY <1>3, <2>2 DEF Start
    <3>2. /\ steps' \in Seq(Step) /\ Len(steps') = Len(Plan(t, up))
          /\ \A k \in DOMAIN steps' : steps'[k].state = "Pending"
      BY <3>1, AcceptedSteps DEF Accept
    <3>3. Len(steps') \in Nat \ {0} /\ DOMAIN steps' = 1..Len(steps')
      <4>1. Plan(t, up) \in Seq(PlanStep)
        BY PlanAssumption DEF Plan
      <4> QED BY <2>2, <3>2, <4>1, EmptySeq, LenProperties
    <3>4. Outcome' \in [1..Len(steps') -> {"Pending"}]
      BY <3>2, <3>3 DEF Outcome
    <3>5. Outcome' \in Seq({"Pending"})
      BY <3>3, <3>4, SeqDef
    <3>6. Outcome' # <<>>
      <4>1. DOMAIN (Outcome') = 1..Len(steps') /\ 1 \in 1..Len(steps')
        BY <3>3 DEF Outcome
      <4>2. DOMAIN (Outcome') = 1..Len(Outcome')
        BY <3>5, LenProperties
      <4> HIDE DEF Outcome
      <4> QED BY <4>1, <4>2, EmptySeq
    <3>7. active' = TRUE /\ succeeded' = FALSE
      BY <3>1 DEF Accept
    <3> QED BY <3>1, <3>5, <3>6, <3>7 DEF Run!Next, Run!Accept, Outcome
  <2> QED BY <2>1, <2>2
<1>4. CASE Second \/ Environment \/ UNCHANGED vars
  BY <1>4, OthersLeave DEF engineVars, statusVars, Run!vars
<1> QED
  BY <1>1, <1>2, <1>3, <1>4 DEF Next

(* The safety half of ImplementsRun, for any rack: steps in order, each    *)
(* ending once, a failure stopping the sequence, and a running sequence    *)
(* disturbed by no request.  Its liveness half is left to TLC.             *)
THEOREM RunsSafely == Spec => Run!Init /\ [][Run!Next]_(Run!vars)
<1>1. IInv /\ [Next]_vars => [Run!Next]_(Run!vars)
  BY RunStep DEF IInv
<1> QED
  BY <1>1, RunInit, Inductive, PTL DEF Spec

-----------------------------------------------------------------------------
(* The engine in the composition.                                          *)

(* What TailShed does to the engine is a start_group of the group it took. *)
LEMMA ShedStarts ==
  ASSUME TypeOK, TailShed, ~putting
  PROVE  UNCHANGED vars \/ \E t \in Target : Start(t, FALSE)
<1>1. CASE UNCHANGED vars
  BY <1>1
<1>2. CASE ~(UNCHANGED vars)
  <2>1. ~active /\ ids < MaxIds
    <3>1. ~active /\ ~(ids >= MaxIds)
      BY <1>2, Zenon DEF TailShed
    <3>2. ids \in Nat /\ MaxIds \in Nat
      BY ConfigAssumption DEF TypeOK
    <3> QED BY <3>1, <3>2
  <2>2. PICK g \in NextToShed :
          /\ IF ShutdownPlan[g] = <<>> THEN RefuseEmpty(FALSE) ELSE Accept(g, FALSE)
          /\ UNCHANGED <<putting, hostVars, pduVars, historyVars>>
    BY <1>2 DEF TailShed
  <2>3. g \in Target
    BY DEF NextToShed, Sheddable, Target
  <2>4. Start(g, FALSE)
    BY <2>1, <2>2 DEF Start, Plan
  <2> QED BY <2>3, <2>4
<1> QED BY <1>1, <1>2

LEMMA TailStarts ==
  ASSUME TypeOK, ShedTail
  PROVE  UNCHANGED vars \/ \E t \in Target : Start(t, FALSE)
BY ShedStarts DEF ShedTail, TailBlind, TailCalm, TailHold

(* Every step of the composition is one of the engine's, or leaves it      *)
(* alone.                                                                  *)
LEMMA EngineStep == TypeOK /\ [BudgetNext]_budgetAllVars => [Next]_vars
<1> SUFFICES ASSUME TypeOK, [BudgetNext]_budgetAllVars PROVE [Next]_vars
  OBVIOUS
<1>1. CASE EngineTick
  BY <1>1 DEF EngineTick, IdleTick, Next
<1>2. CASE BudgetFinishPut
  BY <1>2 DEF BudgetFinishPut, Next
<1>3. CASE ShedTail
  BY <1>3, TailStarts DEF Next
<1>4. ASSUME NEW up \in BOOLEAN, UserStart(up) PROVE [Next]_vars
  BY <1>4 DEF UserStart, Target, Next
<1>5. CASE Enable \/ Disable
  BY <1>5 DEF Enable, Disable
<1>6. CASE BudgetSecond
  BY <1>6 DEF BudgetSecond, EngineClock, Next
<1>7. CASE World
  BY <1>7 DEF World, Next
<1>8. CASE UNCHANGED budgetAllVars
  BY <1>8 DEF budgetAllVars
<1> QED BY <1>1, <1>2, <1>3, <1>4, <1>5, <1>6, <1>7, <1>8 DEF BudgetNext

(* The engine under load shedding, with the buttons beside it, behaves as  *)
(* the engine alone: the controller can ask of it nothing that a user could*)
(* not (power_budget_controller.cpp 26, 51).  Whatever is proved of Spec   *)
(* therefore holds in the composition.                                     *)
THEOREM EngineUndisturbed == BudgetSpec => Spec
<1>1. BudgetInit => Init
  BY DEF BudgetInit
<1> QED BY <1>1, EngineStep, InitTypes, StepTypes, PTL DEF BudgetSpec, Spec

-----------------------------------------------------------------------------
(* The controller.                                                         *)

BudgetTyped ==
  /\ enabled \in BOOLEAN /\ inTick \in BOOLEAN
  /\ criticalFor \in Nat \cup {NotSince} /\ calmAgo \in Nat
  /\ shedGroups \subseteq Group \ NeverShed
  /\ pendingShed \in (Group \ NeverShed) \cup {NoGroup}

\* The steps are those of the pending group, and go on or have ended within
\* this tick.
PendingSteps ==
  pendingShed # NoGroup =>
    /\ active \/ inTick
    /\ ~startup /\ steps # <<>>
    /\ \A k \in DOMAIN steps : steps[k].group = pendingShed

\* Shed groups, and the pending one after them, come by priority.
PrioritySoFar ==
  /\ \A g \in shedGroups, h \in Group \ NeverShed :
       Priority[h] > Priority[g] => h \in shedGroups
  /\ pendingShed # NoGroup =>
       \A h \in Group \ NeverShed :
         Priority[h] > Priority[pendingShed] => h \in shedGroups

\* critical_since_ is no older than the last calm measurement.
HeldSinceCalm ==
  /\ ~enabled => criticalFor = NotSince
  /\ criticalFor <= calmAgo

BudgetInv == BudgetTyped /\ PendingSteps /\ PrioritySoFar /\ HeldSinceCalm

(* The engine's ticks, time and the other threads leave the groups of a    *)
(* running sequence, and its direction.                                    *)
LEMMA GroupsStay ==
  ASSUME TypeOK, Tick \/ FinishPut \/ Second \/ Environment \/ UNCHANGED vars
  PROVE  /\ startup' = startup
         /\ DOMAIN steps' = DOMAIN steps
         /\ \A k \in DOMAIN steps : steps'[k].group = steps[k].group
         /\ steps # <<>> => steps' # <<>>
<1>1. CASE Tick
  <2>1. Ticking /\ (SucceedCurrent \/ FailCurrent \/ Goes)
    BY <1>1, TickShape
  <2>2. current \in DOMAIN steps
    BY <2>1, LenProperties DEF Ticking, TypeOK
  <2>3. /\ startup' = startup
        /\ \E v \in StepState : steps' = [steps EXCEPT ![current].state = v]
    BY <2>1, GoesStatus DEF SucceedCurrent, FailCurrent
  <2>4. /\ DOMAIN steps' = DOMAIN steps
        /\ \A k \in DOMAIN steps : steps'[k].group = steps[k].group
    BY <2>2, <2>3, SetState DEF TypeOK
  <2>5. steps' # <<>>
    BY <2>2, <2>4
  <2> QED BY <2>3, <2>4, <2>5
<1>2. CASE FinishPut
  BY <1>2 DEF FinishPut, statusVars
<1>3. CASE Second \/ Environment \/ UNCHANGED vars
  BY <1>3, OthersLeave DEF engineVars, statusVars
<1> QED BY <1>1, <1>2, <1>3

\* Of these only a tick ends a sequence.
LEMMA ActiveStays ==
  ASSUME FinishPut \/ Second \/ Environment \/ UNCHANGED vars
  PROVE  active' = active
<1>1. CASE FinishPut
  BY <1>1 DEF FinishPut, statusVars
<1>2. CASE Second \/ Environment \/ UNCHANGED vars
  BY <1>2, OthersLeave DEF engineVars, statusVars
<1> QED BY <1>1, <1>2

(* A step that leaves the controller's record of the pending group alone,  *)
(* and ends a sequence only within a tick, keeps PendingSteps.             *)
LEMMA PendingStays ==
  ASSUME TypeOK, PendingSteps, UNCHANGED pendingShed,
         Tick \/ FinishPut \/ Second \/ Environment \/ UNCHANGED vars,
         inTick' \/ (inTick' = inTick /\ active' = active)
  PROVE  PendingSteps'
BY GroupsStay DEF PendingSteps

(* One step of the controller, or beside it.                               *)
LEMMA TypedStep ==
  ASSUME BudgetTyped, [BudgetNext]_budgetAllVars
  PROVE  BudgetTyped'
<1> USE BudgetAssumption DEF BudgetTyped, NotSince
<1>1. CASE EngineTick
  BY <1>1 DEF EngineTick, budgetVars
<1>2. CASE BudgetFinishPut \/ World
  BY <1>2 DEF BudgetFinishPut, World, budgetVars
<1>3. CASE ShedTail
  <2>1. /\ enabled' = enabled /\ inTick' = FALSE
        /\ shedGroups' = ShedSoFar
    BY <1>3 DEF ShedTail
  <2>2. shedGroups' \subseteq Group \ NeverShed
    BY <2>1 DEF ShedSoFar, Settled
  <2>3. StillPending \in (Group \ NeverShed) \cup {NoGroup} /\ NextToShed \subseteq Group \ NeverShed
    BY DEF StillPending, NextToShed, Sheddable
  <2>4. pendingShed' \in (Group \ NeverShed) \cup {NoGroup}
    <3>1. CASE TailBlind \/ TailCalm \/ TailHold
      BY <2>3, <3>1 DEF TailBlind, TailCalm, TailHold
    <3>2. CASE TailShed
      BY <2>3, <3>2 DEF TailShed
    <3> QED BY <1>3, <3>1, <3>2 DEF ShedTail
  <2>5. /\ criticalFor' \in {criticalFor, heldNow, NotSince}
        /\ calmAgo' \in {calmAgo, 0}
    BY <1>3, Zenon DEF ShedTail, TailBlind, TailCalm, TailHold, TailShed
  <2>6. criticalFor' \in Nat \cup {NotSince} /\ calmAgo' \in Nat
    BY <2>5 DEF heldNow
  <2> QED BY <2>1, <2>2, <2>4, <2>6
<1>4. ASSUME NEW up \in BOOLEAN, UserStart(up) PROVE BudgetTyped'
  BY <1>4 DEF UserStart, budgetVars
<1>5. CASE Enable \/ Disable
  <2>1. /\ enabled' \in BOOLEAN /\ UNCHANGED <<inTick, shedGroups, pendingShed>>
        /\ criticalFor' \in {criticalFor, NotSince} /\ calmAgo' \in {calmAgo, 0}
    BY <1>5, Zenon DEF Enable, Disable
  <2> QED BY <2>1
<1>6. CASE BudgetSecond
  BY <1>6 DEF BudgetSecond, Least
<1>7. CASE UNCHANGED budgetAllVars
  BY <1>7 DEF budgetAllVars, budgetVars
<1> QED BY <1>1, <1>2, <1>3, <1>4, <1>5, <1>6, <1>7 DEF BudgetNext

(* The pending group is the one whose steps the engine goes through.       *)
LEMMA PendingStep ==
  ASSUME TypeOK, BudgetTyped, PendingSteps, [BudgetNext]_budgetAllVars
  PROVE  PendingSteps'
<1>1. CASE EngineTick
  BY <1>1, PendingStays DEF EngineTick, IdleTick, budgetVars
<1>2. CASE BudgetFinishPut
  BY <1>2, ActiveStays, PendingStays DEF BudgetFinishPut, budgetVars
<1>3. CASE ShedTail
  <2>1. /\ inTick' = FALSE /\ ~putting
        /\ TailBlind \/ TailCalm \/ TailHold \/ TailShed
    BY <1>3 DEF ShedTail
  <2>2. CASE pendingShed' = StillPending /\ UNCHANGED vars
    <3>1. UNCHANGED <<active, startup, steps>>
      BY <2>2 DEF vars, statusVars
    <3>2. pendingShed' # NoGroup => pendingShed' = pendingShed /\ active
      BY <2>2 DEF StillPending, Settled
    <3> QED BY <3>1, <3>2 DEF PendingSteps
  <2>3. CASE TailShed /\ ~(pendingShed' = StillPending /\ UNCHANGED vars)
    <3>1. ~active
      BY <2>3 DEF TailShed
    <3>2. PICK g \in NextToShed :
            IF ShutdownPlan[g] = <<>>
            THEN RefuseEmpty(FALSE) /\ pendingShed' = StillPending
            ELSE Accept(g, FALSE) /\ pendingShed' = g
      BY <2>3 DEF TailShed
    <3>3. g \in Group /\ g \in Target
      BY DEF NextToShed, Sheddable, Target
    <3>4. CASE ShutdownPlan[g] = <<>>
      <4>1. pendingShed' = NoGroup
        BY <3>1, <3>2, <3>4 DEF StillPending, Settled
      <4> QED BY <4>1 DEF PendingSteps
    <3>5. CASE ShutdownPlan[g] # <<>>
      <4>1. Accept(g, FALSE) /\ pendingShed' = g
        BY <3>2, <3>5
      <4>2. /\ steps' \in Seq(Step) /\ Len(steps') = Len(ShutdownPlan[g])
            /\ DOMAIN steps' = DOMAIN ShutdownPlan[g]
            /\ \A k \in DOMAIN steps' : steps'[k].group = ShutdownPlan[g][k].group
        BY <3>3, <4>1, AcceptedSteps DEF Accept, Plan
      <4>3. \A k \in DOMAIN steps' : steps'[k].group = g
        BY <3>3, <4>2, BudgetAssumption
      <4>4. steps' # <<>>
        <5>1. ShutdownPlan[g] \in Seq(PlanStep)
          BY <3>3, PlanAssumption
        <5> QED BY <3>5, <4>2, <5>1, EmptySeq
      <4> QED BY <4>1, <4>3, <4>4 DEF Accept, PendingSteps
    <3> QED BY <3>4, <3>5
  <2> QED BY <2>1, <2>2, <2>3 DEF TailBlind, TailCalm, TailHold
<1>4. ASSUME NEW up \in BOOLEAN, UserStart(up) PROVE PendingSteps'
  <2>1. pendingShed' = pendingShed /\ ~active /\ ~inTick
    BY <1>4 DEF UserStart, Start, budgetVars
  <2> QED BY <2>1 DEF PendingSteps
<1>5. CASE Enable \/ Disable \/ UNCHANGED budgetAllVars
  BY <1>5, ActiveStays, PendingStays DEF Enable, Disable, budgetAllVars, budgetVars
<1>6. CASE BudgetSecond
  BY <1>6, ActiveStays, PendingStays DEF BudgetSecond, EngineClock
<1>7. CASE World
  BY <1>7, ActiveStays, PendingStays DEF World, budgetVars
<1> QED BY <1>1, <1>2, <1>3, <1>4, <1>5, <1>6, <1>7 DEF BudgetNext

(* Groups come by priority.                                                *)
LEMMA PriorityStep ==
  ASSUME BudgetTyped, PrioritySoFar, [BudgetNext]_budgetAllVars
  PROVE  PrioritySoFar'
<1>1. CASE UNCHANGED <<shedGroups, pendingShed>>
  BY <1>1 DEF PrioritySoFar
<1>2. CASE ShedTail
  <2>1. shedGroups' = ShedSoFar
    BY <1>2 DEF ShedTail
  <2>2. \A g \in shedGroups', h \in Group \ NeverShed :
          Priority[h] > Priority[g] => h \in shedGroups'
    BY <2>1 DEF PrioritySoFar, ShedSoFar, Settled
  <2>3. CASE pendingShed' = StillPending
    BY <2>1, <2>2, <2>3 DEF PrioritySoFar, StillPending, ShedSoFar
  <2>4. CASE pendingShed' # StillPending
    <3>1. pendingShed' \in NextToShed
      BY <1>2, <2>4 DEF ShedTail, TailBlind, TailCalm, TailHold, TailShed
    <3>2. ASSUME NEW h \in Group \ NeverShed, Priority[h] > Priority[pendingShed']
          PROVE  h \in shedGroups'
      <4>1. Priority[h] \in Int /\ Priority[pendingShed'] \in Int
        BY <3>1, BudgetAssumption DEF NextToShed, Sheddable
      <4>2. h \notin Sheddable
        BY <3>1, <3>2, <4>1 DEF NextToShed
      <4> QED BY <2>1, <4>2 DEF Sheddable
    <3> QED BY <2>2, <3>2 DEF PrioritySoFar
  <2> QED BY <2>3, <2>4
<1>3. \/ ShedTail \/ UNCHANGED <<shedGroups, pendingShed>>
  BY DEF BudgetNext, EngineTick, BudgetFinishPut, UserStart, Enable, Disable, BudgetSecond,
         World, budgetAllVars, budgetVars
<1> QED BY <1>1, <1>2, <1>3

(* critical_since_ is set by a tick that finds the load critical, and      *)
(* unset by one that does not.                                             *)
LEMMA HeldStep ==
  ASSUME BudgetTyped, HeldSinceCalm, [BudgetNext]_budgetAllVars
  PROVE  HeldSinceCalm'
<1> USE BudgetAssumption DEF BudgetTyped, HeldSinceCalm, NotSince
<1>1. CASE UNCHANGED <<enabled, criticalFor, calmAgo>>
  BY <1>1
<1>2. CASE ShedTail
  <2>1. enabled' = enabled
    BY <1>2 DEF ShedTail
  <2>2. CASE TailBlind
    BY <2>1, <2>2 DEF TailBlind
  <2>3. CASE TailCalm
    BY <2>1, <2>3 DEF TailCalm
  <2>4. CASE TailHold \/ TailShed
    <3>1. enabled' = enabled /\ enabled /\ criticalFor' = heldNow /\ calmAgo' = calmAgo
      BY <2>1, <2>4, Zenon DEF TailHold, TailShed
    <3> QED BY <3>1 DEF heldNow
  <2> QED BY <1>2, <2>2, <2>3, <2>4 DEF ShedTail
<1>3. CASE Enable \/ Disable
  BY <1>3 DEF Enable, Disable
<1>4. CASE BudgetSecond
  BY <1>4 DEF BudgetSecond, Least
<1>5. \/ ShedTail \/ Enable \/ Disable \/ BudgetSecond
      \/ UNCHANGED <<enabled, criticalFor, calmAgo>>
  BY DEF BudgetNext, EngineTick, BudgetFinishPut, UserStart, World, budgetAllVars, budgetVars
<1> QED BY <1>1, <1>2, <1>3, <1>4, <1>5

(* The invariant of the composition: the engine's and the controller's.    *)
LEMMA BudgetInductive == BudgetSpec => [](IInv /\ BudgetInv)
<1>1. BudgetInit => IInv /\ BudgetInv
  <2> SUFFICES ASSUME BudgetInit PROVE IInv /\ BudgetInv
    OBVIOUS
  <2>1. IInv
    BY IInvInit DEF BudgetInit
  <2>2. BudgetInv
    <3>1. /\ enabled \in BOOLEAN /\ criticalFor = NotSince /\ shedGroups = {}
          /\ pendingShed = NoGroup /\ inTick = FALSE /\ calmAgo = 0
      BY DEF BudgetInit
    <3>2. BudgetTyped
      BY <3>1 DEF BudgetTyped
    <3>3. PendingSteps /\ PrioritySoFar
      BY <3>1 DEF PendingSteps, PrioritySoFar
    <3>4. HeldSinceCalm
      BY <3>1 DEF HeldSinceCalm, NotSince
    <3> QED BY <3>2, <3>3, <3>4 DEF BudgetInv
  <2> QED BY <2>1, <2>2
<1>2. IInv /\ BudgetInv /\ [BudgetNext]_budgetAllVars => (IInv /\ BudgetInv)'
  <2> SUFFICES ASSUME IInv, BudgetInv, [BudgetNext]_budgetAllVars
               PROVE  IInv' /\ BudgetInv'
    OBVIOUS
  <2>1. TypeOK
    BY DEF IInv
  <2>2. IInv'
    BY <2>1, EngineStep, IInvStep
  <2>3. BudgetTyped' /\ PendingSteps' /\ PrioritySoFar' /\ HeldSinceCalm'
    BY <2>1, TypedStep, PendingStep, PriorityStep, HeldStep DEF BudgetInv
  <2> QED BY <2>2, <2>3 DEF BudgetInv
<1> QED BY <1>1, <1>2, PTL DEF BudgetSpec

-----------------------------------------------------------------------------
(* Its properties.                                                         *)

(* Whenever buttons can be pressed, the engine is shutting down the group  *)
(* the controller waits for, and nothing else: no sequence of the user is  *)
(* ever credited to load shedding (power_budget_controller.cpp 28).        *)
THEOREM PendingAlwaysRunning == BudgetSpec => []PendingIsRunning
<1>1. BudgetInv => PendingIsRunning
  BY DEF BudgetInv, PendingSteps, PendingIsRunning
<1> QED BY BudgetInductive, <1>1, PTL

(* Groups are shed by priority, whatever fails in between, and a protected *)
(* group never (power_budget_controller.cpp 44-51).                        *)
THEOREM AlwaysShedByPriority == BudgetSpec => []ShedByPriority
<1>1. BudgetInv => ShedByPriority
  <2> SUFFICES ASSUME BudgetInv PROVE ShedByPriority
    OBVIOUS
  <2>1. NeverShed \cap (shedGroups \cup {pendingShed}) = {}
    BY BudgetAssumption DEF BudgetInv, BudgetTyped
  <2> QED BY <2>1 DEF BudgetInv, PrioritySoFar, ShedByPriority
<1> QED BY BudgetInductive, <1>1, PTL

(* A group is only listed as shed when the sequence that just ended took   *)
(* all of its hosts down (power_budget_controller.cpp 28-30).              *)
THEOREM ShedAlwaysMeansDown == BudgetSpec => ShedMeansDown
<1> DEFINE Down == \A g \in shedGroups' \ shedGroups :
             /\ ~startup /\ steps # <<>>
             /\ \A k \in DOMAIN steps : steps[k].group = g /\ steps[k].state = "Succeeded"
<1>1. IInv /\ BudgetInv /\ [BudgetNext]_budgetAllVars => [Down]_budgetAllVars
  <2> SUFFICES ASSUME IInv, BudgetInv, [BudgetNext]_budgetAllVars,
                      NEW g \in shedGroups' \ shedGroups
               PROVE  /\ ~startup /\ steps # <<>>
                      /\ \A k \in DOMAIN steps :
                           steps[k].group = g /\ steps[k].state = "Succeeded"
    OBVIOUS
  <2>1. shedGroups' = ShedSoFar
    BY DEF BudgetNext, EngineTick, BudgetFinishPut, UserStart, Enable, Disable, BudgetSecond,
           World, ShedTail, budgetAllVars, budgetVars
  <2>2. pendingShed # NoGroup /\ ~active /\ succeeded /\ g = pendingShed
    BY <2>1 DEF ShedSoFar, Settled
  <2>3. ~startup /\ steps # <<>> /\ \A k \in DOMAIN steps : steps[k].group = g
    BY <2>2 DEF BudgetInv, PendingSteps
  <2>4. TypeOK /\ StatusConsistent
    BY DEF IInv
  <2>5. /\ Len(steps) \in Nat /\ DOMAIN steps = 1..Len(steps)
        /\ current = Len(steps) + 1
    BY <2>2, <2>3, <2>4, LenProperties DEF TypeOK, StatusConsistent
  <2>6. \A k \in DOMAIN steps : steps[k].state = "Succeeded"
    BY <2>4, <2>5 DEF StatusConsistent
  <2> QED BY <2>3, <2>6
<1> QED BY BudgetInductive, <1>1, PTL DEF BudgetSpec, ShedMeansDown

(* The controller starts a shutdown only after Hold seconds in which       *)
(* shedding was enabled and every measurement it saw was critical          *)
(* (power_budget_controller.cpp 34-42).                                    *)
THEOREM HoldAlwaysKept == BudgetSpec => HoldKept
<1> DEFINE Kept == (inTick /\ ids' > ids) => enabled /\ calmAgo >= Hold
<1>1. IInv /\ BudgetInv /\ [BudgetNext]_budgetAllVars => [Kept]_budgetAllVars
  <2> SUFFICES ASSUME IInv, BudgetInv, [BudgetNext]_budgetAllVars, inTick, ids' > ids
               PROVE  enabled /\ calmAgo >= Hold
    OBVIOUS
  <2>1. ids \in Nat /\ ids' # ids
    BY DEF IInv, TypeOK
  <2>2. ~(FinishPut \/ Second \/ Environment \/ UNCHANGED vars)
    BY <2>1, OthersLeave DEF FinishPut, activityVars, engineVars, vars
  <2>3. ShedTail
    BY <2>2 DEF BudgetNext, EngineTick, BudgetFinishPut, UserStart, Enable, Disable,
                BudgetSecond, EngineClock, World, budgetAllVars
  <2>4. TailShed
    BY <2>2, <2>3 DEF ShedTail, TailBlind, TailCalm, TailHold
  <2>5. enabled /\ heldNow >= Hold
    BY <2>4 DEF TailShed
  <2> QED BY <2>5, BudgetAssumption
          DEF heldNow, BudgetInv, BudgetTyped, HeldSinceCalm, NotSince
<1> QED BY BudgetInductive, <1>1, PTL DEF BudgetSpec, HoldKept
=============================================================================
