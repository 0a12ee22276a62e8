-------------------------- MODULE CommandFlowProofs --------------------------
(***************************************************************************)
(* Commands and their answers for any number of commands, connections and  *)
(* activities, and any length of the queues.                               *)
(***************************************************************************)
EXTENDS CommandFlow, SequenceTheorems, TLAPS

USE FlowAssumption

Kind == {"agent", "local"}
Answer == [id : Id, ok : BOOLEAN]

-----------------------------------------------------------------------------
(* Sequences.                                                              *)

Increasing(s) == \A i, j \in DOMAIN s : i < j => s[i] < s[j]

\* Every element of A is less than every element of B.
Before(A, B) == \A a \in A, b \in B : a < b

LEMMA AppendSet ==
  ASSUME NEW S, NEW s \in Seq(S), NEW e \in S
  PROVE  ToSet(Append(s, e)) = ToSet(s) \cup {e}
<1> DEFINE t == Append(s, e)
<1>1. /\ Len(s) \in Nat /\ DOMAIN s = 1..Len(s) /\ DOMAIN t = 1..(Len(s) + 1)
      /\ \A i \in 1..Len(s) : t[i] = s[i]
      /\ t[Len(s) + 1] = e
  BY AppendProperties, LenProperties
<1> HIDE DEF t
<1>2. DOMAIN t = DOMAIN s \cup {Len(s) + 1} /\ \A i \in DOMAIN s : t[i] = s[i]
  BY <1>1
<1> QED BY <1>1, <1>2 DEF ToSet

LEMMA HeadTailSet ==
  ASSUME NEW S, NEW s \in Seq(S), s # <<>>
  PROVE  Head(s) \in ToSet(s) /\ ToSet(Tail(s)) \subseteq ToSet(s) /\ Head(s) = s[1]
<1>1. /\ Len(s) \in Nat \ {0} /\ DOMAIN s = 1..Len(s) /\ Head(s) = s[1]
      /\ DOMAIN Tail(s) = 1..(Len(s) - 1)
      /\ \A i \in 1..(Len(s) - 1) : Tail(s)[i] = s[i + 1]
  BY EmptySeq, LenProperties, HeadTailProperties
<1>2. \A i \in 1..(Len(s) - 1) : i + 1 \in DOMAIN s
  BY <1>1
<1> QED BY <1>1, <1>2 DEF ToSet

LEMMA EmptySet == ToSet(<<>>) = {}
BY DEF ToSet

LEMMA IncreasingAppend ==
  ASSUME NEW s \in Seq(Nat), NEW e \in Nat, Increasing(s), \A x \in ToSet(s) : x < e
  PROVE  Increasing(Append(s, e))
<1> DEFINE t == Append(s, e)
<1>1. /\ Len(s) \in Nat /\ DOMAIN s = 1..Len(s) /\ DOMAIN t = 1..(Len(s) + 1)
      /\ \A i \in 1..Len(s) : t[i] = s[i]
      /\ t[Len(s) + 1] = e
  BY AppendProperties, LenProperties
<1> HIDE DEF t
<1> SUFFICES ASSUME NEW i \in DOMAIN t, NEW j \in DOMAIN t, i < j
             PROVE  t[i] < t[j]
  BY DEF Increasing, t
<1>2. i \in DOMAIN s /\ t[i] = s[i]
  BY <1>1
<1>3. CASE j \in DOMAIN s
  BY <1>1, <1>2, <1>3 DEF Increasing
<1>4. CASE j \notin DOMAIN s
  <2>1. t[j] = e
    BY <1>1, <1>4
  <2> QED BY <1>2, <2>1 DEF ToSet
<1> QED BY <1>3, <1>4

LEMMA IncreasingTail ==
  ASSUME NEW s \in Seq(Nat), s # <<>>, Increasing(s)
  PROVE  Increasing(Tail(s)) /\ \A x \in ToSet(Tail(s)) : Head(s) < x
<1>1. /\ Len(s) \in Nat \ {0} /\ DOMAIN s = 1..Len(s) /\ Head(s) = s[1]
      /\ DOMAIN Tail(s) = 1..(Len(s) - 1)
      /\ \A i \in 1..(Len(s) - 1) : Tail(s)[i] = s[i + 1]
  BY EmptySeq, LenProperties, HeadTailProperties
<1>2. \A i \in 1..(Len(s) - 1) : i + 1 \in DOMAIN s /\ 1 \in DOMAIN s
  BY <1>1
<1> DEFINE t == Tail(s)
<1>3. DOMAIN t = 1..(Len(s) - 1) /\ \A i \in 1..(Len(s) - 1) : t[i] = s[i + 1]
  BY <1>1
<1> HIDE DEF t
<1>4. Increasing(t)
  <2> SUFFICES ASSUME NEW i \in DOMAIN t, NEW j \in DOMAIN t, i < j
               PROVE  t[i] < t[j]
    BY DEF Increasing
  <2>1. i \in 1..(Len(s) - 1) /\ j \in 1..(Len(s) - 1)
    BY <1>3
  <2>2. t[i] = s[i + 1] /\ t[j] = s[j + 1]
    BY <1>3, <2>1
  <2>3. i + 1 \in DOMAIN s /\ j + 1 \in DOMAIN s
    BY <1>2, <2>1
  <2>4. i + 1 < j + 1
    BY <1>1, <2>1
  <2> QED BY <2>2, <2>3, <2>4 DEF Increasing
<1>5. \A x \in ToSet(t) : Head(s) < x
  <2> SUFFICES ASSUME NEW i \in DOMAIN t PROVE Head(s) < t[i]
    BY DEF ToSet
  <2>1. t[i] = s[i + 1] /\ 1 < i + 1
    BY <1>1, <1>3
  <2> QED BY <1>1, <1>2, <1>3, <2>1 DEF Increasing
<1> QED BY <1>4, <1>5 DEF t

-----------------------------------------------------------------------------
(* Messages and activities.                                                *)

LEMMA MessageShape ==
  /\ Hello \in Message /\ Hello.type = "hello" /\ Metrics \in Message /\ Metrics.type = "metrics"
  /\ \A id \in Id, ok \in BOOLEAN :
       Result(id, ok) \in Message /\ Result(id, ok).type = "cmd_result"
       /\ Result(id, ok).id = id /\ Result(id, ok).ok = ok
  /\ \A m \in Message : m.type = "cmd_result" => [id |-> m.id, ok |-> m.ok] \in Answer
<1>1. \A id \in Id, ok \in BOOLEAN : Result(id, ok) \in Message
  BY DEF Message
<1>2. \A id \in Id, ok \in BOOLEAN : Result(id, ok).type = "cmd_result"
                 /\ Result(id, ok).id = id /\ Result(id, ok).ok = ok
  BY DEF Result
<1>3. Hello \in Message /\ Hello.type = "hello" /\ Metrics \in Message /\ Metrics.type = "metrics"
  BY DEF Hello, Metrics, Message
<1>4. ASSUME NEW m \in Message, m.type = "cmd_result"
      PROVE  [id |-> m.id, ok |-> m.ok] \in Answer
  <2>1. PICK id \in Id, ok \in BOOLEAN : m = Result(id, ok)
    BY <1>3, <1>4 DEF Message
  <2> QED BY <1>2, <2>1 DEF Answer
<1> QED BY <1>1, <1>2, <1>3, <1>4

LEMMA CompletedShape ==
  ASSUME activities \in Seq(Activity), NEW id, NEW ok
  PROVE  /\ Completed(id, ok) \in Seq(Activity)
         /\ Len(Completed(id, ok)) = Len(activities)
         /\ DOMAIN Completed(id, ok) = DOMAIN activities
         /\ \A i \in DOMAIN activities :
              /\ Completed(id, ok)[i].id = activities[i].id
              /\ Completed(id, ok)[i].state =
                   IF activities[i].id = id THEN Verdict(ok) ELSE activities[i].state
<1> DEFINE e(i) == IF activities[i].id = id
                   THEN [activities[i] EXCEPT !.state = Verdict(ok)] ELSE activities[i]
<1>1. Len(activities) \in Nat /\ DOMAIN activities = 1..Len(activities)
  BY LenProperties
<1>2. \A i \in 1..Len(activities) : activities[i] \in Activity
  BY ElementOfSeq
<1>3. Verdict(ok) \in {"Pending", "Succeeded", "Failed"}
  BY DEF Verdict
<1>4. \A i \in 1..Len(activities) :
        /\ e(i) \in Activity /\ e(i).id = activities[i].id
        /\ e(i).state = IF activities[i].id = id THEN Verdict(ok) ELSE activities[i].state
  BY <1>2, <1>3 DEF Activity
<1>5. Completed(id, ok) = [i \in 1..Len(activities) |-> e(i)]
  BY <1>1 DEF Completed
<1> HIDE DEF e
<1>6. Completed(id, ok) \in Seq(Activity)
  BY <1>1, <1>4, <1>5, IsASeq
<1>7. /\ Len(Completed(id, ok)) = Len(activities)
      /\ \A i \in DOMAIN activities : Completed(id, ok)[i] = e(i)
  BY <1>1, <1>5
<1> QED BY <1>1, <1>4, <1>5, <1>6, <1>7

LEMMA ListedShape ==
  ASSUME activities \in Seq(Activity), NEW id \in Id
  PROVE  /\ Listed(id) \in Seq(Activity) /\ Len(Listed(id)) <= MaxActivities
         /\ Len(Listed(id)) = IF Len(activities) + 1 > MaxActivities THEN MaxActivities
                              ELSE Len(activities) + 1
         /\ DOMAIN Listed(id) \subseteq 1..(Len(activities) + 1)
         /\ DOMAIN Listed(id) = 1..Len(Listed(id))
         /\ \A i \in DOMAIN Listed(id) :
              Listed(id)[i] = IF i = 1 THEN [id |-> id, state |-> "Pending"] ELSE activities[i - 1]
<1> DEFINE new == [id |-> id, state |-> "Pending"]
           all == <<new>> \o activities
           n == IF Len(all) > MaxActivities THEN MaxActivities ELSE Len(all)
<1>1. Len(activities) \in Nat /\ new \in Activity /\ <<new>> \in Seq(Activity)
  BY LenProperties DEF Activity
<1>2. /\ all \in Seq(Activity) /\ Len(all) = Len(activities) + 1
      /\ \A i \in 1..Len(all) : all[i] = IF i = 1 THEN new ELSE activities[i - 1]
  BY <1>1, ConcatProperties
<1>3. /\ n \in 0..Len(all) /\ n <= MaxActivities
      /\ n = IF Len(activities) + 1 > MaxActivities THEN MaxActivities ELSE Len(activities) + 1
  BY <1>1, <1>2
<1>4. Listed(id) = SubSeq(all, 1, n)
  BY DEF Listed
<1> HIDE DEF all, n
<1>5. /\ SubSeq(all, 1, n) \in Seq(Activity) /\ Len(SubSeq(all, 1, n)) = n
      /\ \A i \in 1..n : SubSeq(all, 1, n)[i] = all[i]
  <2>1. \A i \in 1..n : all[i] \in Activity
    BY <1>2, <1>3, ElementOfSeq
  <2> QED BY <1>2, <1>3, <2>1, SubSeqProperties
<1> QED BY <1>2, <1>3, <1>4, <1>5, LenProperties

-----------------------------------------------------------------------------
(* Types.                                                                  *)

Flags == {online, agentWants, woken} \subseteq BOOLEAN

StoreTyped ==
  /\ activities \in Seq(Activity) /\ Len(activities) <= MaxActivities
  /\ kinds \in Seq(Kind) /\ Len(kinds) <= MaxCommands
  /\ dispatching \in 0..Len(kinds)

ServerTyped ==
  /\ greeted \subseteq sessions /\ serverWants \subseteq sessions /\ sessions \subseteq 1..made
  /\ pendingTx \in [Conn -> Seq(Id)]

AgentTyped ==
  /\ made \in 0..MaxConns /\ wsi \in 0..made /\ intact \subseteq 1..made
  /\ queue \in Seq(Message)
  /\ toServer \in [Conn -> Seq(Message)] /\ toAgent \in [Conn -> Seq(Id)]
  /\ executed \in Seq(Answer)

Typed == StoreTyped /\ ServerTyped /\ AgentTyped

LEMMA TypesAre == TypeOK <=> Flags /\ Typed
BY Zenon DEF TypeOK, Flags, Typed, StoreTyped, ServerTyped, AgentTyped, Kind, Answer

LEMMA FlagsStep == Flags /\ [Next]_vars => Flags'
<1> SUFFICES ASSUME Flags, [Next]_vars PROVE Flags'
  OBVIOUS
<1> USE DEF Flags, storeVars, serverVars, agentVars, netVars
<1>1. CASE \E kind \in {"agent", "local"} : Press(kind)
  BY <1>1, Zenon DEF Press, Dispatch
<1>2. CASE Send
  BY <1>2, Zenon DEF Send, SendCommand, SendRefused, DispatchLocal
<1>3. CASE Server
  BY <1>3, Zenon DEF Server, ServerReceive, ServerWriteable
<1>4. CASE Client
  <2>1. CASE (\E c \in Conn : Established(c)) \/ AgentClosed \/ AgentReceive
    BY <2>1, Zenon DEF Established, AgentClosed, AgentReceive
  <2>2. CASE WaitCancelled
    BY <2>2, Zenon DEF WaitCancelled
  <2>3. CASE FlushOne
    <3>1. agentWants' \in BOOLEAN
      BY <2>3 DEF FlushOne
    <3> QED BY <2>3, <3>1, Zenon DEF FlushOne
  <2> QED BY <1>4, <2>1, <2>2, <2>3 DEF Client
<1>5. CASE Collect \/ TickOnlineStatus \/ (\E c \in Conn : ServerClosed(c)) \/ AgentExit \/ Break
  BY <1>5, Zenon DEF Collect, TickOnlineStatus, ServerClosed, AgentExit, Break
<1>6. CASE UNCHANGED vars
  BY <1>6, Zenon DEF vars
<1> QED BY <1>1, <1>2, <1>3, <1>4, <1>5, <1>6 DEF Next

\* Whoever does not send, dispatch or receive leaves the activities alone.
LEMMA StoreStep == Typed /\ [Next]_vars => StoreTyped'
<1> SUFFICES ASSUME Typed, [Next]_vars PROVE StoreTyped'
  OBVIOUS
<1> USE DEF Typed, StoreTyped
<1>1. ASSUME NEW kind \in {"agent", "local"}, Press(kind) PROVE StoreTyped'
  <2>1. Len(kinds) \in Nat /\ Len(kinds) + 1 \in Id
    BY <1>1, LenProperties DEF Press, Dispatch, Id
  <2>2. activities' = Listed(Len(kinds) + 1)
    BY <1>1 DEF Press, Dispatch
  <2>3. kinds' \in Seq(Kind) /\ Len(kinds') = Len(kinds) + 1
    BY <1>1, AppendProperties DEF Press, Dispatch, Kind
  <2>4. dispatching' = Len(kinds) + 1
    BY <1>1 DEF Press, Dispatch
  <2>5. Len(kinds) + 1 <= MaxCommands
    BY <2>1 DEF Id
  <2> QED BY <2>1, <2>2, <2>3, <2>4, <2>5, ListedShape
<1>2. ASSUME NEW id, NEW ok, activities' = Completed(id, ok), kinds' = kinds,
             dispatching' \in {dispatching, None}
      PROVE  StoreTyped'
  BY <1>2, CompletedShape, LenProperties DEF None
<1>3. CASE DispatchLocal \/ SendRefused
  BY <1>2, <1>3 DEF DispatchLocal, SendRefused
<1>4. ASSUME NEW c \in Conn, SendCommand(c) PROVE StoreTyped'
  BY <1>4, LenProperties DEF SendCommand, None
<1>5. ASSUME NEW c \in Conn, ServerReceive(c) PROVE StoreTyped'
  BY <1>2, <1>5 DEF ServerReceive
<1>6. CASE UNCHANGED <<activities, kinds, dispatching>>
  BY <1>6
<1> QED BY <1>1, <1>3, <1>4, <1>5, <1>6
        DEF Next, Send, Server, Client, ServerWriteable, Established, AgentClosed,
            WaitCancelled, AgentReceive, FlushOne, Collect, TickOnlineStatus, ServerClosed,
            AgentExit, Break, vars, storeVars

LEMMA ServerStep == Typed /\ [Next]_vars => ServerTyped'
<1> SUFFICES ASSUME Typed, [Next]_vars PROVE ServerTyped'
  OBVIOUS
<1> USE DEF Typed, ServerTyped
<1>1. made \in Nat /\ made' \in Nat /\ made <= made'
  <2>1. made' \in {made, made + 1}
    BY Zenon DEF Next, Press, Dispatch, Send, SendCommand, SendRefused, DispatchLocal,
         Server, ServerReceive, ServerWriteable, Client, Established, AgentClosed,
         WaitCancelled, AgentReceive, FlushOne, Collect, TickOnlineStatus, ServerClosed,
         AgentExit, Break, vars, netVars
  <2> QED BY <2>1 DEF AgentTyped
<1>2. ASSUME NEW c \in Conn, SendCommand(c) PROVE ServerTyped'
  <2>1. dispatching \in Id
    BY <1>2 DEF SendCommand, StoreTyped, Id, None
  <2>2. pendingTx[c] \in Seq(Id)
    OBVIOUS
  <2>3. Append(pendingTx[c], dispatching) \in Seq(Id)
    BY <2>1, <2>2, AppendProperties
  <2>4. /\ UNCHANGED <<made, sessions, greeted>> /\ serverWants' = serverWants \cup {c}
        /\ pendingTx' = [pendingTx EXCEPT ![c] = Append(pendingTx[c], dispatching)]
        /\ c \in sessions
    BY <1>2 DEF SendCommand, netVars
  <2>5. pendingTx' \in [Conn -> Seq(Id)]
    BY <2>3, <2>4
  <2> QED BY <2>4, <2>5
<1>3. ASSUME NEW c \in Conn, ServerClosed(c) PROVE ServerTyped'
  <2>1. <<>> \in Seq(Id)
    OBVIOUS
  <2>2. /\ sessions' = sessions \ {c} /\ greeted' = greeted \ {c}
        /\ serverWants' = serverWants \ {c} /\ pendingTx' = [pendingTx EXCEPT ![c] = <<>>]
    BY <1>3 DEF ServerClosed
  <2>3. pendingTx' \in [Conn -> Seq(Id)]
    BY <2>1, <2>2
  <2>4. made' = made
    BY <1>3 DEF ServerClosed
  <2> QED BY <2>2, <2>3, <2>4
<1>4. ASSUME NEW c \in Conn, ServerReceive(c) PROVE ServerTyped'
  BY <1>1, <1>4 DEF ServerReceive
<1>5. ASSUME NEW c \in Conn, ServerWriteable(c) PROVE ServerTyped'
  <2>1. Tail(pendingTx[c]) \in Seq(Id)
    BY <1>5, HeadTailProperties DEF ServerWriteable
  <2> QED BY <1>1, <1>5, <2>1 DEF ServerWriteable
<1>6. ASSUME NEW c \in Conn, Established(c) PROVE ServerTyped'
  BY <1>1, <1>6 DEF Established
<1>7. CASE UNCHANGED serverVars
  BY <1>1, <1>7 DEF serverVars
<1> QED BY <1>2, <1>3, <1>4, <1>5, <1>6, <1>7
        DEF Next, Press, Dispatch, Send, SendRefused, DispatchLocal, Server, Client,
            AgentClosed, WaitCancelled, AgentReceive, FlushOne, Collect, TickOnlineStatus,
            AgentExit, Break, vars

\* The connection of the agent has queues of its own.
LEMMA WsiConn ==
  ASSUME AgentTyped, wsi # None
  PROVE  wsi \in Conn
BY DEF AgentTyped, Conn, None

LEMMA AgentStep == Typed /\ [Next]_vars => AgentTyped'
<1> SUFFICES ASSUME Typed, [Next]_vars PROVE AgentTyped'
  OBVIOUS
<1> USE DEF Typed, AgentTyped, None
<1>1. ASSUME NEW c \in Conn, ServerReceive(c) PROVE AgentTyped'
  <2>1. Tail(toServer[c]) \in Seq(Message)
    BY <1>1, HeadTailProperties DEF ServerReceive
  <2> QED BY <1>1, <2>1 DEF ServerReceive, agentVars
<1>2. ASSUME NEW c \in Conn, ServerWriteable(c) PROVE AgentTyped'
  <2>1. pendingTx[c] \in Seq(Id) /\ Head(pendingTx[c]) \in Id
    BY <1>2, HeadTailProperties DEF ServerWriteable, ServerTyped
  <2>2. Append(toAgent[c], Head(pendingTx[c])) \in Seq(Id)
    BY <2>1, AppendProperties
  <2>3. toAgent' \in [Conn -> Seq(Id)]
    BY <1>2, <2>2 DEF ServerWriteable, Written
  <2> QED BY <1>2, <2>3 DEF ServerWriteable, agentVars
<1>3. ASSUME NEW c \in Conn, Established(c) PROVE AgentTyped'
  <2>1. queue' \in Seq(Message)
    BY <1>3, MessageShape, AppendProperties DEF Established
  <2> QED BY <1>3, <2>1 DEF Established, Conn
<1>4. ASSUME NEW c \in Conn, ServerClosed(c) PROVE AgentTyped'
  BY <1>4 DEF ServerClosed, agentVars
<1>5. CASE AgentClosed
  BY <1>5, WsiConn DEF AgentClosed
<1>6. CASE Collect
  <2>1. queue' \in Seq(Message)
    BY <1>6, MessageShape, AppendProperties DEF Collect
  <2> QED BY <1>6, <2>1 DEF Collect, netVars
<1>7. CASE AgentReceive
  <2>1. wsi \in Conn /\ toAgent[wsi] \in Seq(Id) /\ toAgent[wsi] # <<>>
    BY <1>7, WsiConn DEF AgentReceive
  <2>2. Head(toAgent[wsi]) \in Id /\ Tail(toAgent[wsi]) \in Seq(Id)
    BY <2>1, HeadTailProperties
  <2>3. PICK a \in Answers(Head(toAgent[wsi])) :
          executed' = Append(executed, a) /\ queue' = Append(queue, Result(a.id, a.ok))
    BY <1>7 DEF AgentReceive
  <2>4. a \in Answer /\ a.id \in Id /\ a.ok \in BOOLEAN
    BY <2>2 DEF Answers, Answer
  <2>5. executed' \in Seq(Answer) /\ queue' \in Seq(Message)
    BY <2>3, <2>4, MessageShape, AppendProperties
  <2>6. /\ toAgent' = [toAgent EXCEPT ![wsi] = Tail(@)]
        /\ UNCHANGED <<made, wsi, intact, toServer>>
    BY <1>7 DEF AgentReceive
  <2> QED BY <2>1, <2>2, <2>5, <2>6
<1>8. CASE FlushOne
  <2>1. wsi \in Conn /\ Head(queue) \in Message /\ queue' \in Seq(Message)
    BY <1>8, WsiConn, HeadTailProperties DEF FlushOne
  <2>2. Append(toServer[wsi], Head(queue)) \in Seq(Message)
    BY <2>1, AppendProperties
  <2>3. toServer' \in [Conn -> Seq(Message)]
    BY <1>8, <2>1, <2>2 DEF FlushOne, Written
  <2> QED BY <1>8, <2>1, <2>3 DEF FlushOne
<1>9. CASE AgentExit
  <2>1. queue' = <<>> /\ wsi' = 0 /\ intact' \subseteq intact
        /\ UNCHANGED <<made, toServer, executed>>
    BY <1>9 DEF AgentExit
  <2>2. toAgent' \in [Conn -> Seq(Id)]
    BY <1>9, WsiConn DEF AgentExit
  <2>3. <<>> \in Seq(Message)
    OBVIOUS
  <2> QED BY <2>1, <2>2, <2>3
<1>10. CASE Break
  BY <1>10 DEF Break, agentVars
<1>11. CASE UNCHANGED <<wsi, queue, netVars, executed>>
  BY <1>11 DEF netVars
<1> QED BY <1>1, <1>2, <1>3, <1>4, <1>5, <1>6, <1>7, <1>8, <1>9, <1>10, <1>11
        DEF Next, Press, Dispatch, Send, SendCommand, SendRefused, DispatchLocal, Server,
            Client, WaitCancelled, TickOnlineStatus, vars, agentVars

LEMMA TypedStep == Typed /\ [Next]_vars => Typed'
BY StoreStep, ServerStep, AgentStep DEF Typed

LEMMA InitTyped == Init => Flags /\ Typed
<1> SUFFICES ASSUME Init PROVE Flags /\ Typed
  OBVIOUS
<1>1. Flags
  BY DEF Init, Flags
<1>2. StoreTyped
  <2>1. activities = <<>> /\ kinds = <<>> /\ dispatching = 0
    BY DEF Init, None
  <2> QED BY <2>1 DEF StoreTyped
<1>3. ServerTyped
  BY DEF Init, ServerTyped
<1>4. AgentTyped
  <2>1. queue = <<>> /\ executed = <<>> /\ wsi = 0 /\ made = 0 /\ intact = {}
    BY DEF Init, None
  <2>2. toServer \in [Conn -> Seq(Message)] /\ toAgent \in [Conn -> Seq(Id)]
    BY DEF Init
  <2> QED BY <2>1, <2>2 DEF AgentTyped
<1> QED BY <1>1, <1>2, <1>3, <1>4 DEF Typed

(* The types of both ends and of what is between them; the list of         *)
(* activities never outgrows its limit (activity_store.cpp begin).         *)
THEOREM AlwaysTyped == Spec => []TypeOK
BY InitTyped, FlagsStep, TypedStep, TypesAre, PTL DEF Spec

-----------------------------------------------------------------------------
(* One line to the agent.                                                  *)

\* Only the agent's own connection carries anything to it; a session that is
\* not there holds nothing.
OneLine ==
  /\ intact \subseteq {wsi}
  /\ \A c \in Conn : c # wsi => toAgent[c] = <<>>
  /\ \A c \in Conn : c \notin sessions => pendingTx[c] = <<>>

LEMMA OneLineStep == Typed /\ OneLine /\ [Next]_vars => OneLine'
<1> SUFFICES ASSUME Typed, OneLine, [Next]_vars PROVE OneLine'
  OBVIOUS
<1> USE DEF Typed, ServerTyped, AgentTyped, OneLine, None
<1>1. ASSUME NEW c \in Conn, SendCommand(c) PROVE OneLine'
  <2>1. c \in sessions
    BY <1>1 DEF SendCommand
  <2>2. /\ UNCHANGED <<intact, wsi, toAgent, sessions>>
        /\ pendingTx' = [pendingTx EXCEPT ![c] = Append(@, dispatching)]
    BY <1>1 DEF SendCommand, agentVars, netVars
  <2> QED BY <2>1, <2>2
<1>2. ASSUME NEW c \in Conn, ServerClosed(c) PROVE OneLine'
  BY <1>2 DEF ServerClosed, agentVars
<1>3. ASSUME NEW c \in Conn, ServerWriteable(c) PROVE OneLine'
  <2>1. c \in sessions
    BY <1>3 DEF ServerWriteable
  <2>2. /\ UNCHANGED <<intact, wsi, sessions>>
        /\ pendingTx' = [pendingTx EXCEPT ![c] = Tail(@)]
        /\ c \in intact \/ toAgent' = toAgent
        /\ toAgent' \in {toAgent, [toAgent EXCEPT ![c] = Append(@, Head(pendingTx[c]))]}
    BY <1>3 DEF ServerWriteable, agentVars, Written
  <2> QED BY <2>1, <2>2
<1>4. ASSUME NEW c \in Conn, Established(c) PROVE OneLine'
  <2>1. /\ wsi = 0 /\ c = made + 1 /\ wsi' = c /\ intact' = intact \cup {c}
        /\ sessions' = sessions \cup {c} /\ UNCHANGED <<toAgent, pendingTx>>
    BY <1>4 DEF Established
  <2>2. intact = {}
    BY <2>1
  <2>3. \A d \in Conn : toAgent[d] = <<>>
    BY <2>1 DEF Conn
  <2> QED BY <2>1, <2>2, <2>3
<1>5. CASE AgentClosed
  BY <1>5, WsiConn DEF AgentClosed, serverVars
<1>6. CASE AgentReceive
  BY <1>6, WsiConn DEF AgentReceive, serverVars
<1>7. CASE AgentExit
  <2>1. /\ wsi' = 0 /\ intact' = {} /\ UNCHANGED <<sessions, pendingTx>>
        /\ toAgent' = IF wsi = 0 THEN toAgent ELSE [toAgent EXCEPT ![wsi] = <<>>]
    BY <1>7 DEF AgentExit, serverVars
  <2>2. CASE wsi = 0
    <3>1. \A d \in Conn : toAgent'[d] = <<>>
      BY <2>1, <2>2 DEF Conn
    <3> QED BY <2>1, <3>1
  <2>3. CASE wsi # 0
    <3>1. \A d \in Conn : toAgent'[d] = <<>>
      BY <2>1, <2>3, WsiConn
    <3> QED BY <2>1, <3>1
  <2> QED BY <2>2, <2>3
<1>8. CASE Break
  BY <1>8 DEF Break, agentVars, serverVars
<1>9. CASE UNCHANGED <<wsi, intact, toAgent, sessions, pendingTx>>
  BY <1>9
<1> QED BY <1>1, <1>2, <1>3, <1>4, <1>5, <1>6, <1>7, <1>8, <1>9
        DEF Next, Press, Dispatch, Send, SendRefused, DispatchLocal, Server, Client,
            ServerReceive, WaitCancelled, FlushOne, Collect, TickOnlineStatus, vars, agentVars,
            netVars, serverVars

-----------------------------------------------------------------------------
(* Where commands are.                                                     *)

Done == {executed[k].id : k \in DOMAIN executed}

\* Commands that were put into a session, as far as they are still anywhere.
Sent == Done \cup UNION {ToSet(toAgent[c]) \cup ToSet(pendingTx[c]) : c \in Conn}

\* They are commands for the agent, and older than the one being dispatched.
SentEarlier ==
  /\ dispatching \in {None, Len(kinds)}
  /\ \A id \in Sent : id \in 1..Len(kinds) /\ id # dispatching /\ kinds[id] = "agent"

\* What the actions do to the set of them.
LEMMA SentStep ==
  ASSUME Typed, [Next]_vars
  PROVE  \/ Sent' \subseteq Sent
         \/ /\ dispatching # None /\ kinds[dispatching] = "agent"
            /\ dispatching' = None /\ kinds' = kinds
            /\ Sent' \subseteq Sent \cup {dispatching}
<1> USE DEF Typed, ServerTyped, AgentTyped, None
<1>1. ASSUME NEW c \in Conn, SendCommand(c)
      PROVE  /\ dispatching # None /\ kinds[dispatching] = "agent"
             /\ dispatching' = None /\ kinds' = kinds
             /\ Sent' \subseteq Sent \cup {dispatching}
  <2>1. dispatching \in Id
    BY <1>1 DEF SendCommand, StoreTyped, Id
  <2>2. ToSet(Append(pendingTx[c], dispatching)) = ToSet(pendingTx[c]) \cup {dispatching}
    BY <2>1, AppendSet
  <2>3. /\ UNCHANGED <<executed, toAgent>>
        /\ pendingTx' = [pendingTx EXCEPT ![c] = Append(@, dispatching)]
    BY <1>1 DEF SendCommand, netVars
  <2>4. \A d \in Conn : ToSet(pendingTx'[d]) \subseteq ToSet(pendingTx[d]) \cup {dispatching}
    BY <2>2, <2>3
  <2>5. Sent' \subseteq Sent \cup {dispatching}
    BY <2>3, <2>4 DEF Sent, Done
  <2> QED BY <1>1, <2>5 DEF SendCommand
<1>2. ASSUME NEW c \in Conn, ServerClosed(c) PROVE Sent' \subseteq Sent
  <2>1. /\ UNCHANGED <<executed, toAgent>>
        /\ pendingTx' = [pendingTx EXCEPT ![c] = <<>>]
    BY <1>2 DEF ServerClosed
  <2>2. \A d \in Conn : ToSet(pendingTx'[d]) \subseteq ToSet(pendingTx[d])
    BY <2>1, EmptySet
  <2> QED BY <2>1, <2>2 DEF Sent, Done
<1>3. ASSUME NEW c \in Conn, ServerWriteable(c) PROVE Sent' \subseteq Sent
  <2> DEFINE m == Head(pendingTx[c])
  <2>1. /\ pendingTx[c] # <<>> /\ executed' = executed
        /\ pendingTx' = [pendingTx EXCEPT ![c] = Tail(@)]
        /\ toAgent' \in {toAgent, [toAgent EXCEPT ![c] = Append(@, m)]}
    BY <1>3 DEF ServerWriteable, Written
  <2>2. m \in Id /\ m \in ToSet(pendingTx[c]) /\ ToSet(Tail(pendingTx[c])) \subseteq ToSet(pendingTx[c])
    BY <2>1, HeadTailProperties, HeadTailSet
  <2>3. ToSet(Append(toAgent[c], m)) = ToSet(toAgent[c]) \cup {m}
    BY <2>2, AppendSet
  <2> HIDE DEF m
  <2>4. \A d \in Conn : ToSet(pendingTx'[d]) \subseteq ToSet(pendingTx[d])
    BY <2>1, <2>2
  <2>5. \A d \in Conn : ToSet(toAgent'[d]) \subseteq ToSet(toAgent[d]) \cup ToSet(pendingTx[d])
    BY <2>1, <2>2, <2>3
  <2> QED BY <2>1, <2>4, <2>5 DEF Sent, Done
<1>4. CASE AgentReceive
  <2> DEFINE m == Head(toAgent[wsi])
  <2>1. /\ wsi \in Conn /\ toAgent[wsi] \in Seq(Id) /\ toAgent[wsi] # <<>>
        /\ pendingTx' = pendingTx /\ toAgent' = [toAgent EXCEPT ![wsi] = Tail(@)]
    BY <1>4, WsiConn DEF AgentReceive, serverVars
  <2>2. m \in Id /\ m \in ToSet(toAgent[wsi]) /\ ToSet(Tail(toAgent[wsi])) \subseteq ToSet(toAgent[wsi])
    BY <2>1, HeadTailProperties, HeadTailSet
  <2>3. PICK a \in Answers(m) : executed' = Append(executed, a)
    BY <1>4 DEF AgentReceive
  <2>4. a \in Answer /\ a.id = m
    BY <2>2, <2>3 DEF Answers, Answer
  <2>5. Done' \subseteq Done \cup {m}
    <3>1. ToSet(executed') = ToSet(executed) \cup {a}
      BY <2>3, <2>4, AppendSet
    <3>2. ASSUME NEW k \in DOMAIN executed' PROVE executed'[k].id \in Done \cup {m}
      <4>1. executed'[k] \in ToSet(executed) \cup {a}
        BY <3>1, <3>2 DEF ToSet
      <4> QED BY <2>4, <4>1 DEF Done, ToSet
    <3> QED BY <3>2 DEF Done
  <2> HIDE DEF m
  <2>6. \A d \in Conn : ToSet(toAgent'[d]) \subseteq ToSet(toAgent[d])
    BY <2>1, <2>2
  <2> QED BY <2>1, <2>2, <2>5, <2>6 DEF Sent
<1>5. CASE AgentClosed \/ AgentExit
  <2>1. /\ UNCHANGED <<executed, pendingTx>>
        /\ toAgent' \in {toAgent, [toAgent EXCEPT ![wsi] = <<>>]}
    BY <1>5 DEF AgentClosed, AgentExit, serverVars
  <2>2. \A d \in Conn : ToSet(toAgent'[d]) \subseteq ToSet(toAgent[d])
    BY <2>1, EmptySet
  <2> QED BY <2>1, <2>2 DEF Sent, Done
<1>6. CASE UNCHANGED <<executed, toAgent, pendingTx>>
  BY <1>6 DEF Sent, Done
<1> QED BY <1>1, <1>2, <1>3, <1>4, <1>5, <1>6
        DEF Next, Press, Dispatch, Send, SendRefused, DispatchLocal, Server, Client,
            ServerReceive, Established, WaitCancelled, FlushOne, Collect, TickOnlineStatus,
            Break, vars, agentVars, netVars, serverVars

LEMMA SentEarlierStep == Typed /\ SentEarlier /\ [Next]_vars => SentEarlier'
<1> SUFFICES ASSUME Typed, SentEarlier, [Next]_vars PROVE SentEarlier'
  OBVIOUS
<1> USE DEF None
<1>1. Len(kinds) \in Nat /\ DOMAIN kinds = 1..Len(kinds)
  BY LenProperties DEF Typed, StoreTyped
<1>2. ASSUME NEW kind \in {"agent", "local"}, Press(kind) PROVE SentEarlier'
  <2>1. /\ dispatching = 0 /\ dispatching' = Len(kinds) + 1 /\ kinds' = Append(kinds, kind)
        /\ UNCHANGED <<executed, toAgent, pendingTx>>
    BY <1>2 DEF Press, Dispatch, serverVars, netVars
  <2>2. Len(kinds') = Len(kinds) + 1 /\ \A i \in 1..Len(kinds) : kinds'[i] = kinds[i]
    BY <2>1, AppendProperties DEF Typed, StoreTyped, Kind
  <2>3. Sent' = Sent
    BY <2>1 DEF Sent, Done
  <2> QED BY <1>1, <2>1, <2>2, <2>3 DEF SentEarlier
<1>3. CASE /\ dispatching # None /\ kinds[dispatching] = "agent"
           /\ dispatching' = None /\ kinds' = kinds
           /\ Sent' \subseteq Sent \cup {dispatching}
  BY <1>1, <1>3 DEF SentEarlier
<1>4. CASE Sent' \subseteq Sent /\ kinds' = kinds /\ dispatching' \in {dispatching, None}
  BY <1>1, <1>4 DEF SentEarlier
<1>5. \/ \E kind \in {"agent", "local"} : Press(kind)
      \/ kinds' = kinds /\ dispatching' \in {dispatching, None}
  BY Zenon DEF Next, Send, SendCommand, SendRefused, DispatchLocal, Server, ServerReceive,
      ServerWriteable, Client, Established, AgentClosed, WaitCancelled, AgentReceive, FlushOne,
      Collect, TickOnlineStatus, ServerClosed, AgentExit, Break, vars, storeVars
<1> QED BY <1>2, <1>3, <1>4, <1>5, SentStep

-----------------------------------------------------------------------------
(* Their order.                                                            *)

\* Along the agent's connection: executed, on the way, waiting in the session.
LineOrder ==
  /\ ExecutedInOrder
  /\ \A c \in Conn : c = wsi =>
       /\ Increasing(toAgent[c]) /\ Increasing(pendingTx[c])
       /\ Before(Done, ToSet(toAgent[c]) \cup ToSet(pendingTx[c]))
       /\ Before(ToSet(toAgent[c]), ToSet(pendingTx[c]))

LEMMA Numbers == Seq(Id) \subseteq Seq(Nat) /\ Id \subseteq Nat
<1>1. Id \subseteq Nat
  BY DEF Id
<1> QED BY <1>1, SeqMonotonic

\* A step in which the agent executes nothing, by what it leaves on the line.
LEMMA LineKept ==
  ASSUME LineOrder, UNCHANGED <<executed, wsi>>,
         NEW c \in Conn,
         \A d \in Conn : d # c => toAgent'[d] = toAgent[d] /\ pendingTx'[d] = pendingTx[d],
         c = wsi =>
           /\ Increasing(toAgent'[c]) /\ Increasing(pendingTx'[c])
           /\ Before(Done, ToSet(toAgent'[c]) \cup ToSet(pendingTx'[c]))
           /\ Before(ToSet(toAgent'[c]), ToSet(pendingTx'[c]))
  PROVE  LineOrder'
<1>1. ExecutedInOrder' /\ Done' = Done
  BY DEF LineOrder, ExecutedInOrder, Done
<1>2. ASSUME NEW d \in Conn, d = wsi
      PROVE  /\ Increasing(toAgent'[d]) /\ Increasing(pendingTx'[d])
             /\ Before(Done, ToSet(toAgent'[d]) \cup ToSet(pendingTx'[d]))
             /\ Before(ToSet(toAgent'[d]), ToSet(pendingTx'[d]))
  <2>1. CASE d = c
    BY <1>2, <2>1
  <2>2. CASE d # c
    BY <1>2, <2>2 DEF LineOrder
  <2> QED BY <2>1, <2>2
<1> QED BY <1>1, <1>2 DEF LineOrder

LEMMA LineOrderStep ==
  Typed /\ OneLine /\ SentEarlier /\ LineOrder /\ [Next]_vars => LineOrder'
<1> SUFFICES ASSUME Typed, OneLine, SentEarlier, LineOrder, [Next]_vars PROVE LineOrder'
  OBVIOUS
<1> USE DEF Typed, ServerTyped, AgentTyped, None
<1>1. ASSUME NEW c \in Conn, SendCommand(c) PROVE LineOrder'
  <2>1. /\ UNCHANGED <<executed, toAgent, wsi>>
        /\ pendingTx' = [pendingTx EXCEPT ![c] = Append(@, dispatching)]
        /\ dispatching # 0
    BY <1>1 DEF SendCommand, agentVars, netVars
  <2>2. dispatching \in Id /\ dispatching = Len(kinds) /\ Len(kinds) \in Nat
    BY <2>1, LenProperties DEF StoreTyped, SentEarlier, Id
  <2>3. \A id \in Sent : id < dispatching
    BY <2>2 DEF SentEarlier
  <2>4. /\ ToSet(pendingTx[c]) \subseteq Sent /\ ToSet(toAgent[c]) \subseteq Sent
        /\ Done \subseteq Sent
    BY DEF Sent
  <2>5. CASE c = wsi
    <3>1. Increasing(Append(pendingTx[c], dispatching))
      BY <2>2, <2>3, <2>4, <2>5, IncreasingAppend, Numbers DEF LineOrder
    <3>2. ToSet(Append(pendingTx[c], dispatching)) = ToSet(pendingTx[c]) \cup {dispatching}
      BY <2>2, AppendSet
    <3>3. /\ Before(Done, ToSet(toAgent[c]) \cup ToSet(Append(pendingTx[c], dispatching)))
          /\ Before(ToSet(toAgent[c]), ToSet(Append(pendingTx[c], dispatching)))
      BY <2>3, <2>4, <2>5, <3>2 DEF LineOrder, Before
    <3>4. pendingTx'[c] = Append(pendingTx[c], dispatching)
      BY <2>1
    <3> QED BY <2>1, <2>5, <3>1, <3>3, <3>4 DEF LineOrder, ExecutedInOrder, Done
  <2>6. CASE c # wsi
    <3>1. \A d \in Conn : d = wsi => pendingTx'[d] = pendingTx[d]
      BY <2>1, <2>6
    <3> QED BY <2>1, <3>1 DEF LineOrder, ExecutedInOrder, Done
  <2> QED BY <2>5, <2>6
<1>2. ASSUME NEW c \in Conn, ServerClosed(c) PROVE LineOrder'
  <2>1. /\ UNCHANGED <<executed, toAgent, wsi>>
        /\ pendingTx' = [pendingTx EXCEPT ![c] = <<>>]
    BY <1>2 DEF ServerClosed, agentVars
  <2>2. Increasing(<<>>) /\ ToSet(<<>>) = {}
    BY EmptySet DEF Increasing
  <2>3. /\ pendingTx'[c] = <<>> /\ toAgent'[c] = toAgent[c]
        /\ \A d \in Conn : d # c => toAgent'[d] = toAgent[d] /\ pendingTx'[d] = pendingTx[d]
    BY <2>1
  <2>4. ASSUME c = wsi
        PROVE  /\ Increasing(toAgent'[c]) /\ Increasing(pendingTx'[c])
               /\ Before(Done, ToSet(toAgent'[c]) \cup ToSet(pendingTx'[c]))
               /\ Before(ToSet(toAgent'[c]), ToSet(pendingTx'[c]))
    BY <2>2, <2>3, <2>4 DEF LineOrder, Before
  <2>5. UNCHANGED <<executed, wsi>>
    BY <2>1
  <2> QED BY <2>3, <2>4, <2>5, LineKept
<1>3. ASSUME NEW c \in Conn, ServerWriteable(c) PROVE LineOrder'
  <2> DEFINE m == Head(pendingTx[c])
             rest == Tail(pendingTx[c])
  <2>1. /\ pendingTx[c] # <<>> /\ UNCHANGED <<executed, wsi>>
        /\ pendingTx' = [pendingTx EXCEPT ![c] = rest]
        /\ toAgent' \in {toAgent, [toAgent EXCEPT ![c] = Append(@, m)]}
    BY <1>3 DEF ServerWriteable, Written, agentVars
  <2>2. m \in Id /\ m \in ToSet(pendingTx[c]) /\ ToSet(rest) \subseteq ToSet(pendingTx[c])
    BY <2>1, HeadTailProperties, HeadTailSet
  <2>3. ASSUME c = wsi
        PROVE  /\ Increasing(toAgent'[c]) /\ Increasing(pendingTx'[c])
               /\ Before(Done, ToSet(toAgent'[c]) \cup ToSet(pendingTx'[c]))
               /\ Before(ToSet(toAgent'[c]), ToSet(pendingTx'[c]))
    <3>1. /\ Increasing(toAgent[c]) /\ Increasing(pendingTx[c])
          /\ Before(Done, ToSet(toAgent[c]) \cup ToSet(pendingTx[c]))
          /\ Before(ToSet(toAgent[c]), ToSet(pendingTx[c]))
      BY <2>3 DEF LineOrder
    <3>2. pendingTx[c] \in Seq(Nat) /\ toAgent[c] \in Seq(Nat) /\ m \in Nat
      BY <2>2, Numbers
    <3>3. Increasing(rest) /\ \A x \in ToSet(rest) : m < x
      BY <2>1, <3>1, <3>2, IncreasingTail
    <3>4. ToSet(Append(toAgent[c], m)) = ToSet(toAgent[c]) \cup {m}
      BY <2>2, AppendSet
    <3>5. Increasing(Append(toAgent[c], m))
      BY <2>2, <3>1, <3>2, IncreasingAppend DEF Before
    <3>6. pendingTx'[c] = rest /\ toAgent'[c] \in {toAgent[c], Append(toAgent[c], m)}
      BY <2>1
    <3> HIDE DEF m, rest
    <3>7. /\ Increasing(toAgent'[c]) /\ Increasing(pendingTx'[c])
          /\ Before(Done, ToSet(toAgent'[c]) \cup ToSet(pendingTx'[c]))
          /\ Before(ToSet(toAgent'[c]), ToSet(pendingTx'[c]))
      <4>1. ToSet(toAgent'[c]) \subseteq ToSet(toAgent[c]) \cup {m}
        BY <3>4, <3>6
      <4> QED BY <2>2, <3>1, <3>3, <3>5, <3>6, <4>1 DEF Before
    <3> QED BY <3>7
  <2>4. /\ UNCHANGED <<executed, wsi>>
        /\ \A d \in Conn : d # c => toAgent'[d] = toAgent[d] /\ pendingTx'[d] = pendingTx[d]
    BY <2>1
  <2> QED BY <2>3, <2>4, LineKept
<1>4. ASSUME NEW c \in Conn, Established(c) PROVE LineOrder'
  <2>1. /\ wsi = 0 /\ c = made + 1 /\ wsi' = c /\ UNCHANGED <<executed, toAgent, pendingTx>>
    BY <1>4 DEF Established
  <2>2. toAgent[c] = <<>> /\ pendingTx[c] = <<>>
    BY <2>1 DEF OneLine, Conn
  <2>3. Increasing(<<>>) /\ ToSet(<<>>) = {}
    BY EmptySet DEF Increasing
  <2> QED BY <2>1, <2>2, <2>3 DEF LineOrder, ExecutedInOrder, Done, Before
<1>5. CASE AgentReceive
  <2> DEFINE m == Head(toAgent[wsi])
             rest == Tail(toAgent[wsi])
  <2>1. /\ wsi \in Conn /\ toAgent[wsi] \in Seq(Id) /\ toAgent[wsi] # <<>>
        /\ UNCHANGED <<wsi, pendingTx>> /\ toAgent' = [toAgent EXCEPT ![wsi] = rest]
    BY <1>5, WsiConn DEF AgentReceive, serverVars
  <2>2. m \in Id /\ m \in ToSet(toAgent[wsi]) /\ ToSet(rest) \subseteq ToSet(toAgent[wsi])
    BY <2>1, HeadTailProperties, HeadTailSet
  <2>3. PICK a \in Answers(m) : executed' = Append(executed, a)
    BY <1>5 DEF AgentReceive
  <2>4. a \in Answer /\ a.id = m
    BY <2>2, <2>3 DEF Answers, Answer
  <2>5. /\ Increasing(toAgent[wsi]) /\ Increasing(pendingTx[wsi])
        /\ Before(Done, ToSet(toAgent[wsi]) \cup ToSet(pendingTx[wsi]))
        /\ Before(ToSet(toAgent[wsi]), ToSet(pendingTx[wsi]))
    BY <2>1 DEF LineOrder
  <2>6. Increasing(rest) /\ \A x \in ToSet(rest) : m < x
    BY <2>1, <2>5, Numbers, IncreasingTail
  <2>7. /\ Len(executed) \in Nat /\ DOMAIN executed = 1..Len(executed)
        /\ DOMAIN executed' = 1..(Len(executed) + 1)
        /\ \A i \in 1..Len(executed) : executed'[i] = executed[i]
        /\ executed'[Len(executed) + 1].id = m
    BY <2>3, <2>4, LenProperties, AppendProperties
  <2> HIDE DEF m, rest
  <2>8. \A i \in DOMAIN executed : executed[i].id < m
    BY <2>2, <2>5 DEF Before, Done
  <2>9. ExecutedInOrder'
    <3> SUFFICES ASSUME NEW i \in DOMAIN executed', NEW j \in DOMAIN executed', i < j
                 PROVE  executed'[i].id < executed'[j].id
      BY DEF ExecutedInOrder
    <3>1. i \in DOMAIN executed /\ executed'[i] = executed[i]
      BY <2>7
    <3>2. CASE j \in DOMAIN executed
      BY <2>7, <3>1, <3>2 DEF LineOrder, ExecutedInOrder
    <3>3. CASE j = Len(executed) + 1
      BY <2>7, <2>8, <3>1, <3>3
    <3> QED BY <2>7, <3>2, <3>3
  <2>10. Done' \subseteq Done \cup {m}
    <3>1. \A k \in DOMAIN executed' : executed'[k].id \in Done \cup {m}
      BY <2>7 DEF Done
    <3> QED BY <3>1 DEF Done
  <2>11. /\ Before(Done', ToSet(rest) \cup ToSet(pendingTx[wsi]))
         /\ Before(ToSet(rest), ToSet(pendingTx[wsi]))
    BY <2>2, <2>5, <2>6, <2>10 DEF Before
  <2>12. toAgent'[wsi] = rest
    BY <2>1
  <2> QED BY <2>1, <2>5, <2>6, <2>9, <2>11, <2>12 DEF LineOrder
<1>6. CASE AgentClosed \/ AgentExit
  <2>1. wsi' = 0 /\ executed' = executed
    BY <1>6 DEF AgentClosed, AgentExit
  <2> QED BY <2>1 DEF LineOrder, ExecutedInOrder, Conn
<1>7. CASE UNCHANGED <<executed, wsi, toAgent, pendingTx>>
  BY <1>7 DEF LineOrder, ExecutedInOrder, Done
<1> QED BY <1>1, <1>2, <1>3, <1>4, <1>5, <1>6, <1>7
        DEF Next, Press, Dispatch, Send, SendRefused, DispatchLocal, Server, Client,
            ServerReceive, WaitCancelled, FlushOne, Collect, TickOnlineStatus, Break, vars,
            agentVars, netVars, serverVars

-----------------------------------------------------------------------------
(* Answers.                                                                *)

\* What is on its way to the server, or waits for it in the agent's queue.
Said == ToSet(queue) \cup UNION {ToSet(toServer[c]) : c \in Conn}

\* A result says what the agent did.
ResultsTrue ==
  \A m \in Said : m.type = "cmd_result" => [id |-> m.id, ok |-> m.ok] \in ToSet(executed)

\* What the agent has done stays done.
LEMMA ExecutedGrows ==
  ASSUME Typed, [Next]_vars
  PROVE  ToSet(executed) \subseteq ToSet(executed')
<1>1. CASE AgentReceive
  <2>1. /\ wsi \in Conn /\ toAgent[wsi] \in Seq(Id) /\ toAgent[wsi] # <<>>
        /\ executed \in Seq(Answer)
    BY <1>1, WsiConn DEF AgentReceive, Typed, AgentTyped
  <2>2. PICK a \in Answers(Head(toAgent[wsi])) : executed' = Append(executed, a)
    BY <1>1 DEF AgentReceive
  <2>3. Head(toAgent[wsi]) \in Id
    BY <2>1, HeadTailProperties
  <2>4. a \in Answer
    BY <2>3 DEF Answers, Answer
  <2> QED BY <2>1, <2>2, <2>4, AppendSet
<1>2. CASE executed' = executed
  BY <1>2
<1> QED BY <1>1, <1>2
        DEF Next, Press, Dispatch, Send, SendCommand, SendRefused, DispatchLocal, Server, Client,
            ServerReceive, ServerWriteable, Established, AgentClosed, WaitCancelled, FlushOne,
            Collect, TickOnlineStatus, ServerClosed, AgentExit, Break, vars

LEMMA ResultsStep == Typed /\ ResultsTrue /\ [Next]_vars => ResultsTrue'
<1> SUFFICES ASSUME Typed, ResultsTrue, [Next]_vars PROVE ResultsTrue'
  OBVIOUS
<1> USE DEF Typed, AgentTyped
<1>1. ToSet(executed) \subseteq ToSet(executed')
  BY ExecutedGrows
<1>2. SUFFICES \A m \in Said' : m \in Said \/ m.type # "cmd_result"
                                 \/ [id |-> m.id, ok |-> m.ok] \in ToSet(executed')
  BY <1>1 DEF ResultsTrue
<1>3. ASSUME NEW c \in Conn, ServerReceive(c) PROVE Said' \subseteq Said
  <2>1. /\ toServer[c] # <<>> /\ queue' = queue
        /\ toServer' = [toServer EXCEPT ![c] = Tail(@)]
    BY <1>3 DEF ServerReceive, agentVars
  <2>2. ToSet(Tail(toServer[c])) \subseteq ToSet(toServer[c])
    BY <2>1, HeadTailSet
  <2>3. \A d \in Conn : ToSet(toServer'[d]) \subseteq ToSet(toServer[d])
    BY <2>1, <2>2
  <2> QED BY <2>1, <2>3 DEF Said
<1>4. ASSUME NEW c \in Conn, ServerClosed(c) PROVE Said' \subseteq Said
  <2>1. queue' = queue /\ toServer' = [toServer EXCEPT ![c] = <<>>]
    BY <1>4 DEF ServerClosed, agentVars
  <2>2. \A d \in Conn : ToSet(toServer'[d]) \subseteq ToSet(toServer[d])
    BY <2>1, EmptySet
  <2> QED BY <2>1, <2>2 DEF Said
<1>5. ASSUME NEW h \in {Hello, Metrics}, queue' = Append(queue, h), toServer' = toServer
      PROVE  Said' \subseteq Said \cup {h} /\ h.type # "cmd_result"
  <2>1. h \in Message /\ h.type # "cmd_result"
    BY MessageShape
  <2>2. ToSet(queue') = ToSet(queue) \cup {h}
    BY <1>5, <2>1, AppendSet
  <2> QED BY <1>5, <2>1, <2>2 DEF Said
<1>6. ASSUME NEW c \in Conn, Established(c)
      PROVE  Said' \subseteq Said \cup {Hello} /\ Hello.type # "cmd_result"
  BY <1>5, <1>6 DEF Established
<1>7. CASE Collect
  BY <1>5, <1>7 DEF Collect, netVars
<1>8. CASE AgentReceive
  <2>1. wsi \in Conn /\ toAgent[wsi] \in Seq(Id) /\ toAgent[wsi] # <<>> /\ toServer' = toServer
    BY <1>8, WsiConn DEF AgentReceive
  <2>2. PICK a \in Answers(Head(toAgent[wsi])) :
          executed' = Append(executed, a) /\ queue' = Append(queue, Result(a.id, a.ok))
    BY <1>8 DEF AgentReceive
  <2>3. Head(toAgent[wsi]) \in Id
    BY <2>1, HeadTailProperties
  <2>4. a \in Answer /\ a.id \in Id /\ a.ok \in BOOLEAN /\ a = [id |-> a.id, ok |-> a.ok]
    BY <2>3 DEF Answers, Answer
  <2> DEFINE r == Result(a.id, a.ok)
  <2>5. r \in Message /\ r.id = a.id /\ r.ok = a.ok
    BY <2>4, MessageShape
  <2>6. ToSet(executed') = ToSet(executed) \cup {a} /\ ToSet(queue') = ToSet(queue) \cup {r}
    BY <2>2, <2>4, <2>5, AppendSet
  <2>7. Said' \subseteq Said \cup {r}
    BY <2>1, <2>6 DEF Said
  <2> HIDE DEF r
  <2> QED BY <2>4, <2>5, <2>6, <2>7
<1>9. CASE FlushOne
  <2> DEFINE m == Head(queue)
  <2>1. /\ wsi \in Conn /\ queue # <<>> /\ queue' = Tail(queue)
        /\ toServer' \in {toServer, [toServer EXCEPT ![wsi] = Append(@, m)]}
    BY <1>9, WsiConn DEF FlushOne, Written
  <2>2. m \in Message /\ m \in ToSet(queue) /\ ToSet(Tail(queue)) \subseteq ToSet(queue)
    BY <2>1, HeadTailProperties, HeadTailSet
  <2>3. ToSet(Append(toServer[wsi], m)) = ToSet(toServer[wsi]) \cup {m}
    BY <2>1, <2>2, AppendSet
  <2> HIDE DEF m
  <2>4. \A d \in Conn : ToSet(toServer'[d]) \subseteq ToSet(toServer[d]) \cup {m}
    BY <2>1, <2>3
  <2> QED BY <2>1, <2>2, <2>4 DEF Said
<1>10. CASE AgentExit
  <2>1. queue' = <<>> /\ toServer' = toServer
    BY <1>10 DEF AgentExit
  <2> QED BY <2>1, EmptySet DEF Said
<1>11. CASE UNCHANGED <<queue, toServer>>
  BY <1>11 DEF Said
<1> QED BY <1>3, <1>4, <1>6, <1>7, <1>8, <1>9, <1>10, <1>11
        DEF Next, Press, Dispatch, Send, SendCommand, SendRefused, DispatchLocal, Server, Client,
            ServerWriteable, AgentClosed, WaitCancelled, TickOnlineStatus, Break, vars,
            agentVars, netVars

-----------------------------------------------------------------------------
(* The list of activities.                                                 *)

ActivitiesOfCommands ==
  /\ \A i, j \in DOMAIN activities : i < j => activities[i].id > activities[j].id
  /\ \A i \in DOMAIN activities :
       /\ activities[i].id <= Len(kinds)
       /\ activities[i].id = dispatching => activities[i].state = "Pending"

\* How the list changes: a command is added, or one is completed, which is the
\* one under dispatch, refused or local, or one the agent has executed.
LEMMA ActivitiesChange ==
  ASSUME Typed, ResultsTrue, [Next]_vars
  PROVE  \/ \E kind \in {"agent", "local"} : Press(kind)
         \/ /\ kinds' = kinds /\ dispatching' \in {dispatching, None}
            /\ \/ activities' = activities
               \/ \E id \in Id, ok \in BOOLEAN :
                    /\ activities' = Completed(id, ok)
                    /\ \/ /\ id = dispatching /\ dispatching' = None
                          /\ UNCHANGED <<executed, toAgent, pendingTx>>
                          /\ kinds[id] = "local" \/ ok = FALSE
                       \/ [id |-> id, ok |-> ok] \in ToSet(executed)
<1>1. dispatching # None => dispatching \in Id
  BY LenProperties DEF Typed, StoreTyped, Id, None
<1>2. CASE DispatchLocal \/ SendRefused
  BY <1>1, <1>2 DEF DispatchLocal, SendRefused, serverVars, netVars
<1>3. ASSUME NEW c \in Conn, ServerReceive(c)
      PROVE  /\ kinds' = kinds /\ dispatching' = dispatching
             /\ \/ activities' = activities
                \/ \E id \in Id, ok \in BOOLEAN : /\ activities' = Completed(id, ok)
                                                  /\ [id |-> id, ok |-> ok] \in ToSet(executed)
  <2> DEFINE m == Head(toServer[c])
  <2>1. toServer[c] \in Seq(Message) /\ toServer[c] # <<>>
    BY <1>3 DEF ServerReceive, Typed, AgentTyped
  <2>2. m \in Message /\ m \in Said
    BY <2>1, HeadTailProperties, HeadTailSet DEF Said
  <2>3. /\ kinds' = kinds /\ dispatching' = dispatching
        /\ activities' = IF m.type = "cmd_result" THEN Completed(m.id, m.ok) ELSE activities
    BY <1>3 DEF ServerReceive
  <2> HIDE DEF m
  <2>4. CASE m.type = "cmd_result"
    <3>1. [id |-> m.id, ok |-> m.ok] \in ToSet(executed) /\ m.id \in Id /\ m.ok \in BOOLEAN
      BY <2>2, <2>4, MessageShape DEF ResultsTrue, Answer
    <3> QED BY <2>3, <2>4, <3>1
  <2> QED BY <2>3, <2>4
<1>4. CASE UNCHANGED <<activities, kinds>> /\ dispatching' \in {dispatching, None}
  BY <1>4
<1> QED BY <1>2, <1>3, <1>4
        DEF Next, Send, SendCommand, Server, ServerWriteable, Client, Established, AgentClosed,
            WaitCancelled, AgentReceive, FlushOne, Collect, TickOnlineStatus, ServerClosed,
            AgentExit, Break, vars, storeVars

\* The commands of the list after one was pressed are those before, moved up.
LEMMA PressedList ==
  ASSUME Typed, NEW kind \in {"agent", "local"}, Press(kind)
  PROVE  /\ Len(kinds) \in Nat /\ dispatching = None /\ dispatching' = Len(kinds) + 1
         /\ Len(kinds') = Len(kinds) + 1 /\ \A i \in 1..Len(kinds) : kinds'[i] = kinds[i]
         /\ \A j \in DOMAIN activities' :
              \/ activities'[j] = [id |-> Len(kinds) + 1, state |-> "Pending"] /\ j = 1
              \/ j - 1 \in DOMAIN activities /\ activities'[j] = activities[j - 1]
         /\ DOMAIN activities' \subseteq Nat
<1>1. Len(kinds) \in Nat /\ Len(kinds) + 1 \in Id
  BY LenProperties DEF Press, Dispatch, Id, Typed, StoreTyped
<1>2. /\ activities' = Listed(Len(kinds) + 1) /\ kinds' = Append(kinds, kind)
      /\ dispatching = None /\ dispatching' = Len(kinds) + 1
  BY DEF Press, Dispatch
<1>3. Len(kinds') = Len(kinds) + 1 /\ \A i \in 1..Len(kinds) : kinds'[i] = kinds[i]
  BY <1>2, AppendProperties DEF Typed, StoreTyped, Kind
<1>4. activities \in Seq(Activity) /\ Len(activities) \in Nat /\ DOMAIN activities = 1..Len(activities)
  BY LenProperties DEF Typed, StoreTyped
<1>5. /\ DOMAIN activities' \subseteq 1..(Len(activities) + 1)
      /\ \A j \in DOMAIN activities' :
           activities'[j] = IF j = 1 THEN [id |-> Len(kinds) + 1, state |-> "Pending"]
                            ELSE activities[j - 1]
  BY <1>1, <1>2, <1>4, ListedShape
<1>6. ASSUME NEW j \in DOMAIN activities', j # 1 PROVE j - 1 \in DOMAIN activities
  BY <1>4, <1>5, <1>6
<1>7. DOMAIN activities' \subseteq Nat
  BY <1>4, <1>5
<1> QED BY <1>1, <1>2, <1>3, <1>5, <1>6, <1>7

\* The activities are those of commands, and there are finitely many.
LEMMA ActivityIds ==
  ASSUME Typed
  PROVE  /\ activities \in Seq(Activity) /\ Len(kinds) \in Nat
         /\ DOMAIN activities \subseteq Nat
         /\ \A i \in DOMAIN activities :
              /\ activities[i] \in Activity /\ activities[i].id \in Id
              /\ activities[i].id \in Nat /\ activities[i].id # None
<1>1. activities \in Seq(Activity) /\ kinds \in Seq(Kind)
  BY DEF Typed, StoreTyped
<1>2. DOMAIN activities = 1..Len(activities) /\ Len(activities) \in Nat /\ Len(kinds) \in Nat
  BY <1>1, LenProperties
<1>3. \A i \in DOMAIN activities : activities[i] \in Activity
  BY <1>1, <1>2, ElementOfSeq
<1>4. \A a \in Activity : a.id \in Id
  BY DEF Activity
<1>5. \A id \in Id : id \in Nat /\ id # None
  BY DEF Id, None
<1> QED BY <1>1, <1>2, <1>3, <1>4, <1>5

LEMMA ActivitiesStep ==
  Typed /\ SentEarlier /\ ResultsTrue /\ ActivitiesOfCommands /\ [Next]_vars
    => ActivitiesOfCommands'
<1> SUFFICES ASSUME Typed, SentEarlier, ResultsTrue, ActivitiesOfCommands, [Next]_vars
             PROVE  ActivitiesOfCommands'
  OBVIOUS
<1>1. /\ activities \in Seq(Activity) /\ Len(kinds) \in Nat
      /\ DOMAIN activities \subseteq Nat
      /\ \A i \in DOMAIN activities : activities[i].id \in Nat /\ activities[i].id # None
  BY ActivityIds
<1>2. ASSUME NEW kind \in {"agent", "local"}, Press(kind) PROVE ActivitiesOfCommands'
  <2> DEFINE new == [id |-> Len(kinds) + 1, state |-> "Pending"]
  <2>1. /\ dispatching' = Len(kinds) + 1 /\ Len(kinds') = Len(kinds) + 1
        /\ DOMAIN activities' \subseteq Nat
        /\ \A j \in DOMAIN activities' :
             \/ activities'[j] = new /\ j = 1
             \/ j - 1 \in DOMAIN activities /\ activities'[j] = activities[j - 1]
    BY <1>2, PressedList
  <2>2. new.id = Len(kinds) + 1 /\ new.state = "Pending"
    OBVIOUS
  <2> HIDE DEF new
  <2>3. ASSUME NEW i \in DOMAIN activities', NEW j \in DOMAIN activities', i < j
        PROVE  activities'[i].id > activities'[j].id
    <3>1. i \in Nat /\ j \in Nat
      BY <2>1
    <3>2. j - 1 \in DOMAIN activities /\ activities'[j] = activities[j - 1]
      <4>1. CASE j = 1
        <5>1. i - 1 \in DOMAIN activities \/ i = 1
          BY <2>1
        <5> QED BY <1>1, <2>3, <3>1, <4>1, <5>1
      <4> QED BY <2>1, <4>1
    <3>3. CASE activities'[i] = new
      BY <1>1, <2>2, <3>2, <3>3 DEF ActivitiesOfCommands
    <3>4. CASE i - 1 \in DOMAIN activities /\ activities'[i] = activities[i - 1]
      <4>1. i - 1 < j - 1
        BY <2>3, <3>1
      <4> QED BY <3>2, <3>4, <4>1 DEF ActivitiesOfCommands
    <3> QED BY <2>1, <3>3, <3>4
  <2>4. ASSUME NEW j \in DOMAIN activities'
        PROVE  /\ activities'[j].id <= Len(kinds')
               /\ activities'[j].id = dispatching' => activities'[j].state = "Pending"
    <3>1. CASE activities'[j] = new
      BY <1>1, <2>1, <2>2, <3>1
    <3>2. CASE j - 1 \in DOMAIN activities /\ activities'[j] = activities[j - 1]
      <4>1. activities[j - 1].id \in Nat /\ activities[j - 1].id <= Len(kinds)
        BY <1>1, <3>2 DEF ActivitiesOfCommands
      <4> QED BY <1>1, <2>1, <3>2, <4>1
    <3> QED BY <2>1, <3>1, <3>2
  <2> QED BY <2>3, <2>4 DEF ActivitiesOfCommands
<1>3. ASSUME NEW id \in Id, NEW ok \in BOOLEAN, activities' = Completed(id, ok), kinds' = kinds,
             id # dispatching', dispatching' \in {dispatching, None}
      PROVE  ActivitiesOfCommands'
  <2>1. /\ DOMAIN activities' = DOMAIN activities
        /\ \A i \in DOMAIN activities :
             /\ activities'[i].id = activities[i].id
             /\ activities'[i].state =
                  IF activities[i].id = id THEN Verdict(ok) ELSE activities[i].state
    BY <1>1, <1>3, CompletedShape
  <2>2. dispatching' = None => \A i \in DOMAIN activities : activities[i].id # dispatching'
    BY <1>1
  <2> QED BY <1>3, <2>1, <2>2 DEF ActivitiesOfCommands
<1>4. CASE activities' = activities /\ kinds' = kinds /\ dispatching' \in {dispatching, None}
  BY <1>1, <1>4 DEF ActivitiesOfCommands
<1>5. ASSUME NEW id \in Id, NEW ok \in BOOLEAN, [id |-> id, ok |-> ok] \in ToSet(executed)
      PROVE  id \in Sent
  BY <1>5 DEF Sent, Done, ToSet
<1>6. \A id \in Id : id # None
  BY DEF Id, None
<1> QED BY <1>2, <1>3, <1>4, <1>5, <1>6, ActivitiesChange DEF SentEarlier

-----------------------------------------------------------------------------
(* What the list says.                                                     *)

\* The answer to a command, if there is one, is that of the agent, or it was
\* refused and is nowhere.
Told(id, state, kind, answers, sent) ==
  (kind = "agent" /\ state # "Pending") =>
    \/ \E x \in answers : x.id = id /\ Verdict(x.ok) = state
    \/ state = "Failed" /\ id \notin sent

AllTold ==
  \A i \in DOMAIN activities :
    Told(activities[i].id, activities[i].state, kinds[activities[i].id], ToSet(executed), Sent)

\* An answer that was right stays right.
LEMMA ToldStays ==
  ASSUME Typed, [Next]_vars, NEW id \in 1..Len(kinds), NEW state,
         id = dispatching => state = "Pending",
         Told(id, state, kinds[id], ToSet(executed), Sent)
  PROVE  Told(id, state, kinds'[id], ToSet(executed'), Sent')
<1>1. kinds'[id] = kinds[id]
  <2>1. CASE \E kind \in {"agent", "local"} : Press(kind)
    BY <2>1, PressedList
  <2>2. CASE kinds' = kinds
    BY <2>2
  <2> QED BY <2>1, <2>2
      DEF Next, Send, SendCommand, SendRefused, DispatchLocal, Server, ServerReceive,
          ServerWriteable, Client, Established, AgentClosed, WaitCancelled, AgentReceive,
          FlushOne, Collect, TickOnlineStatus, ServerClosed, AgentExit, Break, vars, storeVars
<1>2. ToSet(executed) \subseteq ToSet(executed')
  BY ExecutedGrows
<1>3. state # "Pending" /\ id \notin Sent => id \notin Sent'
  BY SentStep
<1> QED BY <1>1, <1>2, <1>3 DEF Told

LEMMA AllToldStep ==
  Typed /\ SentEarlier /\ ResultsTrue /\ ActivitiesOfCommands /\ AllTold /\ [Next]_vars
    => AllTold'
<1> SUFFICES ASSUME Typed, SentEarlier, ResultsTrue, ActivitiesOfCommands, AllTold, [Next]_vars,
                    NEW j \in DOMAIN activities'
             PROVE  Told(activities'[j].id, activities'[j].state, kinds'[activities'[j].id],
                         ToSet(executed'), Sent')
  BY DEF AllTold
<1>1. /\ activities \in Seq(Activity) /\ Len(kinds) \in Nat
      /\ \A i \in DOMAIN activities : activities[i].id \in Id /\ activities[i].id \in 1..Len(kinds)
  BY ActivityIds DEF ActivitiesOfCommands, Id
<1>2. ASSUME NEW i \in DOMAIN activities, activities'[j].id = activities[i].id,
             activities'[j].state = activities[i].state
      PROVE  Told(activities'[j].id, activities'[j].state, kinds'[activities'[j].id],
                  ToSet(executed'), Sent')
  <2> DEFINE n == activities[i].id
             state == activities[i].state
  <2>1. n \in 1..Len(kinds) /\ Told(n, state, kinds[n], ToSet(executed), Sent)
    BY <1>1 DEF AllTold
  <2>2. n = dispatching => state = "Pending"
    BY DEF ActivitiesOfCommands
  <2> HIDE DEF n, state
  <2>3. Told(n, state, kinds'[n], ToSet(executed'), Sent')
    BY <2>1, <2>2, ToldStays
  <2> QED BY <1>2, <2>3 DEF n, state
<1>3. ASSUME NEW kind \in {"agent", "local"}, Press(kind)
      PROVE  Told(activities'[j].id, activities'[j].state, kinds'[activities'[j].id],
                  ToSet(executed'), Sent')
  <2>1. \/ activities'[j] = [id |-> Len(kinds) + 1, state |-> "Pending"]
        \/ j - 1 \in DOMAIN activities /\ activities'[j] = activities[j - 1]
    BY <1>3, PressedList
  <2>2. CASE activities'[j] = [id |-> Len(kinds) + 1, state |-> "Pending"]
    BY <2>2 DEF Told
  <2> QED BY <1>2, <2>1, <2>2
<1>4. CASE activities' = activities
  BY <1>2, <1>4
<1>5. ASSUME NEW id \in Id, NEW ok \in BOOLEAN, activities' = Completed(id, ok), kinds' = kinds,
             \/ /\ id = dispatching
                /\ UNCHANGED <<executed, toAgent, pendingTx>>
                /\ kinds[id] = "local" \/ ok = FALSE
             \/ [id |-> id, ok |-> ok] \in ToSet(executed)
      PROVE  Told(activities'[j].id, activities'[j].state, kinds'[activities'[j].id],
                  ToSet(executed'), Sent')
  <2>1. /\ j \in DOMAIN activities /\ activities'[j].id = activities[j].id
        /\ activities'[j].state =
             IF activities[j].id = id THEN Verdict(ok) ELSE activities[j].state
    BY <1>1, <1>5, CompletedShape
  <2>2. CASE activities[j].id # id
    BY <1>2, <2>1, <2>2
  <2>3. CASE activities[j].id = id /\ [id |-> id, ok |-> ok] \in ToSet(executed)
    <3>1. [id |-> id, ok |-> ok] \in ToSet(executed')
      BY <2>3, ExecutedGrows
    <3> QED BY <2>1, <2>3, <3>1 DEF Told
  <2>4. CASE /\ activities[j].id = id /\ id = dispatching
             /\ UNCHANGED <<executed, toAgent, pendingTx>>
             /\ kinds[id] = "local" \/ ok = FALSE
    <3>1. Sent' = Sent
      BY <2>4 DEF Sent, Done
    <3>2. id \notin Sent
      BY <1>1, <2>1, <2>4 DEF SentEarlier, None
    <3> QED BY <1>5, <2>1, <2>4, <3>1, <3>2 DEF Told, Verdict
  <2> QED BY <1>5, <2>2, <2>3, <2>4
<1> QED BY <1>3, <1>4, <1>5, ActivitiesChange

\* What is underway is not what was told to have failed unsent.
LEMMA ToldIsTrue ==
  ASSUME Typed, SentEarlier, ActivitiesOfCommands, AllTold
  PROVE  AnswersTrue
<1> SUFFICES ASSUME NEW i \in DOMAIN activities, kinds[activities[i].id] = "agent",
                    activities[i].state # "Pending"
             PROVE  LET a == activities[i]
                        done == {k \in DOMAIN executed : executed[k].id = a.id}
                    IN \/ \E k \in done : Verdict(executed[k].ok) = a.state
                       \/ a.state = "Failed" /\ done = {} /\ ~Underway(a.id)
  BY DEF AnswersTrue
<1> DEFINE n == activities[i].id
           state == activities[i].state
<1>1. \/ \E x \in ToSet(executed) : x.id = n /\ Verdict(x.ok) = state
      \/ state = "Failed" /\ n \notin Sent
  BY DEF AllTold, Told
<1>2. dispatching # n
  BY DEF ActivitiesOfCommands
<1>3. sessions \subseteq Conn
  BY DEF Typed, ServerTyped, AgentTyped, Conn
<1> HIDE DEF n, state
<1>4. CASE \E x \in ToSet(executed) : x.id = n /\ Verdict(x.ok) = state
  <2>1. \E k \in DOMAIN executed : executed[k].id = n /\ Verdict(executed[k].ok) = state
    BY <1>4 DEF ToSet
  <2> QED BY <2>1 DEF n, state
<1>5. CASE state = "Failed" /\ n \notin Sent
  <2>1. \A k \in DOMAIN executed : executed[k].id # n
    BY <1>5 DEF Sent, Done
  <2>2. ~Underway(n)
    BY <1>2, <1>3, <1>5 DEF Underway, Sent
  <2> QED BY <1>5, <2>1, <2>2 DEF n, state
<1> QED BY <1>1, <1>4, <1>5

-----------------------------------------------------------------------------
(* The invariant of both.                                                  *)

FlowInv ==
  /\ Typed /\ OneLine /\ SentEarlier /\ LineOrder
  /\ ResultsTrue /\ ActivitiesOfCommands /\ AllTold

LEMMA FlowInit == Init => FlowInv
<1> SUFFICES ASSUME Init PROVE FlowInv
  OBVIOUS
<1>1. Typed
  BY InitTyped
<1>2. /\ activities = <<>> /\ executed = <<>> /\ queue = <<>> /\ dispatching = None
      /\ sessions = {} /\ intact = {} /\ wsi = None
      /\ \A c \in Conn : toServer[c] = <<>> /\ toAgent[c] = <<>> /\ pendingTx[c] = <<>>
  BY DEF Init
<1>3. OneLine
  BY <1>2 DEF OneLine
<1>4. Done = {} /\ Sent = {} /\ Said = {}
  BY <1>2, EmptySet DEF Done, Sent, Said
<1>5. SentEarlier /\ ResultsTrue
  BY <1>2, <1>4 DEF SentEarlier, ResultsTrue
<1>6. LineOrder
  BY <1>2 DEF LineOrder, ExecutedInOrder, None, Conn
<1>7. ActivitiesOfCommands /\ AllTold
  BY <1>2 DEF ActivitiesOfCommands, AllTold
<1> QED BY <1>1, <1>3, <1>5, <1>6, <1>7 DEF FlowInv

LEMMA FlowStep == FlowInv /\ [Next]_vars => FlowInv'
BY TypedStep, OneLineStep, SentEarlierStep, LineOrderStep, ResultsStep, ActivitiesStep, AllToldStep
   DEF FlowInv

LEMMA FlowAlways == Spec => []FlowInv
BY FlowInit, FlowStep, PTL DEF Spec

(* The agent executes commands in the order they were dispatched and none  *)
(* twice, whatever connections broke in between (ws_server.cpp 54-64       *)
(* and 123-142, ws_client.cpp 105-117).                                    *)
THEOREM AlwaysExecutedInOrder == Spec => []ExecutedInOrder
<1>1. FlowInv => ExecutedInOrder
  BY DEF FlowInv, LineOrder
<1> QED BY FlowAlways, <1>1, PTL

(* What the activity screen says of a command is how its agent ended it,   *)
(* or that it failed without ever reaching an agent (command_router.cpp    *)
(* 9-28, activity_store.cpp 16-24).                                        *)
THEOREM AnswersAlwaysTrue == Spec => []AnswersTrue
<1>1. FlowInv => AnswersTrue
  BY ToldIsTrue DEF FlowInv
<1> QED BY FlowAlways, <1>1, PTL

-----------------------------------------------------------------------------
(* An answer is the last word.                                             *)

(* The activity of a command that was answered never says anything else    *)
(* afterwards, until it is dropped from the list: a consequence of         *)
(* ImplementsLife, proved here from the invariant alone.                   *)
AnswersStay ==
  [][\A i \in DOMAIN activities, j \in DOMAIN activities' :
       (activities[i].id = activities'[j].id /\ activities[i].state # "Pending")
         => activities'[j].state = activities[i].state]_vars

LEMMA OneVerdict ==
  ASSUME Typed, ExecutedInOrder, NEW x \in ToSet(executed), NEW y \in ToSet(executed), x.id = y.id
  PROVE  x = y
<1>1. executed \in Seq(Answer) /\ DOMAIN executed = 1..Len(executed) /\ Len(executed) \in Nat
  BY LenProperties DEF Typed, AgentTyped
<1>2. \A k \in DOMAIN executed : executed[k].id \in Nat
  <2>1. \A k \in DOMAIN executed : executed[k] \in Answer
    BY <1>1, ElementOfSeq
  <2> QED BY <2>1, Numbers DEF Answer
<1>3. PICK i \in DOMAIN executed, j \in DOMAIN executed : x = executed[i] /\ y = executed[j]
  BY DEF ToSet
<1>4. ~(i < j) /\ ~(j < i)
  BY <1>2, <1>3 DEF ExecutedInOrder
<1> QED BY <1>1, <1>3, <1>4

(* AnswersStay: no second answer comes, neither from another connection    *)
(* nor for a command that was refused (activity_store.cpp 16-24).          *)
THEOREM AnswersAlwaysStay == Spec => AnswersStay
<1> DEFINE Stay == \A i \in DOMAIN activities, j \in DOMAIN activities' :
                     (activities[i].id = activities'[j].id /\ activities[i].state # "Pending")
                       => activities'[j].state = activities[i].state
<1>1. FlowInv /\ [Next]_vars => [Stay]_vars
  <2> SUFFICES ASSUME FlowInv, [Next]_vars, NEW i \in DOMAIN activities,
                      NEW j \in DOMAIN activities', activities[i].id = activities'[j].id,
                      activities[i].state # "Pending"
               PROVE  activities'[j].state = activities[i].state
    OBVIOUS
  <2> USE DEF FlowInv
  <2>1. /\ activities \in Seq(Activity) /\ Len(kinds) \in Nat /\ DOMAIN activities \subseteq Nat
        /\ \A k \in DOMAIN activities : activities[k].id \in Nat
    BY ActivityIds
  <2>2. \A k \in DOMAIN activities : activities[k].id = activities[i].id => k = i
    BY <2>1 DEF ActivitiesOfCommands
  <2>3. ASSUME NEW kind \in {"agent", "local"}, Press(kind)
        PROVE  activities'[j].state = activities[i].state
    <3>1. \/ activities'[j] = [id |-> Len(kinds) + 1, state |-> "Pending"]
          \/ j - 1 \in DOMAIN activities /\ activities'[j] = activities[j - 1]
      BY <2>3, PressedList
    <3>2. activities'[j].id <= Len(kinds)
      BY DEF ActivitiesOfCommands
    <3>3. activities'[j] # [id |-> Len(kinds) + 1, state |-> "Pending"]
      BY <2>1, <3>2
    <3> QED BY <2>2, <3>1, <3>3
  <2>4. CASE activities' = activities
    BY <2>2, <2>4
  <2>5. ASSUME NEW id \in Id, NEW ok \in BOOLEAN, activities' = Completed(id, ok),
               id = dispatching \/ [id |-> id, ok |-> ok] \in ToSet(executed)
        PROVE  activities'[j].state = activities[i].state
    <3>1. /\ j \in DOMAIN activities /\ activities'[j].id = activities[j].id
          /\ activities'[j].state =
               IF activities[j].id = id THEN Verdict(ok) ELSE activities[j].state
      BY <2>1, <2>5, CompletedShape
    <3>2. j = i
      BY <2>2, <3>1
    <3>3. CASE activities[i].id = id
      <4>1. id # dispatching
        BY <3>3 DEF ActivitiesOfCommands
      <4>2. [id |-> id, ok |-> ok] \in ToSet(executed)
        BY <2>5, <4>1
      <4>3. id \in Sent
        BY <4>2 DEF Sent, Done, ToSet
      <4>4. kinds[id] = "agent"
        BY <4>3 DEF SentEarlier
      <4>5. PICK x \in ToSet(executed) : x.id = id /\ Verdict(x.ok) = activities[i].state
        BY <3>3, <4>3, <4>4 DEF AllTold, Told
      <4>6. x = [id |-> id, ok |-> ok]
        BY <4>2, <4>5, OneVerdict DEF LineOrder
      <4> QED BY <3>1, <3>2, <3>3, <4>5, <4>6
    <3> QED BY <3>1, <3>2, <3>3
  <2> QED BY <2>3, <2>4, <2>5, ActivitiesChange
<1> QED BY FlowAlways, <1>1, PTL DEF Spec, AnswersStay

-----------------------------------------------------------------------------
(* Writable callbacks.                                                     *)

AgentAsks == (wsi # None /\ queue # <<>>) => agentWants \/ woken

SessionsAsk == \A c \in sessions : pendingTx[c] # <<>> => c \in serverWants

LEMMA TailWaits ==
  ASSUME NEW S, NEW s \in Seq(S), s # <<>>, Tail(s) # <<>>
  PROVE  Len(s) > 1
<1>1. Tail(s) \in Seq(S) /\ Len(Tail(s)) = Len(s) - 1 /\ Len(s) \in Nat
  BY HeadTailProperties, LenProperties
<1>2. Len(Tail(s)) \in Nat /\ Len(Tail(s)) # 0
  BY <1>1, LenProperties, EmptySeq
<1> QED BY <1>1, <1>2

LEMMA AgentAsksStep == Typed /\ AgentAsks /\ [Next]_vars => AgentAsks'
<1> SUFFICES ASSUME Typed, AgentAsks, [Next]_vars, wsi' # None, queue' # <<>>
             PROVE  agentWants' \/ woken'
  BY DEF AgentAsks
<1>1. CASE (\E c \in Conn : Established(c)) \/ Collect \/ AgentReceive
  BY <1>1, Zenon DEF Established, Collect, AgentReceive
<1>2. CASE AgentClosed \/ AgentExit
  BY <1>2, Zenon DEF AgentClosed, AgentExit
<1>3. CASE WaitCancelled
  BY <1>3, Zenon DEF WaitCancelled
<1>4. CASE FlushOne
  <2>1. queue \in Seq(Message) /\ queue # <<>> /\ queue' = Tail(queue)
    BY <1>4 DEF FlushOne, Typed, AgentTyped
  <2>2. Len(queue) > 1
    BY <2>1, TailWaits
  <2>3. agentWants' = (Len(queue) > 1)
    BY <1>4, Zenon DEF FlushOne
  <2> QED BY <2>2, <2>3, Zenon
<1>5. CASE UNCHANGED agentVars
  BY <1>5, Zenon DEF AgentAsks, agentVars
<1>6. CASE \E kind \in {"agent", "local"} : Press(kind)
  BY <1>5, <1>6, Zenon DEF Press, Dispatch
<1>7. CASE Send \/ Server
  BY <1>5, <1>7, Zenon DEF Send, SendCommand, SendRefused, DispatchLocal, Server, ServerReceive,
                           ServerWriteable
<1>8. CASE TickOnlineStatus \/ (\E c \in Conn : ServerClosed(c)) \/ Break \/ UNCHANGED vars
  BY <1>5, <1>8, Zenon DEF TickOnlineStatus, ServerClosed, Break, vars
<1> QED BY <1>1, <1>2, <1>3, <1>4, <1>6, <1>7, <1>8, Zenon DEF Next, Client

LEMMA SessionsAskStep == Typed /\ OneLine /\ SessionsAsk /\ [Next]_vars => SessionsAsk'
<1> SUFFICES ASSUME Typed, OneLine, SessionsAsk, [Next]_vars PROVE SessionsAsk'
  OBVIOUS
<1> USE DEF Typed, ServerTyped, AgentTyped
<1>0. sessions \subseteq Conn
  BY DEF Conn
<1>1. ASSUME NEW c \in Conn, SendCommand(c) PROVE SessionsAsk'
  <2>1. /\ sessions' = sessions /\ serverWants' = serverWants \cup {c}
        /\ \A d \in Conn : d # c => pendingTx'[d] = pendingTx[d]
    BY <1>1 DEF SendCommand
  <2> QED BY <1>0, <2>1 DEF SessionsAsk
<1>2. ASSUME NEW c \in Conn, ServerWriteable(c) PROVE SessionsAsk'
  <2>1. /\ sessions' = sessions /\ pendingTx[c] # <<>> /\ pendingTx'[c] = Tail(pendingTx[c])
        /\ \A d \in Conn : d # c => pendingTx'[d] = pendingTx[d]
        /\ c \in serverWants
        /\ serverWants' = IF Len(pendingTx[c]) > 1 THEN serverWants ELSE serverWants \ {c}
    BY <1>2 DEF ServerWriteable
  <2>2. pendingTx'[c] # <<>> => Len(pendingTx[c]) > 1
    BY <2>1, TailWaits
  <2> QED BY <1>0, <2>1, <2>2 DEF SessionsAsk
<1>3. ASSUME NEW c \in Conn, ServerClosed(c) PROVE SessionsAsk'
  <2>1. /\ sessions' = sessions \ {c} /\ serverWants' = serverWants \ {c}
        /\ \A d \in Conn : d # c => pendingTx'[d] = pendingTx[d]
    BY <1>3 DEF ServerClosed
  <2> QED BY <1>0, <2>1 DEF SessionsAsk
<1>4. ASSUME NEW c \in Conn, Established(c) PROVE SessionsAsk'
  <2>1. /\ c = made + 1 /\ sessions' = sessions \cup {c}
        /\ UNCHANGED <<pendingTx, serverWants>>
    BY <1>4 DEF Established
  <2>2. pendingTx[c] = <<>>
    BY <2>1 DEF OneLine
  <2> QED BY <2>1, <2>2 DEF SessionsAsk
<1>5. CASE UNCHANGED <<sessions, pendingTx, serverWants>>
  BY <1>5 DEF SessionsAsk
<1> QED BY <1>1, <1>2, <1>3, <1>4, <1>5
        DEF Next, Press, Dispatch, Send, SendRefused, DispatchLocal, Server, Client,
            ServerReceive, AgentClosed, WaitCancelled, AgentReceive, FlushOne, Collect,
            TickOnlineStatus, AgentExit, Break, vars, serverVars

(* Neither side ever leaves a message waiting without a writable callback  *)
(* to come (ws_server.cpp 54-64 and 123-142, ws_client.cpp 75-130).        *)
THEOREM NothingEverForgotten == Spec => []NothingForgotten
<1>1. Init => AgentAsks /\ SessionsAsk
  BY DEF Init, AgentAsks, SessionsAsk
<1>2. FlowInv /\ AgentAsks /\ SessionsAsk /\ [Next]_vars => AgentAsks' /\ SessionsAsk'
  BY AgentAsksStep, SessionsAskStep, Zenon DEF FlowInv
<1>3. AgentAsks /\ SessionsAsk => NothingForgotten
  BY Zenon DEF AgentAsks, SessionsAsk, NothingForgotten
<1> QED BY FlowAlways, <1>1, <1>2, <1>3, PTL DEF Spec

-----------------------------------------------------------------------------
(* The path of a command as a CommandLife.                                 *)

\* The list as holds the newest of the commands ks, newest first.
Newest(ks, as) ==
  /\ Len(as) = IF Len(ks) > MaxActivities THEN MaxActivities ELSE Len(ks)
  /\ \A i \in DOMAIN as : as[i].id = Len(ks) + 1 - i

NewestFirst == Newest(kinds, activities)

LEMMA NewestFirstStep == FlowInv /\ NewestFirst /\ [Next]_vars => NewestFirst'
<1> SUFFICES ASSUME FlowInv, NewestFirst, [Next]_vars PROVE NewestFirst'
  OBVIOUS
<1> USE DEF NewestFirst, Newest
<1>1. /\ Typed /\ activities \in Seq(Activity) /\ Len(kinds) \in Nat
      /\ Len(activities) \in Nat /\ DOMAIN activities = 1..Len(activities)
      /\ \A i \in DOMAIN activities : activities[i].id \in Nat
  BY ActivityIds, LenProperties DEF FlowInv
<1>2. ASSUME NEW kind \in {"agent", "local"}, Press(kind) PROVE NewestFirst'
  <2>1. Len(kinds) + 1 \in Id /\ activities' = Listed(Len(kinds) + 1) /\ Len(kinds') = Len(kinds) + 1
    BY <1>1, <1>2, PressedList DEF Press, Dispatch, Id
  <2>2. Len(activities') = IF Len(kinds') > MaxActivities THEN MaxActivities ELSE Len(kinds')
    BY <1>1, <2>1, ListedShape
  <2>3. ASSUME NEW i \in DOMAIN activities' PROVE activities'[i].id = Len(kinds') + 1 - i
    <3>1. i \in Nat /\ \/ activities'[i] = [id |-> Len(kinds) + 1, state |-> "Pending"] /\ i = 1
                       \/ i - 1 \in DOMAIN activities /\ activities'[i] = activities[i - 1]
      BY <1>1, <1>2, PressedList
    <3>2. i - 1 \in DOMAIN activities => activities[i - 1].id = Len(kinds) + 1 - (i - 1)
      OBVIOUS
    <3> QED BY <1>1, <2>1, <3>1, <3>2
  <2> QED BY <2>2, <2>3
<1>3. CASE kinds' = kinds /\ activities' = activities
  BY <1>3
<1>4. ASSUME NEW id \in Id, NEW ok \in BOOLEAN, kinds' = kinds, activities' = Completed(id, ok)
      PROVE  NewestFirst'
  <2>1. /\ Len(activities') = Len(activities) /\ DOMAIN activities' = DOMAIN activities
        /\ \A i \in DOMAIN activities : activities'[i].id = activities[i].id
    BY <1>1, <1>4, CompletedShape
  <2> QED BY <1>4, <2>1
<1> QED BY <1>1, <1>2, <1>3, <1>4, ActivitiesChange DEF FlowInv

ShownBy(ks, as) ==
  [n \in 1..Len(ks) |-> IF Len(ks) + 1 - n \in DOMAIN as THEN as[Len(ks) + 1 - n].state
                        ELSE "Dropped"]

\* Which commands are shown, and where they are listed.
LEMMA ShownShape ==
  ASSUME NEW ks \in Seq(Kind), NEW as \in Seq(Activity), Newest(ks, as)
  PROVE  /\ Len(ks) \in Nat /\ DOMAIN ks = 1..Len(ks) /\ DOMAIN ShownBy(ks, as) = 1..Len(ks)
         /\ \A n \in 1..Len(ks) :
              /\ \A i \in DOMAIN as : as[i].id = n <=> i = Len(ks) + 1 - n
              /\ IF n + MaxActivities <= Len(ks)
                 THEN ShownBy(ks, as)[n] = "Dropped" /\ Len(ks) + 1 - n \notin DOMAIN as
                 ELSE /\ Len(ks) + 1 - n \in DOMAIN as
                      /\ ShownBy(ks, as)[n] = as[Len(ks) + 1 - n].state
<1>1. /\ Len(ks) \in Nat /\ DOMAIN ks = 1..Len(ks)
      /\ Len(as) \in Nat /\ DOMAIN as = 1..Len(as)
  BY LenProperties
<1>2. /\ MaxActivities \in Nat
      /\ Len(as) = IF Len(ks) > MaxActivities THEN MaxActivities ELSE Len(ks)
      /\ \A i \in DOMAIN as : as[i].id = Len(ks) + 1 - i
  BY DEF Newest
<1>3. ASSUME NEW n \in 1..Len(ks)
      PROVE  Len(ks) + 1 - n \in DOMAIN as <=> ~(n + MaxActivities <= Len(ks))
  BY <1>1, <1>2
<1>4. ASSUME NEW n \in 1..Len(ks), NEW i \in DOMAIN as
      PROVE  as[i].id = n <=> i = Len(ks) + 1 - n
  <2>1. i \in Nat
    BY <1>1
  <2>2. as[i].id = Len(ks) + 1 - i
    BY <1>2, Zenon
  <2> QED BY <1>1, <2>1, <2>2
<1> QED BY <1>1, <1>3, <1>4 DEF ShownBy

LEMMA ShownIs == Shown = ShownBy(kinds, activities) /\ Shown' = ShownBy(kinds', activities')
BY DEF Shown, ShownBy

LEMMA GiveStep ==
  ASSUME FlowInv, NewestFirst, FlowInv', NewestFirst', NEW kind \in Kind, Press(kind)
  PROVE  Life!Give(kind)
<1>1. /\ kinds \in Seq(Kind) /\ activities \in Seq(Activity)
      /\ kinds' \in Seq(Kind) /\ activities' \in Seq(Activity)
      /\ Newest(kinds, activities) /\ Newest(kinds', activities')
  BY DEF FlowInv, Typed, StoreTyped, NewestFirst
<1>2. /\ Len(kinds) \in Nat /\ kinds' = Append(kinds, kind) /\ Len(kinds') = Len(kinds) + 1
      /\ executed' = executed
  BY PressedList DEF FlowInv, Press, Dispatch, Kind
<1>3. /\ Len(kinds') \in Nat
      /\ \A n \in 1..Len(kinds') :
           IF n + MaxActivities <= Len(kinds')
           THEN Shown'[n] = "Dropped"
           ELSE /\ Len(kinds') + 1 - n \in DOMAIN activities'
                /\ Shown'[n] = activities'[Len(kinds') + 1 - n].state
  BY <1>1, ShownIs, ShownShape
<1>4. \A n \in 1..Len(kinds) :
        ~(n + MaxActivities <= Len(kinds)) => Shown[n] = activities[Len(kinds) + 1 - n].state
  BY <1>1, ShownIs, ShownShape
<1>5. ASSUME NEW n \in 1..Len(kinds) + 1
      PROVE  Shown'[n] = IF n + MaxActivities <= Len(kinds) + 1 THEN "Dropped"
                         ELSE IF n = Len(kinds) + 1 THEN "Pending" ELSE Shown[n]
  <2>1. CASE n + MaxActivities <= Len(kinds) + 1
    BY <1>2, <1>3, <2>1
  <2>2. CASE ~(n + MaxActivities <= Len(kinds) + 1)
    <3> DEFINE j == Len(kinds) + 2 - n
    <3>1. j \in DOMAIN activities' /\ Shown'[n] = activities'[j].state
      BY <1>2, <1>3, <2>2
    <3>2. \/ activities'[j] = [id |-> Len(kinds) + 1, state |-> "Pending"] /\ j = 1
          \/ j - 1 \in DOMAIN activities /\ activities'[j] = activities[j - 1]
      BY <3>1, PressedList DEF FlowInv, Kind
    <3>3. CASE n = Len(kinds) + 1
      <4>1. j = 1 /\ j - 1 \notin DOMAIN activities
        BY <1>1, <1>2, <3>3, LenProperties
      <4> QED BY <2>2, <3>1, <3>2, <3>3, <4>1
    <3>4. CASE n # Len(kinds) + 1
      <4>1. n \in 1..Len(kinds) /\ ~(n + MaxActivities <= Len(kinds)) /\ j # 1
            /\ j - 1 = Len(kinds) + 1 - n
        BY <1>2, <2>2, <3>4
      <4>2. Shown[n] = activities[Len(kinds) + 1 - n].state
        BY <1>4, <4>1
      <4> QED BY <2>2, <3>1, <3>2, <3>4, <4>1, <4>2
    <3> QED BY <3>3, <3>4
  <2> QED BY <2>1, <2>2
<1>6. Shown' = [n \in 1..Len(kinds) + 1 |-> Shown'[n]]
  BY <1>2, ShownIs DEF ShownBy
<1> QED BY <1>2, <1>5, <1>6 DEF Life!Give

\* What completing an activity does to what is shown.
LEMMA CompletedShown ==
  ASSUME FlowInv, NewestFirst, NEW id \in 1..Len(kinds), NEW ok \in BOOLEAN,
         kinds' = kinds, activities' = Completed(id, ok)
  PROVE  Shown' = IF Shown[id] = "Dropped" THEN Shown
                  ELSE [Shown EXCEPT ![id] = Verdict(ok)]
<1> DEFINE at(n) == Len(kinds) + 1 - n
<1>1. /\ Len(kinds) \in Nat /\ DOMAIN Shown = 1..Len(kinds)
      /\ \A n \in 1..Len(kinds) :
           /\ \A i \in DOMAIN activities : activities[i].id = n <=> i = at(n)
           /\ Shown[n] = IF at(n) \in DOMAIN activities THEN activities[at(n)].state ELSE "Dropped"
  BY ShownIs, ShownShape DEF FlowInv, Typed, StoreTyped, NewestFirst, Shown
<1>2. /\ activities \in Seq(Activity) /\ DOMAIN activities' = DOMAIN activities
      /\ \A i \in DOMAIN activities :
           activities'[i].state = IF activities[i].id = id THEN Verdict(ok) ELSE activities[i].state
  BY CompletedShape DEF FlowInv, Typed, StoreTyped
<1>3. Shown' = [n \in 1..Len(kinds) |->
                  IF at(n) \in DOMAIN activities THEN activities'[at(n)].state ELSE "Dropped"]
  BY <1>2 DEF Shown
<1>4. \A n \in 1..Len(kinds) : at(n) = at(id) <=> n = id
  BY <1>1
<1>5. \A i \in DOMAIN activities : activities[i].state # "Dropped"
  <2>1. \A i \in DOMAIN activities : activities[i] \in Activity
    BY ActivityIds DEF FlowInv
  <2> QED BY <2>1 DEF Activity
<1> HIDE DEF at, Shown
<1>6. ASSUME NEW n \in 1..Len(kinds)
      PROVE  (IF at(n) \in DOMAIN activities THEN activities'[at(n)].state ELSE "Dropped")
               = IF n = id /\ at(id) \in DOMAIN activities THEN Verdict(ok) ELSE Shown[n]
  BY <1>1, <1>2, <1>4
<1>7. Shown[id] = "Dropped" <=> at(id) \notin DOMAIN activities
  BY <1>1, <1>5
<1>8. Shown = [n \in 1..Len(kinds) |-> Shown[n]]
  BY <1>1 DEF Shown
<1> QED BY <1>3, <1>6, <1>7, <1>8

LEMMA ShownPending ==
  ASSUME FlowInv, NewestFirst, NEW id \in 1..Len(kinds), Shown[id] # "Pending",
         Shown[id] # "Dropped", kinds[id] = "agent"
  PROVE  \/ \E x \in ToSet(executed) : x.id = id /\ Verdict(x.ok) = Shown[id]
         \/ Shown[id] = "Failed" /\ id \notin Sent
<1> DEFINE i == Len(kinds) + 1 - id
<1>1. i \in DOMAIN activities /\ activities[i].id = id /\ Shown[id] = activities[i].state
  BY ShownIs, ShownShape DEF FlowInv, Typed, StoreTyped, NewestFirst
<1>2. Told(activities[i].id, activities[i].state, kinds[activities[i].id], ToSet(executed), Sent)
  BY <1>1 DEF FlowInv, AllTold
<1> HIDE DEF i
<1> QED BY <1>1, <1>2 DEF Told

\* The command being dispatched is the newest, and shown Pending.
LEMMA DispatchingShown ==
  ASSUME FlowInv, NewestFirst, dispatching # None
  PROVE  /\ dispatching = Len(kinds) /\ dispatching \in 1..Len(kinds) /\ dispatching \notin Sent
         /\ Shown[dispatching] = "Pending"
<1>1. kinds \in Seq(Kind) /\ activities \in Seq(Activity) /\ Newest(kinds, activities)
  BY DEF FlowInv, Typed, StoreTyped, NewestFirst
<1>2. Len(kinds) \in Nat /\ dispatching \in 0..Len(kinds)
  BY <1>1, LenProperties DEF FlowInv, Typed, StoreTyped
<1>3. dispatching = Len(kinds) /\ dispatching \in 1..Len(kinds) /\ dispatching \notin Sent
  BY <1>2 DEF FlowInv, SentEarlier, None
<1>4. MaxActivities \in Nat \ {0}
  OBVIOUS
<1>5. ~(Len(kinds) + MaxActivities <= Len(kinds)) /\ Len(kinds) + 1 - Len(kinds) = 1
  BY <1>2, <1>4
<1>6. /\ 1 \in DOMAIN activities /\ activities[1].id = Len(kinds)
      /\ Shown[Len(kinds)] = activities[1].state
  <2> DEFINE i == Len(kinds) + 1 - Len(kinds)
  <2>1. Len(kinds) \in 1..Len(kinds)
    BY <1>3
  <2>2. i \in DOMAIN activities /\ activities[i].id = Len(kinds) /\ Shown[Len(kinds)] = activities[i].state
    BY <1>1, <1>5, <2>1, ShownIs, ShownShape
  <2>3. i = 1
    BY <1>5
  <2> HIDE DEF i
  <2> QED BY <2>2, <2>3, Zenon
<1> QED BY <1>3, <1>6 DEF FlowInv, ActivitiesOfCommands

LEMMA CarryOutStep ==
  ASSUME FlowInv, NewestFirst, AgentReceive
  PROVE  \E id \in DOMAIN kinds, ok \in BOOLEAN : Life!CarryOut(id, ok)
<1> USE DEF FlowInv
<1>1. /\ wsi \in Conn /\ toAgent[wsi] \in Seq(Id) /\ toAgent[wsi] # <<>>
  BY WsiConn DEF AgentReceive, Typed, AgentTyped
<1>2. PICK a \in Answers(Head(toAgent[wsi])) : executed' = Append(executed, a)
  BY DEF AgentReceive
<1>3. PICK ok \in BOOLEAN : a = [id |-> Head(toAgent[wsi]), ok |-> ok]
  BY DEF Answers
<1> DEFINE id == Head(toAgent[wsi])
<1>4. id \in ToSet(toAgent[wsi]) /\ id \in Sent
  BY <1>1, HeadTailSet DEF Sent
<1>5. id \in 1..Len(kinds) /\ kinds[id] = "agent"
  BY <1>4 DEF SentEarlier
<1>6. \A k \in DOMAIN executed : executed[k].id < id
  BY <1>1, <1>4 DEF LineOrder, Before, Done
<1>7. Shown[id] \in {"Pending", "Dropped"}
  <2>1. executed \in Seq(Answer) /\ \A k \in DOMAIN executed : executed[k].id \in Nat
    <3>1. executed \in Seq(Answer) /\ DOMAIN executed = 1..Len(executed)
      BY LenProperties DEF Typed, AgentTyped
    <3>2. \A k \in DOMAIN executed : executed[k] \in Answer
      BY <3>1, ElementOfSeq
    <3> QED BY <3>1, <3>2, Numbers DEF Answer
  <2>2. \A x \in ToSet(executed) : x.id # id
    BY <1>5, <1>6, <2>1 DEF ToSet
  <2> HIDE DEF id
  <2> QED BY <1>4, <1>5, <2>2, ShownPending
<1>8. UNCHANGED <<kinds, activities>> /\ Shown' = Shown
  BY DEF AgentReceive, storeVars, Shown
<1>9. DOMAIN kinds = 1..Len(kinds)
  BY LenProperties DEF Typed, StoreTyped
<1>10. Life!CarryOut(id, ok)
  BY <1>2, <1>3, <1>5, <1>6, <1>7, <1>8 DEF Life!CarryOut
<1> QED BY <1>5, <1>9, <1>10

\* The verdict of a command that is answered or refused here, or whose
\* result arrives.
LEMMA OutcomeStep ==
  ASSUME FlowInv, NewestFirst, NEW id \in Id, NEW ok \in BOOLEAN,
         kinds' = kinds, executed' = executed, activities' = Completed(id, ok),
         \/ id = dispatching /\ (kinds[id] = "local" \/ ok = FALSE)
         \/ [id |-> id, ok |-> ok] \in ToSet(executed)
  PROVE  [Life!Next]_(Life!vars)
<1>1. DOMAIN kinds = 1..Len(kinds) /\ \A n \in DOMAIN kinds : kinds[n] \in Kind
  BY LenProperties, ElementOfSeq DEF FlowInv, Typed, StoreTyped
<1>2. CASE id = dispatching /\ (kinds[id] = "local" \/ ok = FALSE)
  <2>1. /\ id = Len(kinds) /\ id \in 1..Len(kinds) /\ id \notin Sent
        /\ Shown[id] = "Pending"
    BY <1>2, DispatchingShown DEF Id, None
  <2>2. Shown' = [Shown EXCEPT ![id] = Verdict(ok)]
    BY <2>1, CompletedShown
  <2>3. \A k \in DOMAIN executed : executed[k].id # id
    BY <2>1 DEF Sent, Done
  <2>4. CASE kinds[id] = "local"
    <3>1. Life!End(id, ok)
      BY <2>1, <2>2, <2>4 DEF Life!End, Life!Newest, Life!Outcome, Verdict
    <3> QED BY <1>1, <2>1, <3>1 DEF Life!Next
  <2>5. CASE kinds[id] # "local"
    <3>1. kinds[id] = "agent" /\ ok = FALSE
      BY <1>1, <1>2, <2>1, <2>5 DEF Kind
    <3>2. Life!Refuse(id)
      BY <2>1, <2>2, <2>3, <3>1 DEF Life!Refuse, Life!Newest, Verdict
    <3> QED BY <1>1, <2>1, <3>2 DEF Life!Next
  <2> QED BY <2>4, <2>5
<1>3. CASE [id |-> id, ok |-> ok] \in ToSet(executed)
  <2>1. PICK k \in DOMAIN executed : executed[k] = [id |-> id, ok |-> ok]
    BY <1>3 DEF ToSet
  <2>2. id \in Sent /\ id \in 1..Len(kinds) /\ kinds[id] = "agent"
    BY <2>1 DEF Sent, Done, FlowInv, SentEarlier
  <2>3. CASE Shown[id] = "Pending"
    <3>1. Shown' = [Shown EXCEPT ![id] = Verdict(ok)]
      BY <2>2, <2>3, CompletedShown
    <3>2. Life!Tell(id)
      <4>1. executed[k].id = id /\ executed[k].ok = ok
        BY <2>1
      <4>2. Life!Outcome(executed[k].ok) = Verdict(ok)
        BY <4>1 DEF Life!Outcome, Verdict
      <4> HIDE DEF Shown
      <4> QED BY <2>3, <3>1, <4>1, <4>2 DEF Life!Tell
    <3> QED BY <1>1, <2>2, <3>2 DEF Life!Next
  <2>4. CASE Shown[id] # "Pending"
    <3>1. Shown' = Shown
      <4>1. CASE Shown[id] = "Dropped"
        BY <2>2, <4>1, CompletedShown
      <4>2. CASE Shown[id] # "Dropped"
        <5>1. PICK x \in ToSet(executed) : x.id = id /\ Verdict(x.ok) = Shown[id]
          BY <2>2, <2>4, <4>2, ShownPending
        <5>2. x = [id |-> id, ok |-> ok]
          BY <1>3, <5>1, OneVerdict DEF FlowInv, LineOrder
        <5>3. Verdict(ok) = Shown[id] /\ Shown' = [Shown EXCEPT ![id] = Verdict(ok)]
          BY <2>2, <4>2, <5>1, <5>2, CompletedShown
        <5>4. Shown = [n \in 1..Len(kinds) |-> Shown[n]]
          BY DEF Shown
        <5> HIDE DEF Shown
        <5> QED BY <5>3, <5>4
      <4> QED BY <4>1, <4>2
    <3> QED BY <3>1 DEF Life!vars
  <2> QED BY <2>3, <2>4
<1> QED BY <1>2, <1>3

LEMMA LifeStep ==
  FlowInv /\ NewestFirst /\ [Next]_vars => [Life!Next]_(Life!vars)
<1> SUFFICES ASSUME FlowInv, NewestFirst, [Next]_vars PROVE [Life!Next]_(Life!vars)
  OBVIOUS
<1>1. ASSUME NEW kind \in Kind, Press(kind) PROVE [Life!Next]_(Life!vars)
  <2>1. Life!Give(kind)
    BY <1>1, FlowStep, NewestFirstStep, GiveStep
  <2> QED BY <2>1 DEF Life!Next, Kind
<1>2. CASE AgentReceive
  BY <1>2, CarryOutStep DEF Life!Next
<1>3. CASE UNCHANGED <<kinds, activities, executed>>
  BY <1>3 DEF Life!vars, Shown
<1>4. CASE executed' = executed
  <2>1. CASE activities' = activities /\ kinds' = kinds
    BY <1>3, <1>4, <2>1
  <2>2. ASSUME kinds' = kinds, NEW id \in Id, NEW ok \in BOOLEAN, activities' = Completed(id, ok),
               \/ id = dispatching /\ (kinds[id] = "local" \/ ok = FALSE)
               \/ [id |-> id, ok |-> ok] \in ToSet(executed)
        PROVE  [Life!Next]_(Life!vars)
    BY <1>4, <2>2, OutcomeStep
  <2> QED BY <1>1, <2>1, <2>2, ActivitiesChange DEF FlowInv, Kind
<1>5. AgentReceive \/ executed' = executed
  BY DEF Next, Press, Dispatch, Send, SendCommand, SendRefused, DispatchLocal, Server, Client,
         ServerReceive, ServerWriteable, Established, AgentClosed, WaitCancelled, FlushOne,
         Collect, TickOnlineStatus, ServerClosed, AgentExit, Break, vars
<1> QED BY <1>2, <1>4, <1>5

(* ImplementsLife, for any number of commands, connections and breaks:     *)
(* carried out at most once and in order, and each command still listed    *)
(* told one outcome, its own (command_router.cpp 9-28, ws_server.cpp       *)
(* 54-64, activity_store.cpp 5-24, ws_client.cpp 75-130).                  *)
THEOREM AlwaysImplementsLife == Spec => ImplementsLife
<1>1. Init => NewestFirst
  BY DEF Init, NewestFirst, Newest
<1>2. Init => Life!Init
  BY DEF Init, Life!Init, Shown
<1> QED BY <1>1, <1>2, FlowAlways, NewestFirstStep, LifeStep, PTL
        DEF Spec, ImplementsLife, Life!Spec
=============================================================================
