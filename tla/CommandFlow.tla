---------------------------- MODULE CommandFlow ----------------------------
(***************************************************************************)
(* A command from the dashboard to an agent and its result back.           *)
(*                                                                         *)
(* CommandRouter::dispatch runs on the LVGL thread: it lists the command in*)
(* ActivityStore, then puts it into the queue of a WebSocket session of    *)
(* the host (ws_server.cpp, send_command).  The server's libwebsockets     *)
(* thread sends, receives and opens and closes sessions.  The agent        *)
(* (metrics-agent) has one connection at a time and one queue for          *)
(* everything it says, which its main thread (metrics) and its             *)
(* libwebsockets thread (hello, results) fill and which outlives the       *)
(* connection.                                                             *)
(*                                                                         *)
(* One host is modelled.  A connection that broke is noticed by each side  *)
(* at its own time, so that a session of it may exist beside that of the   *)
(* next connection.                                                        *)
(***************************************************************************)
EXTENDS Naturals, Sequences, FiniteSets, SequencesExt

CONSTANTS
  MaxCommands,     \* bound on the commands dispatched
  MaxConns,        \* bound on the connections the agent makes
  MaxActivities,   \* MAX_ACTIVITIES, 100 in the code
  MaxBacklog,      \* bound on the agent's queue when metrics are added
  MaxFlight        \* what a socket takes before it is no longer writable

ASSUME FlowAssumption ==
  {MaxCommands, MaxConns, MaxActivities, MaxBacklog, MaxFlight} \subseteq Nat \ {0}

VARIABLES
  \* ActivityStore, newest first; the commands begun, by what they are for;
  \* the command dispatch has listed and not yet sent
  activities, kinds, dispatching,
  \* sessions of the server: those that exist, those whose hello was seen,
  \* pending_tx, and those that asked for a writable callback
  sessions, greeted, pendingTx, serverWants,
  \* MetricsStore: the host is shown online
  online,
  \* WsClient: wsi_ (0 is none), queue_, a writable callback is asked for,
  \* a cancelled wait is to be handled
  wsi, queue, agentWants, woken,
  \* the network: connections made, those not broken, and what is under way
  made, intact, toServer, toAgent,
  \* history: what the agent executed, and how it turned out
  executed

storeVars == <<activities, kinds, dispatching>>
serverVars == <<sessions, greeted, pendingTx, serverWants>>
agentVars == <<wsi, queue, agentWants, woken>>
netVars == <<made, intact, toServer, toAgent>>
vars == <<storeVars, serverVars, online, agentVars, netVars, executed>>

Id == 1..MaxCommands
Conn == 1..MaxConns
None == 0

Hello == [type |-> "hello"]
Metrics == [type |-> "metrics"]
Result(id, ok) == [type |-> "cmd_result", id |-> id, ok |-> ok]
Message == {Hello, Metrics} \cup {Result(id, ok) : id \in Id, ok \in BOOLEAN}

Activity == [id : Id, state : {"Pending", "Succeeded", "Failed"}]

-----------------------------------------------------------------------------
(* ActivityStore.                                                          *)

Verdict(ok) == IF ok THEN "Succeeded" ELSE "Failed"

\* Mutant: the list grows without limit.
ListedUnbounded(id) == <<[id |-> id, state |-> "Pending"]>> \o activities

\* Mutant: beyond the limit the newest is dropped, being the first.
ListedDropsNewest(id) ==
  IF Len(activities) >= MaxActivities THEN activities
  ELSE <<[id |-> id, state |-> "Pending"]>> \o activities

\* begin: newest first, the oldest dropped beyond the limit.
Listed(id) ==
  LET all == <<[id |-> id, state |-> "Pending"]>> \o activities
  IN SubSeq(all, 1, IF Len(all) > MaxActivities THEN MaxActivities ELSE Len(all))

\* Mutant: a result completes the activity that waits longest.
CompletedOldest(id, ok) ==
  [i \in DOMAIN activities |->
     IF activities[i].state = "Pending" /\ \A j \in DOMAIN activities :
                                             j > i => activities[j].state # "Pending"
     THEN [activities[i] EXCEPT !.state = Verdict(ok)] ELSE activities[i]]

\* complete: the activity of that id, if it is still listed, whatever it says.
Completed(id, ok) ==
  [i \in DOMAIN activities |->
     IF activities[i].id = id THEN [activities[i] EXCEPT !.state = Verdict(ok)]
     ELSE activities[i]]

-----------------------------------------------------------------------------
(* LVGL thread: dispatch, in its two halves.                               *)

\* make_id and begin; an outlet or wol command is carried out right here.
Dispatch(kind) ==
  /\ dispatching = None /\ Len(kinds) < MaxCommands
  /\ kinds' = Append(kinds, kind)
  /\ dispatching' = Len(kinds) + 1
  /\ activities' = Listed(Len(kinds) + 1)
  /\ UNCHANGED <<serverVars, online, agentVars, netVars, executed>>

\* on_reboot, on_shutdown, on_service and on_script ask that the host is shown
\* online, and so does the engine; outlet and wol commands need no agent.
Press(kind) == (kind = "agent" => online) /\ Dispatch(kind)

\* set_outlet or send_wol returned.
DispatchLocal ==
  /\ dispatching # None /\ kinds[dispatching] = "local"
  /\ \E ok \in BOOLEAN : activities' = Completed(dispatching, ok)
  /\ dispatching' = None
  /\ UNCHANGED <<kinds, serverVars, online, agentVars, netVars, executed>>

\* Mutant: a command goes in front of those that wait in the session.
SendCommandInFront(c) ==
  /\ dispatching # None /\ kinds[dispatching] = "agent"
  /\ c \in greeted
  /\ pendingTx' = [pendingTx EXCEPT ![c] = <<dispatching>> \o @]
  /\ serverWants' = serverWants \cup {c}
  /\ dispatching' = None
  /\ UNCHANGED <<activities, kinds, sessions, greeted, online, agentVars, netVars, executed>>

\* send_command: the first session of the host in the order of the map,
\* whose keys are addresses: any of them.
SendCommand(c) ==
  /\ dispatching # None /\ kinds[dispatching] = "agent"
  /\ c \in greeted
  /\ pendingTx' = [pendingTx EXCEPT ![c] = Append(@, dispatching)]
  /\ serverWants' = serverWants \cup {c}
  /\ dispatching' = None
  /\ UNCHANGED <<activities, kinds, sessions, greeted, online, agentVars, netVars, executed>>

\* "host is not connected"
SendRefused ==
  /\ dispatching # None /\ kinds[dispatching] = "agent"
  /\ greeted = {}
  /\ activities' = Completed(dispatching, FALSE)
  /\ dispatching' = None
  /\ UNCHANGED <<kinds, serverVars, online, agentVars, netVars, executed>>

\* LVGL thread: tick_online_status after 15 seconds without a message.  How
\* old the last message is is not modelled: it may be too old at any time.
TickOnlineStatus ==
  /\ online
  /\ online' = FALSE
  /\ UNCHANGED <<storeVars, serverVars, agentVars, netVars, executed>>

-----------------------------------------------------------------------------
(* The server's libwebsockets thread.                                      *)

\* LWS_CALLBACK_CLOSED: the session goes with what it had queued, and its
\* host is marked offline, whatever other session that has.
ServerClosed(c) ==
  /\ c \in sessions /\ c \notin intact
  /\ sessions' = sessions \ {c} /\ greeted' = greeted \ {c}
  /\ pendingTx' = [pendingTx EXCEPT ![c] = <<>>]
  /\ serverWants' = serverWants \ {c}
  /\ toServer' = [toServer EXCEPT ![c] = <<>>]
  /\ online' = (online /\ c \notin greeted)
  /\ UNCHANGED <<storeVars, agentVars, made, intact, toAgent, executed>>

\* Mutant: metrics do not bring a host back that was marked offline.
ServerReceiveQuietMetrics(c) ==
  /\ c \in sessions /\ toServer[c] # <<>>
  /\ LET m == Head(toServer[c])
     IN /\ online' = (online \/ m.type = "hello")
        /\ greeted' = IF m.type = "hello" THEN greeted \cup {c} ELSE greeted
        /\ activities' = IF m.type = "cmd_result" THEN Completed(m.id, m.ok) ELSE activities
  /\ toServer' = [toServer EXCEPT ![c] = Tail(@)]
  /\ UNCHANGED <<kinds, dispatching, sessions, pendingTx, serverWants,
                 agentVars, made, intact, toAgent, executed>>

\* LWS_CALLBACK_RECEIVE of a whole message: update_hello, update_metrics,
\* complete.
ServerReceive(c) ==
  /\ c \in sessions /\ toServer[c] # <<>>
  /\ LET m == Head(toServer[c])
     IN /\ online' = (online \/ m.type \in {"hello", "metrics"})
        /\ greeted' = IF m.type = "hello" THEN greeted \cup {c} ELSE greeted
        /\ activities' = IF m.type = "cmd_result" THEN Completed(m.id, m.ok) ELSE activities
  /\ toServer' = [toServer EXCEPT ![c] = Tail(@)]
  /\ UNCHANGED <<kinds, dispatching, sessions, pendingTx, serverWants,
                 agentVars, made, intact, toAgent, executed>>

\* A message written to a broken connection is lost.
Written(stream, c, m) == IF c \in intact THEN [stream EXCEPT ![c] = Append(@, m)] ELSE stream

\* Mutant: no further callback is asked for while messages wait.
ServerWriteableOnce(c) ==
  /\ c \in serverWants /\ Len(toAgent[c]) < MaxFlight
  /\ pendingTx[c] # <<>>
  /\ toAgent' = Written(toAgent, c, Head(pendingTx[c]))
  /\ pendingTx' = [pendingTx EXCEPT ![c] = Tail(@)]
  /\ serverWants' = serverWants \ {c}
  /\ UNCHANGED <<storeVars, sessions, greeted, online, agentVars, made, intact,
                 toServer, executed>>

\* LWS_CALLBACK_SERVER_WRITEABLE
ServerWriteable(c) ==
  /\ c \in serverWants /\ Len(toAgent[c]) < MaxFlight
  /\ pendingTx[c] # <<>>
  /\ toAgent' = Written(toAgent, c, Head(pendingTx[c]))
  /\ pendingTx' = [pendingTx EXCEPT ![c] = Tail(@)]
  /\ serverWants' = IF Len(pendingTx[c]) > 1 THEN serverWants ELSE serverWants \ {c}
  /\ UNCHANGED <<storeVars, sessions, greeted, online, agentVars, made, intact,
                 toServer, executed>>

-----------------------------------------------------------------------------
(* The agent.                                                              *)

\* Mutant: hello is only said on the first connection.
EstablishedHelloOnce(c) ==
  /\ wsi = None /\ c = made + 1
  /\ made' = c /\ intact' = intact \cup {c}
  /\ sessions' = sessions \cup {c}
  /\ wsi' = c /\ queue' = IF c = 1 THEN Append(queue, Hello) ELSE queue
  /\ agentWants' = TRUE
  /\ UNCHANGED <<storeVars, greeted, pendingTx, serverWants, online, woken,
                 toServer, toAgent, executed>>

\* run's lws_client_connect_via_info, with ESTABLISHED on both sides: the
\* server opens a session, the agent queues a hello behind what it has.  An
\* attempt that ends in CONNECTION_ERROR changes nothing and is retried.
Established(c) ==
  /\ wsi = None /\ c = made + 1
  /\ made' = c /\ intact' = intact \cup {c}
  /\ sessions' = sessions \cup {c}
  /\ wsi' = c /\ queue' = Append(queue, Hello) /\ agentWants' = TRUE
  /\ UNCHANGED <<storeVars, greeted, pendingTx, serverWants, online, woken,
                 toServer, toAgent, executed>>

\* LWS_CALLBACK_CLIENT_CLOSED: the agent notices; its queue stays.
AgentClosed ==
  /\ wsi # None /\ wsi \notin intact
  /\ wsi' = None /\ agentWants' = FALSE
  /\ toAgent' = [toAgent EXCEPT ![wsi] = <<>>]
  /\ UNCHANGED <<storeVars, serverVars, online, queue, woken, made, intact, toServer, executed>>

\* enqueue, by the main thread with the metrics of an interval: the service
\* loop is woken.
Collect ==
  /\ Len(queue) < MaxBacklog
  /\ queue' = Append(queue, Metrics)
  /\ woken' = TRUE
  /\ UNCHANGED <<storeVars, serverVars, online, wsi, agentWants, netVars, executed>>

\* LWS_CALLBACK_EVENT_WAIT_CANCELLED
WaitCancelled ==
  /\ woken
  /\ woken' = FALSE
  /\ agentWants' = (agentWants \/ (wsi # None /\ queue # <<>>))
  /\ UNCHANGED <<storeVars, serverVars, online, wsi, queue, netVars, executed>>

\* ControlHandler::dispatch: carried out, refused by the configuration, unknown
\* or failed; there is always an answer, and only one.
Answers(id) == {[id |-> id, ok |-> ok] : ok \in BOOLEAN}

\* Mutant: the result of a command waits for the next metrics to be sent.
AgentReceiveNoRequest ==
  /\ wsi # None /\ toAgent[wsi] # <<>>
  /\ \E a \in Answers(Head(toAgent[wsi])) :
       /\ executed' = Append(executed, a)
       /\ queue' = Append(queue, Result(a.id, a.ok))
  /\ toAgent' = [toAgent EXCEPT ![wsi] = Tail(@)]
  /\ UNCHANGED <<storeVars, serverVars, online, wsi, agentWants, woken, made, intact, toServer>>

\* LWS_CALLBACK_CLIENT_RECEIVE: the command is executed, or denied, before
\* the next one is looked at.  What does not parse would be dropped without
\* an answer; the server only sends commands it serialized itself.
AgentReceive ==
  /\ wsi # None /\ toAgent[wsi] # <<>>
  /\ \E a \in Answers(Head(toAgent[wsi])) :
       /\ executed' = Append(executed, a)
       /\ queue' = Append(queue, Result(a.id, a.ok))
  /\ toAgent' = [toAgent EXCEPT ![wsi] = Tail(@)]
  /\ agentWants' = TRUE
  /\ UNCHANGED <<storeVars, serverVars, online, wsi, woken, made, intact, toServer>>

\* LWS_CALLBACK_CLIENT_WRITEABLE: flush_one.
FlushOne ==
  /\ wsi # None /\ agentWants /\ Len(toServer[wsi]) < MaxFlight
  /\ queue # <<>>
  /\ queue' = Tail(queue)
  /\ toServer' = Written(toServer, wsi, Head(queue))
  /\ agentWants' = (Len(queue) > 1)
  /\ UNCHANGED <<storeVars, serverVars, online, wsi, woken, made, intact, toAgent, executed>>

\* The process ends: stopped, crashed, or its host going down.
AgentExit ==
  /\ made < MaxConns
  /\ wsi' = None /\ queue' = <<>> /\ agentWants' = FALSE /\ woken' = FALSE
  /\ intact' = intact \ {wsi}
  /\ toAgent' = IF wsi = None THEN toAgent ELSE [toAgent EXCEPT ![wsi] = <<>>]
  /\ UNCHANGED <<storeVars, serverVars, online, made, toServer, executed>>

\* The connection breaks; nobody has noticed yet.
Break ==
  /\ wsi \in intact /\ made < MaxConns
  /\ intact' = intact \ {wsi}
  /\ UNCHANGED <<storeVars, serverVars, online, agentVars, made, toServer, toAgent, executed>>

-----------------------------------------------------------------------------

Init ==
  /\ activities = <<>> /\ kinds = <<>> /\ dispatching = None
  /\ sessions = {} /\ greeted = {} /\ serverWants = {}
  /\ pendingTx = [c \in Conn |-> <<>>]
  /\ online = FALSE
  /\ wsi = None /\ queue = <<>> /\ agentWants = FALSE /\ woken = FALSE
  /\ made = 0 /\ intact = {}
  /\ toServer = [c \in Conn |-> <<>>] /\ toAgent = [c \in Conn |-> <<>>]
  /\ executed = <<>>

Send == (\E c \in Conn : SendCommand(c)) \/ SendRefused \/ DispatchLocal

Server == \E c \in Conn : ServerReceive(c) \/ ServerWriteable(c)

Client ==
  \/ \E c \in Conn : Established(c)
  \/ AgentClosed \/ WaitCancelled \/ AgentReceive \/ FlushOne

Next ==
  \/ \E kind \in {"agent", "local"} : Press(kind)
  \/ Send \/ Server \/ Client \/ Collect
  \/ TickOnlineStatus
  \/ \E c \in Conn : ServerClosed(c)
  \/ AgentExit \/ Break

Spec == Init /\ [][Next]_vars

\* Both libwebsockets loops run and the agent collects.  A server need not
\* ever notice that a peer is gone.
Fairness ==
  /\ WF_vars(Send)
  /\ \A c \in Conn : WF_vars(ServerReceive(c)) /\ WF_vars(ServerWriteable(c))
  /\ WF_vars(\E c \in Conn : Established(c)) /\ WF_vars(AgentClosed)
  /\ WF_vars(WaitCancelled) /\ WF_vars(AgentReceive) /\ WF_vars(FlushOne)
  /\ WF_vars(Collect)

FairSpec == Spec /\ Fairness

-----------------------------------------------------------------------------
(* Properties.                                                             *)

TypeOK ==
  /\ activities \in Seq(Activity) /\ Len(activities) <= MaxActivities
  /\ kinds \in Seq({"agent", "local"}) /\ Len(kinds) <= MaxCommands
  /\ dispatching \in 0..Len(kinds)
  /\ greeted \subseteq sessions /\ serverWants \subseteq sessions
  /\ sessions \subseteq 1..made
  /\ pendingTx \in [Conn -> Seq(Id)]
  /\ online \in BOOLEAN /\ agentWants \in BOOLEAN /\ woken \in BOOLEAN
  /\ wsi \in 0..made /\ queue \in Seq(Message)
  /\ made \in 0..MaxConns /\ intact \subseteq 1..made
  /\ toServer \in [Conn -> Seq(Message)] /\ toAgent \in [Conn -> Seq(Id)]
  /\ executed \in Seq([id : Id, ok : BOOLEAN])

(* The agent executes commands in the order they were dispatched and none  *)
(* twice, through every loss of the connection and beside sessions of      *)
(* connections it has left.                                                *)
ExecutedInOrder ==
  \A i, j \in DOMAIN executed : i < j => executed[i].id < executed[j].id

Underway(id) ==
  \/ dispatching = id
  \/ \E c \in sessions : id \in ToSet(pendingTx[c])
  \/ \E c \in Conn : id \in ToSet(toAgent[c])

(* What the activity screen says of a command is so: Succeeded or Failed   *)
(* is how its agent ended it, or Failed means it never reached and never   *)
(* will reach an agent.                                                    *)
AnswersTrue ==
  \A i \in DOMAIN activities :
    LET a == activities[i]
        done == {k \in DOMAIN executed : executed[k].id = a.id}
    IN (kinds[a.id] = "agent" /\ a.state # "Pending") =>
         \/ \E k \in done : Verdict(executed[k].ok) = a.state
         \/ a.state = "Failed" /\ done = {} /\ ~Underway(a.id)

(* Whatever waits to be sent has a writable callback coming, on both       *)
(* sides: neither the thread that queued it nor the one that sent the      *)
(* message before it forgot to ask.                                        *)
NothingForgotten ==
  /\ (wsi # None /\ queue # <<>>) => agentWants \/ woken
  /\ \A c \in sessions : pendingTx[c] # <<>> => c \in serverWants

(* However connections broke before, a host whose connection holds is      *)
(* shown online again and takes commands, even beside its stale sessions.  *)
Reachable == []<>(online /\ wsi \in greeted)

OnItsWay(id) == \E c \in intact : id \in ToSet(pendingTx[c]) \cup ToSet(toAgent[c])

Settled(id) == ~\E i \in DOMAIN activities : activities[i] = [id |-> id, state |-> "Pending"]

(* A command in the session of a connection that holds is answered.        *)
AnsweredWhileUp ==
  \A id \in Id : OnItsWay(id) ~> (Settled(id) \/ wsi \notin intact)

\* What the activity list, which is newest first, says of each command.
Shown ==
  [id \in 1..Len(kinds) |->
     IF Len(kinds) + 1 - id \in DOMAIN activities
     THEN activities[Len(kinds) + 1 - id].state ELSE "Dropped"]

Life == INSTANCE CommandLife WITH
  Memory <- MaxActivities, carried <- executed, told <- Shown

(* The whole path of a command implements a CommandLife: through sessions  *)
(* that die, queues that outlive them and a list that drops its oldest,    *)
(* each command is carried out at most once and in order, none that is     *)
(* shown refused, and each still listed is told one outcome, its own.      *)
ImplementsLife == Life!Spec
=============================================================================
