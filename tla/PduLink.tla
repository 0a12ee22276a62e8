------------------------------ MODULE PduLink ------------------------------
(***************************************************************************)
(* The link to the PDU: the polling thread of main.cpp, the HTTP client    *)
(* (pdu/synlink_client.cpp), the store it fills (pdu/pdu_store.cpp) and    *)
(* the Power page that shows the outlets and switches them                 *)
(* (ui/screen_pdu.cpp).                                                    *)
(*                                                                         *)
(* Two threads use the client.  The polling thread asks for the outlets    *)
(* and then for the inlets, and stores both.  A tap on a tile makes the    *)
(* LVGL thread look the outlet's id up, ask the PDU for ids if it has      *)
(* none, and PUT.  Nothing keeps a poll that read the outlets before the   *)
(* PUT from being stored after it.                                         *)
(***************************************************************************)
EXTENDS Integers, FiniteSets

CONSTANTS
  Outlet,       \* the outlets of the PDU, all within MAX_OUTLETS
  Identified,   \* those the PDU gives a string id for
  MaxTaps,      \* bound on taps
  MaxChanges    \* bound on what happens to the PDU, and on restarts

ASSUME LinkAssumption ==
  /\ Identified \subseteq Outlet
  /\ {MaxTaps, MaxChanges} \subseteq Nat

VARIABLES
  \* the PDU: outlets on; whether it answers; what its inlets report
  on, link, meter,
  \* pdu_thread: where it is, what its GET /outlets returned, and whether
  \* the snapshot has measurements
  poll,
  \* SynlinkClient::outlet_ids_
  outletIds,
  \* PduStore: outlets_, healthy_, measurements_available_
  shown, healthy, measured,
  \* the LVGL thread inside set_outlet
  put,
  \* ScreenPdu: its tiles, and whether load and health are shown
  drawn,
  \* bounds; history: updates of the store since each outlet last changed,
  \* where two and more are the same
  taps, changes, since

pduVars == <<on, link, meter>>
storeVars == <<shown, healthy, measured>>
linkVars == <<pduVars, poll, outletIds, storeVars, put, drawn, taps, changes, since>>

NoOutlets == [o \in {} |-> FALSE]
Unknown == [o \in Outlet |-> FALSE]

Idle == [at |-> "idle"]

\* What the process starts with, the store and the client empty.
StartPoll == [at |-> "start", got |-> NoOutlets, measured |-> FALSE]
StartPage == [tile |-> Unknown, load |-> FALSE, connected |-> FALSE]

LinkInit ==
  /\ on \in SUBSET Outlet
  /\ link = "up" /\ meter \in {"number", "none"}
  /\ poll = StartPoll /\ outletIds = {}
  /\ shown = NoOutlets /\ healthy = FALSE /\ measured = FALSE
  /\ put = Idle /\ drawn = StartPage /\ since = [o \in Outlet |-> 0]
  /\ taps = 0 /\ changes = 0

-----------------------------------------------------------------------------
(* The PDU, and what happens to it.                                        *)

Count == changes < MaxChanges /\ changes' = changes + 1

\* It answers, answers with empty lists, or does not answer.
LinkChanges ==
  /\ Count
  /\ \E l \in {"up", "booting", "down"} \ {link}, m \in {"number", "none", "garbled"} :
       link' = l /\ meter' = m
  /\ UNCHANGED <<on, poll, outletIds, storeVars, put, drawn, taps, since>>

\* An outlet is switched at the PDU itself, or by another client.
SwitchedElsewhere(o) ==
  /\ Count
  /\ on' = IF o \in on THEN on \ {o} ELSE on \cup {o}
  /\ since' = [since EXCEPT ![o] = 0]
  /\ UNCHANGED <<link, meter, poll, outletIds, storeVars, put, drawn, taps>>

\* The process stops anywhere and starts again; only the PDU stays.
PduRestart ==
  /\ Count
  /\ poll' = StartPoll /\ outletIds' = {}
  /\ shown' = NoOutlets /\ healthy' = FALSE /\ measured' = FALSE
  /\ put' = Idle /\ drawn' = StartPage
  /\ UNCHANGED <<pduVars, taps, since>>

-----------------------------------------------------------------------------
(* The polling thread: get_snapshot and the loop in main.                  *)

\* mark_poll_failed: what was stored before stays.
MarkPollFailed ==
  /\ healthy' = FALSE
  /\ UNCHANGED <<shown, measured, since>>

ThreadOnly == UNCHANGED <<pduVars, put, drawn, taps, changes>>

\* Mutant: without an answer the snapshot of the poll before is used again.
PollOutletsAgain ==
  /\ poll.at = "start"
  /\ poll' = [poll EXCEPT !.at = "inlets",
                          !.got = IF link = "up" THEN [o \in Outlet |-> o \in on]
                                  ELSE IF link = "booting" THEN NoOutlets ELSE @]
  /\ UNCHANGED <<storeVars, since, outletIds>>
  /\ ThreadOnly

\* GET /outlets.
PollOutlets ==
  /\ poll.at = "start"
  /\ \/ /\ link = "down"
        /\ MarkPollFailed /\ UNCHANGED poll
     \/ /\ link = "booting"
        /\ poll' = [poll EXCEPT !.at = "inlets", !.got = NoOutlets]
        /\ UNCHANGED <<storeVars, since>>
     \/ /\ link = "up"
        /\ poll' = [poll EXCEPT !.at = "inlets", !.got = [o \in Outlet |-> o \in on]]
        /\ UNCHANGED <<storeVars, since>>
  /\ UNCHANGED outletIds
  /\ ThreadOnly

Garbled == link = "up" /\ meter = "garbled"

\* GET /inlets: without an answer the snapshot has no measurements; one that
\* does not parse throws the whole snapshot away, before the ids are stored.
PollInlets ==
  /\ poll.at = "inlets"
  /\ IF Garbled
     THEN UNCHANGED outletIds
     ELSE outletIds' = DOMAIN poll.got \cap Identified
  /\ IF Garbled \/ poll.got = NoOutlets
     THEN MarkPollFailed /\ poll' = [poll EXCEPT !.at = "start"]
     ELSE /\ poll' = [poll EXCEPT !.at = "deliver",
                                  !.measured = link = "up" /\ meter = "number"]
          /\ UNCHANGED <<storeVars, since>>
  /\ ThreadOnly

Counted(updates) == IF updates = 2 THEN 2 ELSE updates + 1

\* Mutant: update leaves healthy_ to the next poll.
UpdateNotHealthy ==
  /\ poll.at = "deliver"
  /\ poll' = [poll EXCEPT !.at = "start"]
  /\ shown' = poll.got /\ measured' = poll.measured
  /\ since' = [o \in Outlet |-> Counted(since[o])]
  /\ UNCHANGED <<healthy, outletIds>>
  /\ ThreadOnly

\* PduStore::update
PduUpdate ==
  /\ poll.at = "deliver"
  /\ poll' = [poll EXCEPT !.at = "start"]
  /\ shown' = poll.got /\ healthy' = TRUE /\ measured' = poll.measured
  /\ since' = [o \in Outlet |-> Counted(since[o])]
  /\ UNCHANGED outletIds
  /\ ThreadOnly

-----------------------------------------------------------------------------
(* The Power page, on the LVGL thread.                                     *)

PageOnly == UNCHANGED <<pduVars, poll, storeVars, changes, since>>

\* get_outlet
ShownOn(o) == o \in DOMAIN shown /\ shown[o]

\* A tap on a tile commands the opposite of what is stored, and ON if that is
\* unknown; then the first lookup of the id in set_outlet.
Tap(o) ==
  /\ put = Idle /\ taps < MaxTaps
  /\ taps' = taps + 1
  /\ put' = [at |-> IF o \in outletIds THEN "put" ELSE "outlets",
             outlet |-> o, want |-> ~ShownOn(o), ids |-> {}]
  /\ UNCHANGED <<outletIds, drawn>>
  /\ PageOnly

\* get_snapshot from set_outlet, of which only the ids are kept: GET /outlets
\* and GET /inlets, each with the PDU as it is then.
GetOutletsForPut ==
  /\ put.at = "outlets"
  /\ put' = IF link = "down" THEN [put EXCEPT !.at = "again"]
            ELSE [put EXCEPT !.at = "inlets",
                             !.ids = IF link = "up" THEN Identified ELSE {}]
  /\ UNCHANGED <<outletIds, drawn, taps>>
  /\ PageOnly

GetInletsForPut ==
  /\ put.at = "inlets"
  /\ put' = [put EXCEPT !.at = "again"]
  /\ outletIds' = IF Garbled THEN outletIds ELSE put.ids
  /\ UNCHANGED <<drawn, taps>>
  /\ PageOnly

\* The second lookup; without an id the answer is no.
LookAgain ==
  /\ put.at = "again"
  /\ put' = IF put.outlet \in outletIds THEN [put EXCEPT !.at = "put"] ELSE Idle
  /\ UNCHANGED <<outletIds, drawn, taps>>
  /\ PageOnly

\* The PDU carries the PUT out; a PUT that does not arrive, or is refused,
\* is answered with no.
PutArrives ==
  /\ put.at = "put"
  /\ IF link = "up"
     THEN /\ on' = IF put.want THEN on \cup {put.outlet} ELSE on \ {put.outlet}
          /\ since' = IF on' = on THEN since ELSE [since EXCEPT ![put.outlet] = 0]
          /\ put' = [put EXCEPT !.at = "answer"]
     ELSE put' = Idle /\ UNCHANGED <<on, since>>
  /\ UNCHANGED <<link, meter, poll, outletIds, storeVars, drawn, taps, changes>>

\* The answer, or the end of curl's patience, lets the LVGL thread go on.
\* Nothing is stored: the page waits for the next poll.
PutAnswered ==
  /\ put.at = "answer"
  /\ put' = Idle
  /\ UNCHANGED <<outletIds, drawn, taps>>
  /\ PageOnly

\* ScreenPdu::refresh: tiles of outlets the store lacks stay as they are.
PageRefresh ==
  /\ put = Idle
  /\ drawn' = [tile |-> [o \in Outlet |-> IF o \in DOMAIN shown THEN shown[o]
                                          ELSE drawn.tile[o]],
               load |-> measured, connected |-> healthy]
  /\ UNCHANGED <<outletIds, put, taps>>
  /\ PageOnly

-----------------------------------------------------------------------------
PollStep == PollOutlets \/ PollInlets \/ PduUpdate
PutStep == GetOutletsForPut \/ GetInletsForPut \/ LookAgain \/ PutArrives \/ PutAnswered
LinkNext == \/ PollStep \/ PutStep \/ PageRefresh \/ LinkChanges \/ PduRestart
        \/ \E o \in Outlet : Tap(o) \/ SwitchedElsewhere(o)

\* The polling thread and LVGL's timers go on, and curl gives up after 5 s.
Fairness == WF_linkVars(PollStep) /\ WF_linkVars(PutStep) /\ WF_linkVars(PageRefresh)

LinkSpec == LinkInit /\ [][LinkNext]_linkVars /\ Fairness

-----------------------------------------------------------------------------
(* Once nobody switches anything and the PDU keeps answering or keeps      *)
(* silent, the page shows the outlets as they are, or that it is           *)
(* disconnected.  Nothing but the next poll corrects a reading that was    *)
(* older than a PUT (synlink_client.cpp 59, main.cpp 177).                 *)
PageSettles ==
  <>[](/\ drawn.connected = (link = "up" /\ meter # "garbled")
       /\ drawn.connected => \A o \in Outlet : drawn.tile[o] = (o \in on))

(* A reading older than a switch, by a PUT or at the PDU itself, may be    *)
(* stored after it, but only once: two updates after an outlet last        *)
(* changed the store has it as it is, whatever polls failed in between,    *)
(* and a tap or a step of a power sequence that reads it then reads the    *)
(* truth (main.cpp 177-191, synlink_client.cpp 59-102).  After one update  *)
(* it need not.                                                            *)
StaleAtMostOnce ==
  \A o \in DOMAIN shown : since[o] = 2 => shown[o] = (o \in on)
=============================================================================
