---------------------------- MODULE GracefulOff ----------------------------
(***************************************************************************)
(* "Graceful Off" on a host's page: ask the agent to shut down, wait until *)
(* the host is shown offline, cut its outlet                               *)
(* (control-pi/src/ui/screen_host_detail.cpp), with the page navigation    *)
(* and the theme change of app_shell.cpp that happen around it.            *)
(*                                                                         *)
(* There is one page object for all hosts.  It is rebuilt when another     *)
(* host is opened, kept when the user leaves it, and destroyed by a change *)
(* of theme.  Two LVGL timers hold a pointer to it: the poll timer, which  *)
(* the page knows of, and one-shot timers that reset the page three        *)
(* seconds after a cut, which nobody knows of.  All of this runs on the    *)
(* LVGL thread; hosts come and go by the WebSocket thread and the PDU's    *)
(* outlets by the polling thread.                                          *)
(***************************************************************************)
EXTENDS Integers, Sequences, FiniteSets, SequencesExt

CONSTANTS
  Host, NoHost,
  AgentOutlet,     \* the outlet each agent's hello reports, 0 = none
  Overrides,       \* the overrides a user may save, besides none
  PduOutlet,       \* the outlets the PDU reports
  PendingLimit,    \* 120 s to go offline
  TotalLimit,      \* 300 s to find the outlet
  ResetDelay,      \* 3 s from the cut to the reset of the page
  MaxResets,       \* bound on outstanding resets
  MaxThemes        \* bound on changes of theme

NoOverride == -1

ASSUME GracefulAssumption ==
  /\ NoHost \notin Host
  /\ AgentOutlet \in [Host -> Nat]
  /\ Overrides \subseteq Nat /\ PduOutlet \subseteq Nat
  /\ {PendingLimit, TotalLimit, ResetDelay, MaxResets, MaxThemes} \subseteq Nat

VARIABLES
  \* ScreenHostDetail: current_host_, visible_, shutdown_state_, seconds
  \* since shutdown_started_, shutdown_poll_timer_, the CLICKABLE flag of the
  \* two shutdown buttons
  currentHost, visible, shutdownState, elapsed, pollTimer, clickable,
  \* the one-shot reset timers LVGL holds, by seconds left
  resets,
  \* LVGL timers that point to a destroyed page; one of them has fired
  dangling, undefined,
  \* MetricsStore: hosts with an entry, online, pdu_outlet_override
  known, online, override,
  \* PduStore: the outlets get_outlet finds
  reported,
  themes,
  \* history: the host of the last request; it was offline since
  asked, sawOffline

pageVars == <<currentHost, visible, shutdownState, elapsed, pollTimer, clickable>>
timerVars == <<resets, dangling, undefined>>
hostVars == <<known, online, override>>
historyVars == <<asked, sawOffline>>
vars == <<pageVars, timerVars, hostVars, reported, themes, historyVars>>

PowerState == {"Normal", "ShutdownPending", "WaitingOutlet", "OutletOff"}

Waiting == shutdownState \in {"ShutdownPending", "WaitingOutlet"}

\* effective_pdu_outlet
Outlet(h) == IF override[h] >= 0 THEN override[h] ELSE AgentOutlet[h]

-----------------------------------------------------------------------------
(* The page.                                                               *)

\* Mutant: a rebuilt page keeps the request of the host it showed before.
RebuildKeepingState ==
  /\ clickable' = TRUE
  /\ UNCHANGED <<shutdownState, elapsed, pollTimer>>

\* rebuild: the poll timer is deleted and the request forgotten; the buttons
\* are new ones.  One-shot timers are left alone.
Rebuild ==
  /\ shutdownState' = "Normal" /\ elapsed' = 0
  /\ pollTimer' = FALSE
  /\ clickable' = TRUE

\* reset_shutdown_state
ResetShutdownState ==
  /\ shutdownState' = "Normal" /\ elapsed' = 0
  /\ pollTimer' = FALSE
  /\ clickable' = TRUE
  /\ UNCHANGED <<currentHost, visible>>

\* show_host_detail, from a card of the overview or the host list.
ShowHost(h) ==
  /\ ~visible /\ h \in known
  /\ visible' = TRUE
  /\ currentHost' = h
  /\ IF currentHost = h
     THEN UNCHANGED <<shutdownState, elapsed, pollTimer, clickable>>
     ELSE Rebuild
  /\ UNCHANGED <<timerVars, hostVars, reported, themes, historyVars>>

\* pop_host_detail, or another tab: the page is hidden and keeps what it was
\* doing.
Leave ==
  /\ visible
  /\ visible' = FALSE
  /\ UNCHANGED <<currentHost, shutdownState, elapsed, pollTimer, clickable,
                 timerVars, hostVars, reported, themes, historyVars>>

\* Mutant: the buttons stay clickable while the request runs.
GracefulLeavesButtons ==
  /\ visible /\ clickable
  /\ currentHost \in online /\ Outlet(currentHost) > 0
  /\ shutdownState' = "ShutdownPending" /\ elapsed' = 0
  /\ pollTimer' = TRUE
  /\ asked' = currentHost /\ sawOffline' = FALSE
  /\ UNCHANGED <<currentHost, visible, clickable, timerVars, hostVars, reported, themes>>

\* on_shutdown_graceful.  For a host that is offline or has no outlet it is
\* on_shutdown, which the page keeps no state of.
Graceful ==
  /\ visible /\ clickable
  /\ currentHost \in online /\ Outlet(currentHost) > 0
  /\ shutdownState' = "ShutdownPending" /\ elapsed' = 0
  /\ pollTimer' = TRUE /\ clickable' = FALSE
  /\ asked' = currentHost /\ sawOffline' = FALSE
  /\ UNCHANGED <<currentHost, visible, timerVars, hostVars, reported, themes>>

\* on_pdu_save: the override is stored and the page rebuilt.
SaveOverride(o) ==
  /\ visible /\ currentHost \in known
  /\ override' = [override EXCEPT ![currentHost] = o]
  /\ Rebuild
  /\ UNCHANGED <<currentHost, visible, timerVars, known, online, reported, themes, historyVars>>

\* on_pdu_clear: stored, without a rebuild.
ClearOverride ==
  /\ visible /\ currentHost \in known
  /\ override[currentHost] # NoOverride
  /\ override' = [override EXCEPT ![currentHost] = NoOverride]
  /\ UNCHANGED <<pageVars, timerVars, known, online, reported, themes, historyVars>>

\* on_remove_confirm: the entry goes, the page forgets its host but not its
\* request.
RemoveHost ==
  /\ visible /\ currentHost \in known
  /\ known' = known \ {currentHost} /\ online' = online \ {currentHost}
  /\ override' = [override EXCEPT ![currentHost] = NoOverride]
  /\ sawOffline' = (sawOffline \/ asked = currentHost)
  /\ currentHost' = NoHost /\ visible' = FALSE
  /\ UNCHANGED <<shutdownState, elapsed, pollTimer, clickable, timerVars, reported,
                 themes, asked>>

-----------------------------------------------------------------------------
(* poll_graceful_shutdown, by its own timer or by the two-second refresh   *)
(* of a visible page.  The outlet is cut with a PUT that blocks the LVGL   *)
(* thread; the page reads nothing after it.                                *)

Polling == pollTimer \/ (visible /\ currentHost \in known)

\* Offline, or removed: go on to the outlet.
PollOffline ==
  /\ Polling /\ shutdownState = "ShutdownPending"
  /\ currentHost \notin online
  /\ shutdownState' = "WaitingOutlet"
  /\ UNCHANGED <<currentHost, visible, elapsed, pollTimer, clickable, timerVars,
                 hostVars, reported, themes, historyVars>>

CanCut == currentHost \in known /\ Outlet(currentHost) > 0 /\ Outlet(currentHost) \in reported

\* The PDU knows the outlet: cut it, and reset the page in three seconds.
PollCut ==
  /\ Polling /\ shutdownState = "WaitingOutlet"
  /\ CanCut /\ Len(resets) < MaxResets
  /\ shutdownState' = "OutletOff"
  /\ resets' = Append(resets, ResetDelay)
  /\ pollTimer' = FALSE
  /\ UNCHANGED <<currentHost, visible, elapsed, clickable, dangling, undefined,
                 hostVars, reported, themes, historyVars>>

\* Mutant: the second stage has no time limit.
PollGiveUpPendingOnly ==
  /\ Polling
  /\ shutdownState = "ShutdownPending" /\ currentHost \in online /\ elapsed > PendingLimit
  /\ ResetShutdownState
  /\ UNCHANGED <<timerVars, hostVars, reported, themes, historyVars>>

\* Either stage took too long.
PollGiveUp ==
  /\ Polling
  /\ \/ shutdownState = "ShutdownPending" /\ currentHost \in online /\ elapsed > PendingLimit
     \/ shutdownState = "WaitingOutlet" /\ ~CanCut /\ elapsed > TotalLimit
  /\ ResetShutdownState
  /\ UNCHANGED <<timerVars, hostVars, reported, themes, historyVars>>

Poll == PollOffline \/ PollCut \/ PollGiveUp

\* A one-shot timer is due: it resets the page, whatever that is doing now.
ResetFires(i) ==
  /\ resets[i] = 0
  /\ resets' = RemoveAt(resets, i)
  /\ ResetShutdownState
  /\ UNCHANGED <<dangling, undefined, hostVars, reported, themes, historyVars>>

-----------------------------------------------------------------------------
(* Themes.                                                                 *)

\* rebuild_ui, from the Settings tab: AppShell deletes its own timers and the
\* page, which has no destructor, so the page's timers stay with LVGL.
RebuildUi ==
  /\ ~visible /\ themes < MaxThemes
  /\ themes' = themes + 1
  /\ currentHost' = NoHost
  /\ Rebuild
  /\ dangling' = (dangling \/ pollTimer \/ resets # <<>>)
  /\ resets' = <<>>
  /\ UNCHANGED <<visible, undefined, hostVars, reported, historyVars>>

\* One of them fires on the destroyed page.  The behaviour is undefined from
\* here on: the model stops.
DanglingFires ==
  /\ dangling
  /\ undefined' = TRUE
  /\ UNCHANGED <<pageVars, resets, dangling, hostVars, reported, themes, historyVars>>

-----------------------------------------------------------------------------
(* Time and the other threads.                                             *)

Least(a, b) == IF a <= b THEN a ELSE b

\* elapsed stops one past the limit, where the code tells no more apart.
Second ==
  /\ Waiting \/ \E i \in DOMAIN resets : resets[i] > 0
  /\ elapsed' = IF Waiting THEN Least(elapsed + 1, TotalLimit + 1) ELSE elapsed
  /\ resets' = [i \in DOMAIN resets |-> IF resets[i] > 0 THEN resets[i] - 1 ELSE 0]
  /\ UNCHANGED <<currentHost, visible, shutdownState, pollTimer, clickable, dangling,
                 undefined, hostVars, reported, themes, historyVars>>

\* Mutant: metrics of a host without an entry only mark it online.
HostSeenNoEntry(h) ==
  /\ online' = online \cup {h}
  /\ UNCHANGED <<known, override, pageVars, timerVars, reported, themes, historyVars>>

\* update_hello, update_metrics
HostSeen(h) ==
  /\ known' = known \cup {h} /\ online' = online \cup {h}
  /\ UNCHANGED <<override, pageVars, timerVars, reported, themes, historyVars>>

\* mark_offline, tick_online_status
HostLost(h) ==
  /\ h \in online
  /\ online' = online \ {h}
  /\ sawOffline' = (sawOffline \/ asked = h)
  /\ UNCHANGED <<known, override, pageVars, timerVars, reported, themes, asked>>

\* PduStore::update: the first good poll brings the outlets, and they stay.
PduReport ==
  /\ reported' = PduOutlet
  /\ UNCHANGED <<pageVars, timerVars, hostVars, themes, historyVars>>

-----------------------------------------------------------------------------

Init ==
  /\ currentHost = NoHost /\ visible = FALSE
  /\ shutdownState = "Normal" /\ elapsed = 0 /\ pollTimer = FALSE /\ clickable = TRUE
  /\ resets = <<>> /\ dangling = FALSE /\ undefined = FALSE
  /\ known = Host /\ online = {} /\ override = [h \in Host |-> NoOverride]
  /\ reported = {} /\ themes = 0
  /\ asked = NoHost /\ sawOffline = FALSE

PageAction ==
  \/ \E h \in Host : ShowHost(h)
  \/ Leave \/ Graceful \/ ClearOverride \/ RemoveHost
  \/ \E o \in Overrides \cup {NoOverride} : SaveOverride(o)

TimerAction ==
  \/ Poll
  \/ \E i \in DOMAIN resets : ResetFires(i)
  \/ DanglingFires

Next ==
  /\ ~undefined
  /\ \/ PageAction \/ TimerAction \/ RebuildUi \/ Second
     \/ \E h \in Host : HostSeen(h) \/ HostLost(h)
     \/ PduReport

Spec == Init /\ [][Next]_vars

\* LVGL runs its timers and time passes; no host, PDU or user helps.
Fairness ==
  /\ WF_vars(~undefined /\ Poll)
  /\ WF_vars(~undefined /\ \E i \in DOMAIN resets : ResetFires(i))
  /\ WF_vars(~undefined /\ Second)

FairSpec == Spec /\ Fairness

-----------------------------------------------------------------------------
(* Properties.                                                             *)

TypeOK ==
  /\ currentHost \in Host \cup {NoHost} /\ visible \in BOOLEAN
  /\ shutdownState \in PowerState
  /\ elapsed \in 0..(TotalLimit + 1)
  /\ pollTimer \in BOOLEAN /\ clickable \in BOOLEAN
  /\ resets \in Seq(0..ResetDelay)
  /\ dangling \in BOOLEAN /\ undefined \in BOOLEAN
  /\ known \subseteq Host /\ online \subseteq known
  /\ override \in [Host -> Overrides \cup {NoOverride}]
  /\ reported \subseteq PduOutlet
  /\ themes \in 0..MaxThemes
  /\ asked \in Host \cup {NoHost} /\ sawOffline \in BOOLEAN

(* The page's three records of a request agree, whatever rebuilds, resets  *)
(* and removals came in between: the poll timer lives exactly while there  *)
(* is something to poll for, so that none fires on an idle page and no     *)
(* request waits without one, and the shutdown buttons can be pressed      *)
(* exactly when no request is under way.                                   *)
PageCoherent ==
  /\ pollTimer <=> Waiting
  /\ clickable <=> shutdownState = "Normal"
  /\ visible => currentHost # NoHost

Cutting == shutdownState = "WaitingOutlet" /\ shutdownState' = "OutletOff"

(* An outlet is only ever cut for the host whose Graceful Off was pressed  *)
(* last, and only after that host was shown offline since then, however    *)
(* the user moves between pages.                                           *)
CutOnlyAsked == [][Cutting => currentHost = asked /\ sawOffline]_vars

(* The steps by which the user rebuilds the page, request and all.         *)
RebuiltByUser ==
  \/ RebuildUi
  \/ \E h \in Host : ShowHost(h)
  \/ \E o \in Overrides \cup {NoOverride} : SaveOverride(o)

Limit == IF shutdownState = "ShutdownPending" THEN PendingLimit ELSE TotalLimit

(* No request holds the page for ever: the shutdown buttons come back.     *)
(* One that has not cut its outlet yet ends in no other way than by its    *)
(* time being over, by the user rebuilding the page, which forgets it, or  *)
(* by the reset timer of an earlier request that did cut.  The last is     *)
(* what the code does and not what the README says, which gives a request  *)
(* two minutes (screen_host_detail.cpp 962-1029, 92-97).                   *)
RequestEnds ==
  /\ (shutdownState # "Normal") ~> (clickable \/ undefined)
  /\ [][Waiting /\ shutdownState' = "Normal"
          => \/ elapsed > Limit
             \/ RebuiltByUser
             \/ \E i \in DOMAIN resets : resets[i] = 0]_vars

(* What the README says of the flow, "waits for it to go offline, then     *)
(* cuts its assigned PDU outlet": the host is offline when it is cut.      *)
CutWhileOffline == [][Cutting => currentHost \notin online]_vars

(* Themes are "applied without restarting the process": no timer outlives  *)
(* the page it points to.                                                  *)
NoDanglingCall == ~undefined
=============================================================================
