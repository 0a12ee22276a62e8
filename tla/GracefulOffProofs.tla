-------------------------- MODULE GracefulOffProofs --------------------------
(***************************************************************************)
(* "Graceful Off" for any hosts, outlets, limits and delays: the page stays*)
(* coherent, and no outlet is cut that nobody asked for.                   *)
(***************************************************************************)
EXTENDS GracefulOff, SequenceTheorems, TLAPS

USE GracefulAssumption DEF NoOverride

-----------------------------------------------------------------------------
(* Resets that wait.                                                       *)

LEMMA RemoveAtType ==
  ASSUME NEW S, NEW s \in Seq(S), NEW i \in DOMAIN s
  PROVE  RemoveAt(s, i) \in Seq(S)
<1>1. Len(s) \in Nat /\ i \in 1..Len(s)
  BY LenProperties
<1>2. SubSeq(s, 1, i - 1) \in Seq(S) /\ SubSeq(s, i + 1, Len(s)) \in Seq(S)
  <2>1. \A k \in 1..(i - 1) : s[k] \in S
    BY <1>1, ElementOfSeq
  <2>2. \A k \in (i + 1)..Len(s) : s[k] \in S
    BY <1>1, ElementOfSeq
  <2> QED BY <1>1, <2>1, <2>2, SubSeqProperties
<1> QED BY <1>2, ConcatProperties DEF RemoveAt

LEMMA CountDown ==
  ASSUME NEW s \in Seq(0..ResetDelay)
  PROVE  [i \in DOMAIN s |-> IF s[i] > 0 THEN s[i] - 1 ELSE 0] \in Seq(0..ResetDelay)
<1>1. Len(s) \in Nat /\ DOMAIN s = 1..Len(s)
  BY LenProperties
<1>2. \A i \in 1..Len(s) : (IF s[i] > 0 THEN s[i] - 1 ELSE 0) \in 0..ResetDelay
  <2> SUFFICES ASSUME NEW i \in 1..Len(s)
               PROVE  (IF s[i] > 0 THEN s[i] - 1 ELSE 0) \in 0..ResetDelay
    OBVIOUS
  <2>1. s[i] \in 0..ResetDelay
    BY ElementOfSeq
  <2> QED BY <2>1
<1> QED BY <1>1, <1>2, IsASeq

-----------------------------------------------------------------------------
(* Types and the page.                                                     *)

Flags ==
  {visible, pollTimer, clickable, dangling, undefined, sawOffline} \subseteq BOOLEAN

Data ==
  /\ currentHost \in Host \cup {NoHost} /\ asked \in Host \cup {NoHost}
  /\ shutdownState \in PowerState
  /\ elapsed \in 0..(TotalLimit + 1)
  /\ resets \in Seq(0..ResetDelay)
  /\ known \subseteq Host /\ online \subseteq known
  /\ override \in [Host -> Overrides \cup {NoOverride}]
  /\ reported \subseteq PduOutlet
  /\ themes \in 0..MaxThemes

LEMMA TypesAre == TypeOK <=> Flags /\ Data
BY Zenon DEF TypeOK, Flags, Data

LEMMA FlagsStep == Flags /\ [Next]_vars => Flags'
<1> SUFFICES ASSUME Flags, [Next]_vars PROVE Flags'
  OBVIOUS
<1> USE DEF Flags, pageVars, timerVars, hostVars, historyVars, Rebuild, ResetShutdownState
<1>1. CASE PageAction
  BY <1>1, Zenon DEF PageAction, ShowHost, Leave, Graceful, ClearOverride, RemoveHost,
                     SaveOverride
<1>2. CASE TimerAction
  BY <1>2, Zenon DEF TimerAction, Poll, PollOffline, PollCut, PollGiveUp, ResetFires,
                     DanglingFires
<1>3. CASE RebuildUi
  BY <1>3, Zenon DEF RebuildUi
<1>4. CASE Second \/ PduReport \/ \E h \in Host : HostSeen(h) \/ HostLost(h)
  BY <1>4, Zenon DEF Second, PduReport, HostSeen, HostLost
<1>5. CASE UNCHANGED vars
  BY <1>5, Zenon DEF vars
<1> QED BY <1>1, <1>2, <1>3, <1>4, <1>5 DEF Next

LEMMA DataStep == Data /\ [Next]_vars => Data'
<1> SUFFICES ASSUME Data, [Next]_vars PROVE Data'
  OBVIOUS
<1> USE DEF Data, PowerState, pageVars, timerVars, hostVars, historyVars, Rebuild,
            ResetShutdownState
<1>1. CASE PageAction
  <2>1. ASSUME NEW h \in Host, ShowHost(h) PROVE Data'
    BY <2>1 DEF ShowHost
  <2>2. CASE Leave \/ Graceful
    <3>1. /\ shutdownState' \in {shutdownState, "ShutdownPending"}
          /\ elapsed' \in {elapsed, 0} /\ asked' \in {asked, currentHost}
          /\ UNCHANGED <<currentHost, resets, known, online, override, reported, themes>>
      BY <2>2, Zenon DEF Leave, Graceful
    <3> QED BY <3>1
  <2>3. CASE ClearOverride
    BY <2>3 DEF ClearOverride
  <2>4. CASE RemoveHost
    BY <2>4 DEF RemoveHost
  <2>5. ASSUME NEW o \in Overrides \cup {NoOverride}, SaveOverride(o) PROVE Data'
    BY <2>5 DEF SaveOverride
  <2> QED BY <1>1, <2>1, <2>2, <2>3, <2>4, <2>5 DEF PageAction
<1>2. CASE Poll
  <2>1. CASE PollOffline
    BY <2>1 DEF PollOffline
  <2>2. CASE PollCut
    <3>1. resets' \in Seq(0..ResetDelay)
      <4>1. resets' = Append(resets, ResetDelay) /\ ResetDelay \in 0..ResetDelay
        BY <2>2 DEF PollCut
      <4> QED BY <4>1, AppendProperties
    <3>2. /\ shutdownState' = "OutletOff"
          /\ UNCHANGED <<currentHost, asked, elapsed, known, online, override, reported, themes>>
      BY <2>2 DEF PollCut
    <3> QED BY <3>1, <3>2
  <2>3. CASE PollGiveUp
    BY <2>3 DEF PollGiveUp
  <2> QED BY <1>2, <2>1, <2>2, <2>3 DEF Poll
<1>3. ASSUME NEW i \in DOMAIN resets, ResetFires(i) PROVE Data'
  BY <1>3, RemoveAtType DEF ResetFires
<1>4. CASE DanglingFires \/ PduReport
  BY <1>4 DEF DanglingFires, PduReport
<1>5. CASE RebuildUi
  <2>1. resets' \in Seq(0..ResetDelay)
    BY <1>5 DEF RebuildUi
  <2> QED BY <1>5, <2>1 DEF RebuildUi
<1>6. CASE Second
  <2>1. resets' \in Seq(0..ResetDelay)
    BY <1>6, CountDown DEF Second
  <2>2. elapsed' \in 0..(TotalLimit + 1)
    BY <1>6 DEF Second, Least
  <2> QED BY <1>6, <2>1, <2>2 DEF Second
<1>7. ASSUME NEW h \in Host, HostSeen(h) \/ HostLost(h) PROVE Data'
  BY <1>7 DEF HostSeen, HostLost
<1>8. CASE UNCHANGED vars
  BY <1>8 DEF vars
<1> QED BY <1>1, <1>2, <1>3, <1>4, <1>5, <1>6, <1>7, <1>8 DEF Next, TimerAction

\* A page that is reset or built anew is coherent.
LEMMA IdleCoherent ==
  ASSUME shutdownState' = "Normal", pollTimer' = FALSE, clickable' = TRUE,
         visible' => currentHost' # NoHost
  PROVE  PageCoherent'
BY DEF PageCoherent, Waiting

\* A page whose request is left alone stays coherent.
LEMMA SameRequestCoherent ==
  ASSUME PageCoherent, UNCHANGED <<shutdownState, pollTimer, clickable>>,
         visible' => currentHost' # NoHost
  PROVE  PageCoherent'
BY DEF PageCoherent, Waiting

LEMMA CoherentStep == Data /\ PageCoherent /\ [Next]_vars => PageCoherent'
<1> SUFFICES ASSUME Data, PageCoherent, [Next]_vars PROVE PageCoherent'
  OBVIOUS
<1>1. visible => currentHost # NoHost
  BY DEF PageCoherent
<1>2. ASSUME NEW h \in Host, ShowHost(h) PROVE PageCoherent'
  <2>1. currentHost' # NoHost
    BY <1>2 DEF ShowHost
  <2> QED BY <1>2, <2>1, IdleCoherent, SameRequestCoherent DEF ShowHost, Rebuild
<1>3. CASE Leave \/ RemoveHost
  BY <1>3, SameRequestCoherent DEF Leave, RemoveHost
<1>4. CASE Graceful
  BY <1>1, <1>4 DEF Graceful, PageCoherent, Waiting
<1>5. ASSUME NEW o \in Overrides \cup {NoOverride}, SaveOverride(o) PROVE PageCoherent'
  BY <1>1, <1>5, IdleCoherent DEF SaveOverride, Rebuild
<1>6. CASE PollOffline \/ PollCut
  BY <1>1, <1>6 DEF PollOffline, PollCut, PageCoherent, Waiting
<1>7. CASE PollGiveUp \/ \E i \in DOMAIN resets : ResetFires(i)
  <2>1. ResetShutdownState
    BY <1>7, Zenon DEF PollGiveUp, ResetFires
  <2> QED BY <1>1, <2>1, IdleCoherent DEF ResetShutdownState
<1>8. CASE RebuildUi
  BY <1>8, IdleCoherent DEF RebuildUi, Rebuild
<1>9. CASE \/ ClearOverride \/ DanglingFires \/ Second \/ PduReport
           \/ \E h \in Host : HostSeen(h) \/ HostLost(h)
           \/ UNCHANGED vars
  <2>1. UNCHANGED <<shutdownState, pollTimer, clickable, visible, currentHost>>
    BY <1>9 DEF ClearOverride, DanglingFires, Second, PduReport, HostSeen, HostLost, vars,
                pageVars
  <2> QED BY <1>1, <2>1, SameRequestCoherent
<1> QED BY <1>2, <1>3, <1>4, <1>5, <1>6, <1>7, <1>8, <1>9
        DEF Next, PageAction, TimerAction, Poll

(* The types of the page, its timers and the stores it reads.              *)
THEOREM AlwaysTyped == Spec => []TypeOK
<1>1. Init => Flags
  BY DEF Init, Flags
<1>2. Init => Data
  <2> SUFFICES ASSUME Init PROVE Data
    OBVIOUS
  <2>1. resets \in Seq(0..ResetDelay)
    BY DEF Init
  <2> QED BY <2>1 DEF Init, Data, PowerState
<1> QED BY <1>1, <1>2, FlagsStep, DataStep, TypesAre, PTL DEF Spec

(* The poll timer lives exactly while there is something to poll for and   *)
(* the shutdown buttons can be pressed exactly when no request is under    *)
(* way, whatever rebuilds, resets, removals and changes of theme came in   *)
(* between (screen_host_detail.cpp on_shutdown_graceful, rebuild,          *)
(* poll_graceful_shutdown, reset_shutdown_state).                          *)
THEOREM PageAlwaysCoherent == Spec => []PageCoherent
<1>1. Init => PageCoherent
  BY DEF Init, PageCoherent, Waiting
<1>2. TypeOK => Data
  BY TypesAre
<1> QED BY <1>1, <1>2, AlwaysTyped, CoherentStep, PTL DEF Spec

-----------------------------------------------------------------------------
(* What is cut.                                                            *)

\* While a request waits, the page shows the host it is for, unless that was
\* removed; and it only waits for the outlet of a host that was seen offline.
CutInv ==
  /\ Waiting /\ currentHost # NoHost => currentHost = asked
  /\ asked # NoHost /\ asked \notin online => sawOffline
  /\ shutdownState = "WaitingOutlet" /\ currentHost # NoHost => sawOffline

\* A page without a request, however it came to that.
LEMMA NotWaiting ==
  ASSUME CutInv, shutdownState' = "Normal", UNCHANGED <<asked, sawOffline>>,
         online \subseteq online'
  PROVE  CutInv'
BY DEF CutInv, Waiting

\* A step beside the request.
LEMMA SameRequestCuts ==
  ASSUME CutInv, UNCHANGED <<asked, sawOffline, shutdownState, currentHost>>,
         online \subseteq online'
  PROVE  CutInv'
BY DEF CutInv, Waiting

LEMMA CutStep == Data /\ CutInv /\ [Next]_vars => CutInv'
<1> SUFFICES ASSUME Data, CutInv, [Next]_vars PROVE CutInv'
  OBVIOUS
<1> USE DEF pageVars, timerVars, hostVars, historyVars
<1>1. ASSUME NEW h \in Host, ShowHost(h) PROVE CutInv'
  <2>1. CASE currentHost = h
    BY <1>1, <2>1, SameRequestCuts DEF ShowHost
  <2>2. CASE currentHost # h
    BY <1>1, <2>2, NotWaiting DEF ShowHost, Rebuild
  <2> QED BY <2>1, <2>2
<1>2. CASE Graceful
  BY <1>2 DEF Graceful, CutInv, Waiting, Data
<1>3. ASSUME NEW o \in Overrides \cup {NoOverride}, SaveOverride(o) PROVE CutInv'
  BY <1>3, NotWaiting DEF SaveOverride, Rebuild
<1>4. CASE RemoveHost
  <2>1. /\ asked' = asked /\ currentHost' = NoHost /\ online' = online \ {currentHost}
        /\ sawOffline' = (sawOffline \/ asked = currentHost)
    BY <1>4 DEF RemoveHost
  <2> QED BY <2>1 DEF CutInv
<1>5. CASE PollOffline
  BY <1>5 DEF PollOffline, CutInv, Waiting
<1>6. CASE PollCut
  BY <1>6 DEF PollCut, CutInv, Waiting
<1>7. CASE PollGiveUp \/ \E i \in DOMAIN resets : ResetFires(i)
  <2>1. ResetShutdownState /\ UNCHANGED <<asked, sawOffline, online>>
    BY <1>7, Zenon DEF PollGiveUp, ResetFires
  <2> QED BY <2>1, NotWaiting DEF ResetShutdownState
<1>8. CASE RebuildUi
  BY <1>8, NotWaiting DEF RebuildUi, Rebuild
<1>9. ASSUME NEW h \in Host, HostSeen(h) PROVE CutInv'
  BY <1>9, SameRequestCuts DEF HostSeen
<1>10. ASSUME NEW h \in Host, HostLost(h) PROVE CutInv'
  <2>1. /\ UNCHANGED <<asked, currentHost, shutdownState>> /\ online' = online \ {h}
        /\ sawOffline' = (sawOffline \/ asked = h)
    BY <1>10 DEF HostLost
  <2> QED BY <2>1 DEF CutInv, Waiting
<1>11. CASE Leave \/ ClearOverride \/ DanglingFires \/ Second \/ PduReport \/ UNCHANGED vars
  <2>1. UNCHANGED <<asked, sawOffline, shutdownState, currentHost, online>>
    BY <1>11, Zenon DEF Leave, ClearOverride, DanglingFires, Second, PduReport, vars
  <2> QED BY <2>1, SameRequestCuts
<1> QED BY <1>1, <1>2, <1>3, <1>4, <1>5, <1>6, <1>7, <1>8, <1>9, <1>10, <1>11
        DEF Next, PageAction, TimerAction, Poll

(* An outlet is only cut for the host whose Graceful Off was pressed last, *)
(* once it was shown offline since then: no change of page, host or theme  *)
(* turns a request on another host (screen_host_detail.cpp                 *)
(* poll_graceful_shutdown).  That the host is offline still is false.      *)
THEOREM AlwaysCutOnlyAsked == Spec => CutOnlyAsked
<1>1. Init => CutInv
  BY DEF Init, CutInv, Waiting
<1>2. Data /\ CutInv /\ [Next]_vars =>
        [Cutting => currentHost = asked /\ sawOffline]_vars
  <2> SUFFICES ASSUME Data, CutInv, [Next]_vars, Cutting
               PROVE  currentHost = asked /\ sawOffline
    OBVIOUS
  <2>1. shutdownState = "WaitingOutlet" /\ shutdownState' = "OutletOff"
    BY DEF Cutting
  <2>2. PollCut
    BY <2>1 DEF Next, PageAction, TimerAction, Poll, ShowHost, Leave, Graceful,
                ClearOverride, RemoveHost, SaveOverride, PollOffline, PollGiveUp,
                ResetFires, DanglingFires, RebuildUi, Second, HostSeen, HostLost,
                PduReport, Rebuild, ResetShutdownState, vars, pageVars
  <2>3. currentHost # NoHost
    BY <2>2 DEF PollCut, CanCut, Data
  <2> QED BY <2>1, <2>3 DEF CutInv, Waiting
<1>3. TypeOK => Data
  BY TypesAre
<1> QED BY <1>1, <1>2, <1>3, AlwaysTyped, CutStep, PTL DEF Spec, CutOnlyAsked
=============================================================================
