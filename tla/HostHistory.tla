---------------------------- MODULE HostHistory ----------------------------
(***************************************************************************)
(* The history of one host behind the three charts of its page             *)
(* (metrics_store.cpp tick_history, RingBuffer, update_charts): a ring of  *)
(* samples that lives in the entry of the host, filled by a timer of the   *)
(* shell while the host is online.  A sample is one value for the          *)
(* processor, its temperature and the memory, taken at the same time.      *)
(***************************************************************************)
EXTENDS Integers, Sequences

CONSTANTS
  Value,       \* what the agent reports
  Zero,        \* the metrics of an entry that has received none
  HistoryLen,  \* HISTORY_LEN
  SamplePeriod, \* period of history_timer_, and the least age of a sample
  MaxClock     \* bound on the clock

ASSUME RingAssumption ==
  {HistoryLen, SamplePeriod} \subseteq Nat \ {0} /\ MaxClock \in Nat

VARIABLES
  clock,
  entry,    \* the entry of the host, if there is one
  lastRun,  \* when history_timer_ ran last, or was made
  taken     \* history: all samples of the present entry

ringVars == <<clock, entry, lastRun, taken>>

NoEntry == [made |-> FALSE]
NewEntry ==
  [made |-> TRUE, online |-> FALSE, metrics |-> Zero, sampledAt |-> -SamplePeriod,
   ring |-> [buf |-> [k \in 0..HistoryLen - 1 |-> Zero], head |-> 0, count |-> 0]]

RingInit == clock = 0 /\ entry = NoEntry /\ lastRun = 0 /\ taken = <<>>

-----------------------------------------------------------------------------
\* RingBuffer::push
Push(ring, v) ==
  [buf |-> [ring.buf EXCEPT ![ring.head] = v],
   head |-> (ring.head + 1) % HistoryLen,
   count |-> IF ring.count < HistoryLen THEN ring.count + 1 ELSE ring.count]

EntryFor == IF entry.made THEN entry ELSE NewEntry

\* update_hello: online before anything is measured, or with what was
\* measured before the connection was lost.
UpdateHello ==
  /\ entry' = [EntryFor EXCEPT !.online = TRUE]
  /\ UNCHANGED <<clock, lastRun, taken>>

\* update_metrics
UpdateMetrics(v) ==
  /\ entry' = [EntryFor EXCEPT !.online = TRUE, !.metrics = v]
  /\ UNCHANGED <<clock, lastRun, taken>>

\* mark_offline, or tick_online_status.
GoesOffline ==
  /\ entry.made /\ entry' = [entry EXCEPT !.online = FALSE]
  /\ UNCHANGED <<clock, lastRun, taken>>

\* remove_host: the history goes with the entry.
RemoveHost ==
  /\ entry.made /\ entry' = NoEntry /\ taken' = <<>>
  /\ UNCHANGED <<clock, lastRun>>

\* tick_history for the host.  elapsed is in whole seconds of another clock
\* than the timer's: a sample that is a minute old may count as 59 seconds.
Due == entry.made /\ entry.online /\ clock - entry.sampledAt >= SamplePeriod

TickHistory ==
  /\ clock - lastRun >= SamplePeriod /\ lastRun' = clock
  /\ \/ /\ Due
        /\ entry' = [entry EXCEPT !.ring = Push(entry.ring, entry.metrics), !.sampledAt = clock]
        /\ taken' = Append(taken, entry.metrics)
     \/ /\ Due => clock - entry.sampledAt = SamplePeriod
        /\ UNCHANGED <<entry, taken>>
  /\ UNCHANGED clock

\* rebuild_ui deletes the timer and makes a new one.
RebuildUi == lastRun' = clock /\ UNCHANGED <<clock, entry, taken>>

\* The process starts again: the cache file has no history.
ProcessRestarts ==
  /\ entry' \in {NoEntry, IF entry.made THEN NewEntry ELSE NoEntry}
  /\ taken' = <<>> /\ lastRun' = clock
  /\ UNCHANGED clock

\* The loop of LVGL may be late: nothing has to run when it is due.
ClockTicks == clock < MaxClock /\ clock' = clock + 1 /\ UNCHANGED <<entry, lastRun, taken>>

RingNext ==
  \/ UpdateHello \/ GoesOffline \/ RemoveHost \/ TickHistory \/ RebuildUi \/ ProcessRestarts
  \/ \E v \in Value : UpdateMetrics(v)
  \/ ClockTicks

RingSpec == RingInit /\ [][RingNext]_ringVars

-----------------------------------------------------------------------------
NoPoint == "none"

\* Mutant: the oldest sample is where the next one goes.
PointFromHead(i) ==
  IF i < entry.ring.count THEN entry.ring.buf[(entry.ring.head + i) % HistoryLen] ELSE NoPoint

\* update_charts: point i of a chart, from the left.
Point(i) ==
  IF i < entry.ring.count
  THEN entry.ring.buf[(entry.ring.head - entry.ring.count + i + HistoryLen) % HistoryLen]
  ELSE NoPoint

(* The chart of a host shows its last HISTORY_LEN samples, oldest first,   *)
(* and nothing right of them: while the ring fills, when it is full and    *)
(* after it has wrapped, and never a sample of an entry that was removed   *)
(* (metrics_store.h 26, screen_host_detail.cpp 754).                       *)
ChartTrue ==
  entry.made =>
    LET n == Len(taken)
        shown == IF n < HistoryLen THEN n ELSE HistoryLen
    IN \A i \in 0..HistoryLen - 1 :
         Point(i) = IF i < shown THEN taken[n - shown + 1 + i] ELSE NoPoint
=============================================================================
