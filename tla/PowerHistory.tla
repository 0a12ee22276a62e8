---------------------------- MODULE PowerHistory ----------------------------
(***************************************************************************)
(* The power history of the rack (power/power_history_store.cpp), filled   *)
(* by the polling thread after a poll that succeeded: raw samples, at most *)
(* one for a second, and minute rollups computed from them.  Average,      *)
(* minimum, maximum and count of a rollup are functions of the samples it  *)
(* was computed from, so a rollup is the set of these, and a sample is its *)
(* time.                                                                   *)
(*                                                                         *)
(* A pass of rollup_and_cleanup is three statements, each committed on its *)
(* own; the process may stop between any two.                              *)
(***************************************************************************)
EXTENDS Integers, Sequences, FiniteSets

CONSTANTS
  Minute,      \* 60 s
  Retention,   \* raw_retention_hours
  RollupKeep,  \* rollup_retention_days
  MaxPoints,   \* points of the chart
  Horizon,     \* bound on the clock
  MaxFailures  \* bound on statements that fail

ASSUME HistoryAssumption ==
  /\ {Minute, MaxPoints} \subseteq Nat \ {0} /\ {Horizon, MaxFailures} \subseteq Nat
  /\ {Retention, RollupKeep} \subseteq Int    \* config.cpp takes any

VARIABLES
  now,       \* std::time
  raw,       \* power_raw: times of the samples
  rollup,    \* power_rollup: the samples behind each minute
  at,        \* pdu_thread: sleeping, or the next statement of its pass
  pass,      \* the time the pass works with; its rollup was written
  failures,
  \* history: all samples; the last time rolled up; the end of what either
  \* retention has deleted
  recorded, rolledAt, cut

vars == <<now, raw, rollup, at, pass, failures, recorded, rolledAt, cut>>

MinuteOf(ts) == (ts \div Minute) * Minute
OfMinute(samples, m) == {ts \in samples : MinuteOf(ts) = m}

Init ==
  /\ now = 0 /\ raw = {} /\ rollup = <<>>
  /\ at = "sleep" /\ pass = [now |-> 0, rolled |-> FALSE] /\ failures = 0
  /\ recorded = {} /\ rolledAt = 0 /\ cut = 0

-----------------------------------------------------------------------------
\* record, for a snapshot with measurements; others only start the pass.
Record ==
  /\ at = "sleep" /\ at' = "rollup"
  /\ \E measured \in BOOLEAN :
       LET sample == IF measured THEN {now} ELSE {}
       IN raw' = raw \cup sample /\ recorded' = recorded \cup sample
  /\ UNCHANGED <<now, rollup, pass, failures, rolledAt, cut>>

\* Mutant: only minutes without a rollup are rolled up.
RolledOnce(t) == LET old == {ts \in raw : ts < t - Minute}
                 IN [m \in {MinuteOf(ts) : ts \in old} \ DOMAIN rollup |-> OfMinute(old, m)]

\* The minutes a pass at time t computes, from the raw samples before t - 60.
Rolled(t) == LET old == {ts \in raw : ts < t - Minute}
             IN [m \in {MinuteOf(ts) : ts \in old} |-> OfMinute(old, m)]

\* INSERT OR REPLACE INTO power_rollup.  Whether it worked is not looked at.
RollUp ==
  /\ at = "rollup" /\ at' = "trim"
  /\ \/ /\ rollup' = LET new == Rolled(now)
                      IN [m \in DOMAIN new \cup DOMAIN rollup |->
                            IF m \in DOMAIN new THEN new[m] ELSE rollup[m]]
        /\ pass' = [now |-> now, rolled |-> TRUE] /\ rolledAt' = now
        /\ UNCHANGED failures
     \/ /\ failures < MaxFailures /\ failures' = failures + 1
        /\ pass' = [now |-> now, rolled |-> FALSE]
        /\ UNCHANGED <<rollup, rolledAt>>
  /\ UNCHANGED <<now, raw, recorded, cut>>

\* Mutant: retention counts from the end of the minute.
RawCutoffLate == pass.now - Retention + Minute

\* The end of what retention deletes.
RawCutoff == pass.now - Retention

\* A DELETE that fails deletes nothing, and is not noticed either.
DeleteFails == failures < MaxFailures /\ failures' = failures + 1 /\ UNCHANGED <<raw, rollup, cut>>

Later(a, b) == IF a > b THEN a ELSE b

\* DELETE FROM power_raw
TrimRaw ==
  /\ at = "trim" /\ at' = "trimRollups"
  /\ \/ /\ raw' = {ts \in raw : ts >= RawCutoff} /\ cut' = Later(RawCutoff, cut)
        /\ UNCHANGED <<rollup, failures>>
     \/ DeleteFails
  /\ UNCHANGED <<now, pass, recorded, rolledAt>>

\* DELETE FROM power_rollup; then the thread sleeps.
TrimRollups ==
  /\ at = "trimRollups" /\ at' = "sleep"
  /\ \/ LET cutoff == pass.now - RollupKeep
        IN /\ rollup' = [m \in {k \in DOMAIN rollup : k >= cutoff} |-> rollup[m]]
           /\ cut' = Later(cutoff, cut)
           /\ UNCHANGED <<raw, failures>>
     \/ DeleteFails
  /\ UNCHANGED <<now, pass, recorded, rolledAt>>

\* Polls that fail, or take their time.
TimePasses ==
  /\ now < Horizon
  /\ now' = now + 1
  /\ UNCHANGED <<raw, rollup, at, pass, failures, recorded, rolledAt, cut>>

\* The process stops between two statements; the database outlives it.
Restart ==
  /\ at # "sleep" /\ at' = "sleep"
  /\ UNCHANGED <<now, raw, rollup, pass, failures, recorded, rolledAt, cut>>

\* At most MaxPoints of the points, at equal strides.  The stride of the code
\* is a double: it may name the place before where this one is exact, which
\* changes which points are taken but neither their number nor their order.
Thinned(points) ==
  LET n == Len(points)
  IN IF n <= MaxPoints THEN points
     ELSE [i \in 1..MaxPoints |-> points[((i - 1) * n) \div MaxPoints + 1]]

\* ORDER BY minute
InOrder(minutes) ==
  CHOOSE s \in [1..Cardinality(minutes) -> minutes] : \A i, j \in DOMAIN s : i < j => s[i] < s[j]

\* history: the minutes of the chart.
History(since) == Thinned(InOrder({m \in DOMAIN rollup : m >= since}))

Next == Record \/ RollUp \/ TrimRaw \/ TrimRollups \/ TimePasses \/ Restart

Spec == Init /\ [][Next]_vars

-----------------------------------------------------------------------------
(* A raw sample is deleted only after the rollup of its minute has counted *)
(* it, wherever the process stopped before; unless the rollup statement of *)
(* this pass failed, which the code does not notice, or raw retention is   *)
(* configured shorter than a minute.  It is counted at that time: a later  *)
(* pass may replace the rollup by one of what is left                      *)
(* (power_history_store.cpp 64-87).                                        *)
SamplesCounted ==
  [][\A ts \in raw \ raw' :
       pass.rolled /\ Retention >= Minute =>
         MinuteOf(ts) \in DOMAIN rollup /\ ts \in rollup[MinuteOf(ts)]]_vars

\* The minute is over, and retention has deleted nothing of it.
Final(m) == m >= cut /\ m + Minute <= rolledAt - Minute

(* No rollup counts what was not recorded in its minute, and a minute that *)
(* is over and of which neither retention has deleted anything is rolled   *)
(* up with exactly what was recorded in it: a minute rolled up half is     *)
(* completed by a later pass, whichever statements failed                  *)
(* (power_history_store.cpp 63-75).  (For a minute that retention has      *)
(* begun to delete this is false: see the README.)                         *)
RollupFaithful ==
  /\ \A m \in DOMAIN rollup : rollup[m] \subseteq OfMinute(recorded, m)
  /\ \A m \in DOMAIN rollup : Final(m) => rollup[m] = OfMinute(recorded, m)
  /\ \A ts \in recorded : Final(MinuteOf(ts)) => MinuteOf(ts) \in DOMAIN rollup

(* The rollups are faithful, and the chart made of them is in the order of *)
(* time and has no more points than it may have.                           *)
HistoryFaithful ==
  LET chart == History(0)
  IN /\ RollupFaithful
     /\ Len(chart) <= MaxPoints
     /\ \A i \in 1..Len(chart) - 1 : chart[i] < chart[i + 1]
=============================================================================
