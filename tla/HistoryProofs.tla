---------------------------- MODULE HistoryProofs ----------------------------
(***************************************************************************)
(* The two histories: PowerHistory for any length of a minute and of the   *)
(* retentions, any clock and any number of failing statements, and         *)
(* HostHistory for any length of the ring, any values and any clock.       *)
(***************************************************************************)
EXTENDS PowerHistory, HostHistory, SequenceTheorems, FiniteSetTheorems, TLAPS

-----------------------------------------------------------------------------
(* The power history.                                                      *)

USE HistoryAssumption DEF HistoryAssumption

RackTyped ==
  /\ now \in Nat /\ raw \in SUBSET Nat /\ recorded \in SUBSET Nat
  /\ pass \in [now : Nat, rolled : BOOLEAN]

\* What a pass that rolled up may delete is counted.
PassCounted ==
  (at = "trim" /\ pass.rolled) =>
    \A ts \in raw : ts < pass.now - Minute =>
       MinuteOf(ts) \in DOMAIN rollup /\ ts \in rollup[MinuteOf(ts)]

RackInv == RackTyped /\ PassCounted


LEMMA RackInvInit == Init => RackInv
BY DEF Init, RackInv, RackTyped, PassCounted

\* The rollups of a pass count every sample old enough.
LEMMA RolledCounts ==
  ASSUME NEW t \in Nat, NEW ts \in raw, ts < t - Minute
  PROVE  MinuteOf(ts) \in DOMAIN Rolled(t) /\ ts \in Rolled(t)[MinuteOf(ts)]
BY DEF Rolled, OfMinute

LEMMA RackInvStep == RackInv /\ [Next]_vars => RackInv'
<1> SUFFICES ASSUME RackInv, [Next]_vars PROVE RackInv'
    OBVIOUS
<1> USE DEF RackInv
<1>1. CASE Record
  <2>1. RackTyped'
    BY <1>1 DEF Record, RackTyped
  <2> QED BY <1>1, <2>1 DEF Record, PassCounted
<1>2. CASE RollUp
  <2>1. CASE /\ rollup' = [m \in DOMAIN Rolled(now) \cup DOMAIN rollup |->
                             IF m \in DOMAIN Rolled(now) THEN Rolled(now)[m] ELSE rollup[m]]
             /\ pass' = [now |-> now, rolled |-> TRUE]
    <3>1. RackTyped'
      BY <1>2, <2>1 DEF RollUp, RackTyped
    <3>2. ASSUME NEW ts \in raw, ts < now - Minute
          PROVE  MinuteOf(ts) \in DOMAIN rollup' /\ ts \in rollup'[MinuteOf(ts)]
      <4>1. MinuteOf(ts) \in DOMAIN Rolled(now) /\ ts \in Rolled(now)[MinuteOf(ts)]
        BY <3>2, RolledCounts DEF RackTyped
      <4> QED BY <2>1, <4>1
    <3>3. PassCounted'
      BY <1>2, <2>1, <3>2 DEF RollUp, PassCounted, MinuteOf
    <3> QED BY <3>1, <3>3
  <2>2. CASE pass' = [now |-> now, rolled |-> FALSE]
    BY <1>2, <2>2 DEF RollUp, RackTyped, PassCounted
  <2> QED BY <1>2, <2>1, <2>2 DEF RollUp
<1>3. CASE TrimRaw \/ TrimRollups \/ Restart
  <2>1. raw' \subseteq raw /\ at' # "trim" /\ UNCHANGED <<now, pass, recorded>>
    BY <1>3 DEF TrimRaw, TrimRollups, DeleteFails, Restart
  <2> QED BY <2>1 DEF RackTyped, PassCounted
<1>4. CASE TimePasses \/ UNCHANGED vars
  <2>1. UNCHANGED <<raw, rollup, at, pass, recorded>> /\ now' \in Nat
    BY <1>4 DEF TimePasses, vars, RackTyped
  <2> QED BY <2>1 DEF RackTyped, PassCounted
<1> QED BY <1>1, <1>2, <1>3, <1>4 DEF Next

\* Only TrimRaw deletes samples, and none of the last Retention seconds.
LEMMA DeletedOnlyOld ==
  ASSUME RackInv, [Next]_vars, NEW ts \in raw \ raw'
  PROVE  at = "trim" /\ ts < pass.now - Retention
<1>1. TrimRaw
  BY DEF Next, Record, RollUp, TrimRollups, DeleteFails, TimePasses, Restart, vars
<1>2. ~(ts >= pass.now - Retention)
  BY <1>1 DEF TrimRaw, DeleteFails, RawCutoff
<1> QED BY <1>1, <1>2 DEF TrimRaw, RackInv, RackTyped

(* For any retentions and whichever statements fail: a sample is only      *)
(* deleted once the rollup of its minute has counted it, wherever earlier  *)
(* passes were stopped, unless the rollup statement of this pass failed or *)
(* raw retention is configured shorter than a minute                       *)
(* (power_history_store.cpp 63-79).                                        *)
THEOREM SamplesAlwaysCounted == Spec => SamplesCounted
<1>1. Init /\ [][Next]_vars => []RackInv
  BY RackInvInit, RackInvStep, PTL
<1>2. RackInv /\ [Next]_vars =>
        [\A ts \in raw \ raw' :
           pass.rolled /\ Retention >= Minute =>
             MinuteOf(ts) \in DOMAIN rollup /\ ts \in rollup[MinuteOf(ts)]]_vars
  <2> SUFFICES ASSUME RackInv, [Next]_vars, NEW ts \in raw \ raw', pass.rolled,
                      Retention >= Minute
               PROVE  MinuteOf(ts) \in DOMAIN rollup /\ ts \in rollup[MinuteOf(ts)]
      OBVIOUS
  <2>1. at = "trim" /\ ts < pass.now - Retention
    BY DeletedOnlyOld
  <2>2. ts < pass.now - Minute
    BY <2>1 DEF RackInv, RackTyped
  <2> QED BY <2>1, <2>2 DEF RackInv, PassCounted
<1> QED BY <1>1, <1>2, PTL DEF Spec, SamplesCounted

\* What of the samples is still raw, and how the times of a pass compare.
Clocks ==
  /\ cut \in Int /\ rolledAt \in Nat /\ DOMAIN rollup \subseteq 0..now
  /\ pass.now <= now /\ rolledAt <= now
  /\ \A ts \in recorded : ts <= now
  /\ raw \subseteq recorded
  /\ \A ts \in recorded : ts >= cut => ts \in raw

\* Either deletion moves the cut forwards or, failing, leaves it.
LEMMA CutMoves ==
  ASSUME RackTyped, cut \in Int, TrimRaw \/ TrimRollups
  PROVE  cut' \in Int /\ cut' >= cut
<1>1. RawCutoff \in Int /\ pass.now - RollupKeep \in Int
  BY DEF RawCutoff, RackTyped
<1>2. cut' \in {cut, Later(RawCutoff, cut), Later(pass.now - RollupKeep, cut)}
  BY DEF TrimRaw, TrimRollups, DeleteFails
<1> QED BY <1>1, <1>2 DEF Later

\* The minute of a time.
LEMMA MinuteBounds ==
  ASSUME NEW ts \in Nat
  PROVE  MinuteOf(ts) \in Nat /\ MinuteOf(ts) <= ts /\ ts < MinuteOf(ts) + Minute
<1>1. Minute \in Nat /\ Minute > 0
  OBVIOUS
<1> QED BY <1>1 DEF MinuteOf

\* What a pass at t rolls up: samples of the minute, and for a minute over by
\* then all that are raw.
LEMMA RolledWhole ==
  ASSUME raw \subseteq Nat, NEW t \in Nat
  PROVE  /\ DOMAIN Rolled(t) \subseteq 0..t
         /\ \A m \in DOMAIN Rolled(t) : Rolled(t)[m] \subseteq OfMinute(raw, m)
         /\ \A m \in DOMAIN Rolled(t) :
              m + Minute <= t - Minute => Rolled(t)[m] = OfMinute(raw, m)
         /\ \A ts \in raw :
              MinuteOf(ts) + Minute <= t - Minute => MinuteOf(ts) \in DOMAIN Rolled(t)
<1> DEFINE old == {ts \in raw : ts < t - Minute}
<1>1. DOMAIN Rolled(t) = {MinuteOf(ts) : ts \in old}
  BY DEF Rolled
<1>2. \A m \in DOMAIN Rolled(t) : Rolled(t)[m] = OfMinute(old, m)
  BY DEF Rolled
<1>3. ASSUME NEW ts \in raw, MinuteOf(ts) + Minute <= t - Minute
      PROVE  ts \in old
  BY <1>3, MinuteBounds
<1>4. DOMAIN Rolled(t) \subseteq 0..t
  BY <1>1, MinuteBounds
<1>5. ASSUME NEW m \in DOMAIN Rolled(t), m + Minute <= t - Minute
      PROVE  Rolled(t)[m] = OfMinute(raw, m)
  BY <1>2, <1>3, <1>5 DEF OfMinute
<1> HIDE DEF old
<1>6. \A m \in DOMAIN Rolled(t) : Rolled(t)[m] \subseteq OfMinute(raw, m)
  BY <1>2 DEF OfMinute, old
<1> QED BY <1>1, <1>3, <1>4, <1>5, <1>6

LEMMA ClocksStep == RackTyped /\ Clocks /\ [Next]_vars => Clocks'
<1> SUFFICES ASSUME RackTyped, Clocks, [Next]_vars PROVE Clocks'
  OBVIOUS
<1> USE DEF RackTyped, Clocks
<1>1. CASE Record
  BY <1>1 DEF Record
<1>2. CASE RollUp
  <2>1. DOMAIN rollup' \subseteq 0..now
    BY <1>2, RolledWhole DEF RollUp
  <2>2. rolledAt' \in {rolledAt, now} /\ pass'.now = now /\ at' = "trim"
    BY <1>2 DEF RollUp
  <2> QED BY <1>2, <2>1, <2>2 DEF RollUp
<1>3. CASE TrimRaw
  <2>1. RawCutoff \in Int /\ cut' \in Int /\ cut' >= cut
    BY <1>3, CutMoves DEF RawCutoff
  <2>2. UNCHANGED <<now, rollup, pass, recorded, rolledAt>>
    BY <1>3 DEF TrimRaw, DeleteFails
  <2>3. CASE raw' = {ts \in raw : ts >= RawCutoff} /\ cut' = Later(RawCutoff, cut)
    <3>1. \A ts \in recorded' : ts >= cut' => ts \in raw'
      BY <2>1, <2>2, <2>3 DEF Later
    <3> QED BY <2>1, <2>2, <2>3, <3>1
  <2>4. CASE DeleteFails
    BY <2>2, <2>4 DEF DeleteFails
  <2> QED BY <1>3, <2>3, <2>4 DEF TrimRaw
<1>4. CASE TrimRollups
  <2>1. cut' \in Int /\ cut' >= cut
    BY <1>4, CutMoves
  <2>2. UNCHANGED <<now, raw, pass, recorded, rolledAt>> /\ DOMAIN rollup' \subseteq DOMAIN rollup
    BY <1>4 DEF TrimRollups, DeleteFails
  <2> QED BY <2>1, <2>2
<1>5. CASE TimePasses
  BY <1>5 DEF TimePasses
<1>6. CASE Restart
  BY <1>6 DEF Restart
<1>7. CASE UNCHANGED vars
  BY <1>7 DEF vars
<1> QED BY <1>1, <1>2, <1>3, <1>4, <1>5, <1>6, <1>7 DEF Next

\* A sample of a minute that is final is still raw, and an old one.
LEMMA FinalIsRaw ==
  ASSUME RackTyped, Clocks, NEW m \in Nat, m >= cut
  PROVE  OfMinute(raw, m) = OfMinute(recorded, m)
<1>1. ASSUME NEW ts \in recorded, MinuteOf(ts) = m
      PROVE  ts \in raw
  BY <1>1, MinuteBounds DEF RackTyped, Clocks
<1> QED BY <1>1 DEF OfMinute, Clocks

LEMMA FaithfulStep ==
  RackTyped /\ Clocks /\ RollupFaithful /\ [Next]_vars => RollupFaithful'
<1> SUFFICES ASSUME RackTyped, Clocks, RollupFaithful, [Next]_vars PROVE RollupFaithful'
  OBVIOUS
<1>1. DOMAIN rollup \subseteq Nat /\ recorded \subseteq Nat
  BY DEF RackTyped, Clocks
<1>2. CASE Record
  <2>1. /\ UNCHANGED <<now, rollup, rolledAt, cut>>
        /\ recorded \subseteq recorded' /\ recorded' \subseteq recorded \cup {now}
    BY <1>2 DEF Record
  <2>2. ~Final(MinuteOf(now))
    BY MinuteBounds DEF Final, RackTyped, Clocks
  <2>3. ASSUME NEW m \in DOMAIN rollup, Final(m)
        PROVE  OfMinute(recorded', m) = OfMinute(recorded, m)
    BY <2>1, <2>2, <2>3 DEF OfMinute
  <2>4. \A m : Final(m)' <=> Final(m)
    BY <2>1 DEF Final
  <2>5. \A m \in DOMAIN rollup' : rollup'[m] \subseteq OfMinute(recorded, m)'
    BY <2>1 DEF RollupFaithful, OfMinute, MinuteOf
  <2>6. \A m \in DOMAIN rollup' : Final(m)' => rollup'[m] = OfMinute(recorded, m)'
    BY <2>1, <2>3, <2>4 DEF RollupFaithful, OfMinute, MinuteOf
  <2>7. \A ts \in recorded' : Final(MinuteOf(ts))' => MinuteOf(ts) \in DOMAIN rollup'
    BY <2>1, <2>2, <2>4 DEF RollupFaithful, MinuteOf
  <2> QED BY <2>5, <2>6, <2>7 DEF RollupFaithful, MinuteOf
<1>3. CASE RollUp /\ rolledAt' = now /\ pass'.rolled
  <2> DEFINE new == Rolled(now)
  <2>1. /\ rollup' = [m \in DOMAIN new \cup DOMAIN rollup |->
                        IF m \in DOMAIN new THEN new[m] ELSE rollup[m]]
        /\ UNCHANGED <<raw, recorded, cut>> /\ rolledAt' = now
    BY <1>3 DEF RollUp
  <2>2. /\ now \in Nat /\ raw \subseteq Nat /\ raw \subseteq recorded
        /\ cut \in Int
    BY DEF RackTyped, Clocks
  <2>3. /\ DOMAIN new \subseteq Nat
        /\ \A m \in DOMAIN new : new[m] \subseteq OfMinute(raw, m)
        /\ \A m \in DOMAIN new : m + Minute <= now - Minute => new[m] = OfMinute(raw, m)
        /\ \A ts \in raw : MinuteOf(ts) + Minute <= now - Minute => MinuteOf(ts) \in DOMAIN new
    BY <2>2, RolledWhole
  <2> HIDE DEF new
  <2>4. DOMAIN rollup' = DOMAIN new \cup DOMAIN rollup
    BY <2>1
  <2>5. \A m \in DOMAIN rollup' : Final(m)' <=> m >= cut /\ m + Minute <= now - Minute
    BY <2>1 DEF Final
  <2>6. ASSUME NEW m \in DOMAIN rollup'
        PROVE  rollup'[m] \subseteq OfMinute(recorded, m)
    <3>1. CASE m \in DOMAIN new
      BY <2>1, <2>2, <2>3, <3>1 DEF OfMinute
    <3>2. CASE m \notin DOMAIN new
      BY <2>1, <2>4, <3>2 DEF RollupFaithful
    <3> QED BY <3>1, <3>2
  <2>7. ASSUME NEW m \in DOMAIN rollup', m >= cut, m + Minute <= now - Minute
        PROVE  rollup'[m] = OfMinute(recorded, m)
    <3>1. m \in Nat /\ OfMinute(raw, m) = OfMinute(recorded, m)
      BY <1>1, <2>3, <2>4, <2>7, FinalIsRaw
    <3>2. CASE m \in DOMAIN new
      BY <2>1, <2>3, <2>7, <3>1, <3>2
    <3>3. CASE m \notin DOMAIN new
      <4>1. OfMinute(raw, m) = {}
        BY <2>3, <2>7, <3>3 DEF OfMinute
      <4> QED BY <2>6, <3>1, <4>1
    <3> QED BY <3>2, <3>3
  <2>8. ASSUME NEW ts \in recorded, MinuteOf(ts) >= cut, MinuteOf(ts) + Minute <= now - Minute
        PROVE  MinuteOf(ts) \in DOMAIN rollup'
    <3>1. ts \in raw
      BY <1>1, <2>8, MinuteBounds, FinalIsRaw DEF OfMinute
    <3> QED BY <2>3, <2>4, <2>8, <3>1
  <2>9. RollupFaithful' = /\ \A m \in DOMAIN rollup' : rollup'[m] \subseteq OfMinute(recorded, m)
                          /\ \A m \in DOMAIN rollup' : Final(m)' => rollup'[m] = OfMinute(recorded, m)
                          /\ \A ts \in recorded : Final(MinuteOf(ts))' => MinuteOf(ts) \in DOMAIN rollup'
    BY <2>1 DEF RollupFaithful, OfMinute, MinuteOf
  <2>10. \A ts \in recorded :
           Final(MinuteOf(ts))' <=> MinuteOf(ts) >= cut /\ MinuteOf(ts) + Minute <= now - Minute
    BY <2>1 DEF Final, MinuteOf
  <2> QED BY <2>5, <2>6, <2>7, <2>8, <2>9, <2>10
<1>4. CASE TrimRaw
  <2>1. UNCHANGED <<rollup, recorded, rolledAt>> /\ cut' >= cut /\ cut' \in Int /\ cut \in Int
    BY <1>4, CutMoves DEF TrimRaw, DeleteFails, Clocks
  <2>2. \A m \in Nat : Final(m)' => Final(m)
    BY <2>1 DEF Final
  <2> QED BY <1>1, <2>1, <2>2, MinuteBounds DEF RollupFaithful, OfMinute, MinuteOf
<1>5. CASE TrimRollups /\ ~DeleteFails
  <2> DEFINE kept == {k \in DOMAIN rollup : k >= pass.now - RollupKeep}
  <2>1. /\ rollup' = [m \in kept |-> rollup[m]]
        /\ UNCHANGED <<recorded, rolledAt>> /\ cut' = Later(pass.now - RollupKeep, cut)
    BY <1>5 DEF TrimRollups
  <2>2. pass.now \in Nat /\ cut \in Int /\ cut' \in Int /\ cut' >= cut /\ cut' >= pass.now - RollupKeep
    BY <1>5, <2>1, CutMoves DEF RackTyped, Clocks, Later
  <2>3. \A m \in Nat : Final(m)' => Final(m) /\ m >= pass.now - RollupKeep
    BY <2>1, <2>2 DEF Final
  <2>4. DOMAIN rollup' = kept /\ \A m \in kept : rollup'[m] = rollup[m]
    BY <2>1
  <2>5. kept \subseteq DOMAIN rollup
    OBVIOUS
  <2>6. \A m \in DOMAIN rollup : m >= pass.now - RollupKeep => m \in kept
    OBVIOUS
  <2> HIDE DEF kept
  <2> QED BY <1>1, <2>1, <2>3, <2>4, <2>5, <2>6, MinuteBounds
          DEF RollupFaithful, OfMinute, MinuteOf
<1>6. CASE UNCHANGED <<rollup, recorded, rolledAt, cut>>
  BY <1>6 DEF RollupFaithful, OfMinute, MinuteOf, Final
<1>7. \/ Record \/ (RollUp /\ rolledAt' = now /\ pass'.rolled) \/ TrimRaw
      \/ (TrimRollups /\ ~DeleteFails) \/ UNCHANGED <<rollup, recorded, rolledAt, cut>>
  BY DEF Next, RollUp, TrimRollups, DeleteFails, TimePasses, Restart, vars
<1> QED BY <1>2, <1>3, <1>4, <1>5, <1>6, <1>7

HIDE HistoryAssumption DEF HistoryAssumption

-----------------------------------------------------------------------------
(* The chart of the rack.                                                  *)

Less == {ss \in Nat \X Nat : ss[1] < ss[2]}

\* The least number, from the well-foundedness of <.
LEMMA Least ==
  ASSUME NEW T \in SUBSET Nat, T # {}
  PROVE  \E n \in T : \A m \in T : n <= m
<1>1. IsWellFoundedOn({ss \in Nat \X Nat : ss[1] < ss[2]}, Nat)
  BY NatLessThanWellFounded DEF OpToRel
<1>2. PICK n \in T : \A m \in T : ~ (<<m, n>> \in Less)
  BY <1>1, WFMin DEF Less
<1>3. ASSUME NEW m \in T, m < n PROVE <<m, n>> \in Less
  BY <1>3 DEF Less
<1>4. ASSUME NEW m \in T PROVE n <= m
  <2>1. ~(m < n) /\ m \in Nat /\ n \in Nat
    BY <1>2, <1>3
  <2> QED BY <2>1
<1> QED BY <1>4

\* Induction over a set of numbers.
LEMMA Induction ==
  ASSUME NEW S \in SUBSET Nat, 0 \in S, \A n \in Nat : n \in S => n + 1 \in S
  PROVE  S = Nat
<1> SUFFICES ASSUME Nat \ S # {} PROVE FALSE
  OBVIOUS
<1>1. PICK n \in Nat \ S : \A m \in Nat \ S : n <= m
  BY Least
<1>2. n - 1 \in Nat /\ n - 1 \in S
  BY <1>1
<1> QED BY <1>1, <1>2

\* A list in the order of time, no point twice.
Sorts(s) == \A i, j \in DOMAIN s : i < j => s[i] < s[j]

\* There is an enumeration in order, by induction on the size.
LEMMA SortExists ==
  ASSUME NEW S \in SUBSET Nat, IsFiniteSet(S)
  PROVE  \E s \in [1..Cardinality(S) -> S] : Sorts(s)
<1> DEFINE Good(n) == \A T \in SUBSET Nat : IsFiniteSet(T) /\ Cardinality(T) = n =>
                          \E s \in [1..n -> T] : Sorts(s)
           K == {n \in Nat : Good(n)}
<1>1. 0 \in K
  <2> SUFFICES ASSUME NEW T \in SUBSET Nat PROVE \E s \in [1..0 -> T] : Sorts(s)
    OBVIOUS
  <2>1. [i \in 1..0 |-> 0] \in [1..0 -> T] /\ Sorts([i \in 1..0 |-> 0])
    BY DEF Sorts
  <2> QED BY <2>1
<1>2. ASSUME NEW n \in Nat, Good(n) PROVE Good(n + 1)
  <2> SUFFICES ASSUME NEW T \in SUBSET Nat, IsFiniteSet(T), Cardinality(T) = n + 1
               PROVE  \E s \in [1..n + 1 -> T] : Sorts(s)
    OBVIOUS
  <2>1. T # {}
    BY FS_EmptySet
  <2>2. PICK x \in T : \A y \in T : x <= y
    BY <2>1, Least
  <2>3. IsFiniteSet(T \ {x}) /\ Cardinality(T \ {x}) = n
    <3>1. Cardinality(T \ {x}) = Cardinality(T) - 1
      BY FS_RemoveElement
    <3> QED BY <3>1, FS_RemoveElement
  <2>4. PICK t \in [1..n -> T \ {x}] : Sorts(t)
    BY <1>2, <2>3
  <2> DEFINE s == [i \in 1..n + 1 |-> IF i = 1 THEN x ELSE t[i - 1]]
  <2>5. s \in [1..n + 1 -> T]
    OBVIOUS
  <2>6. ASSUME NEW i \in 1..n + 1, NEW j \in 1..n + 1, i < j PROVE s[i] < s[j]
    <3>1. j - 1 \in 1..n /\ t[j - 1] \in T \ {x} /\ s[j] = t[j - 1]
      BY <2>6
    <3>2. CASE i = 1
      <4>1. s[i] = x /\ t[j - 1] # x /\ x <= t[j - 1]
        BY <2>2, <3>1, <3>2
      <4>2. x \in Nat /\ t[j - 1] \in Nat
        BY <3>1
      <4> HIDE DEF s
      <4> QED BY <3>1, <4>1, <4>2
    <3>3. CASE i # 1
      <4>1. i - 1 \in 1..n /\ i - 1 < j - 1 /\ s[i] = t[i - 1]
        BY <2>6, <3>3
      <4> QED BY <2>4, <3>1, <4>1 DEF Sorts
    <3> QED BY <3>2, <3>3
  <2>7. Sorts(s)
    BY <2>6 DEF Sorts
  <2> QED BY <2>5, <2>7
<1> HIDE DEF Good
<1>3. K = Nat
  <2>1. K \in SUBSET Nat /\ \A n \in Nat : n \in K => n + 1 \in K
    BY <1>2
  <2> QED BY <1>1, <2>1, Induction
<1> QED BY <1>3, FS_CardinalityType DEF Good

\* Dividing numbers that are further apart than the divisor.
LEMMA Strides ==
  ASSUME NEW x \in Nat, NEW n \in Nat, NEW k \in Nat \ {0}, n > k
  PROVE  x \div k < (x + n) \div k
OBVIOUS

\* The last point taken is one of them.
LEMMA StrideInside ==
  ASSUME NEW k \in Nat \ {0}, NEW n \in Nat, n > k, NEW i \in 1..k
  PROVE  ((i - 1) * n) \div k + 1 \in 1..n
<1>1. (i - 1) * n \in Nat /\ (i - 1) * n <= (k - 1) * n
  OBVIOUS
<1>2. (k - 1) * n = n * k - n /\ n * k \in Nat
  OBVIOUS
<1> DEFINE x == (i - 1) * n
           y == n * k
<1>3. x \in Nat /\ y \in Nat /\ x <= y - n
  BY <1>1, <1>2
<1>4. x \div k <= (y - n) \div k
  <2> HIDE DEF x, y
  <2> QED BY <1>3
<1>5. y \div k = n
  OBVIOUS
<1>6. (y - n) \div k < n /\ 0 <= x \div k /\ x \div k \in Nat
  <2>1. (y - n) + n = y /\ y - n \in Nat
    BY <1>3
  <2>2. (y - n) \div k < y \div k
    <3> HIDE DEF x, y
    <3> QED BY <1>3, <2>1, Strides
  <2>3. 0 <= x \div k /\ x \div k \in Nat
    <3> HIDE DEF x, y
    <3> QED BY <1>3
  <2> QED BY <1>5, <2>2, <2>3
<1> QED BY <1>4, <1>6

\* What is taken of points in the order of time is in that order, none twice.
LEMMA ThinnedInOrder ==
  ASSUME NEW points \in Seq(Int),
         \A i, j \in 1..Len(points) : i < j => points[i] < points[j]
  PROVE  /\ Len(Thinned(points)) <= MaxPoints
         /\ \A i \in 1..Len(Thinned(points)) - 1 : Thinned(points)[i] < Thinned(points)[i + 1]
<1> DEFINE n == Len(points)
           at_(i) == ((i - 1) * n) \div MaxPoints + 1
<1>1. n \in Nat /\ MaxPoints \in Nat \ {0}
  BY HistoryAssumption, LenProperties DEF HistoryAssumption
<1>2. CASE n <= MaxPoints
  BY <1>1, <1>2 DEF Thinned
<1>3. CASE n > MaxPoints
  <2> DEFINE thin == [i \in 1..MaxPoints |-> points[at_(i)]]
  <2>1. Thinned(points) = thin
    BY <1>1, <1>3 DEF Thinned
  <2>2. Len(thin) = MaxPoints
    BY <1>1
  <2>3. ASSUME NEW i \in 1..MaxPoints - 1 PROVE thin[i] < thin[i + 1]
    <3>1. i \in 1..MaxPoints /\ i + 1 \in 1..MaxPoints
      BY <1>1
    <3>2. at_(i) \in 1..n /\ at_(i + 1) \in 1..n
      BY <1>1, <1>3, <3>1, StrideInside
    <3>3. at_(i) < at_(i + 1)
      <4>1. (i - 1) * n \in Nat /\ (i + 1 - 1) * n = (i - 1) * n + n
        BY <1>1, <3>1
      <4>2. ((i - 1) * n) \div MaxPoints < ((i - 1) * n + n) \div MaxPoints
        BY <1>1, <1>3, <4>1, Strides
      <4> QED BY <1>1, <4>1, <4>2, <3>2
    <3> QED BY <3>1, <3>2, <3>3
  <2>4. Len(thin) <= MaxPoints /\ \A i \in 1..Len(thin) - 1 : thin[i] < thin[i + 1]
    <3> HIDE DEF thin
    <3> QED BY <1>1, <2>2, <2>3
  <2> QED
    <3> HIDE DEF thin
    <3> QED BY <2>1, <2>4
<1> QED BY <1>1, <1>2, <1>3

\* A function on 1..n is a list of n.
LEMMA ListShape ==
  ASSUME NEW n \in Nat, NEW S \in SUBSET Nat, NEW s \in [1..n -> S]
  PROVE  s \in Seq(Int) /\ Len(s) = n
<1>1. s \in Seq(S) /\ Len(s) = n
  OBVIOUS
<1>2. S \subseteq Int
  OBVIOUS
<1> QED BY <1>1, <1>2, SeqMonotonic

\* The minutes of the chart, before thinning.
LEMMA InOrderSorts ==
  ASSUME NEW S \in SUBSET Nat, IsFiniteSet(S)
  PROVE  /\ InOrder(S) \in Seq(Int)
         /\ \A i, j \in 1..Len(InOrder(S)) : i < j => InOrder(S)[i] < InOrder(S)[j]
<1> DEFINE n == Cardinality(S)
<1>1. n \in Nat
  BY FS_CardinalityType
<1>2. \E s \in [1..n -> S] : Sorts(s)
  BY SortExists
<1> HIDE DEF n
<1>3. InOrder(S) = CHOOSE s \in [1..n -> S] : Sorts(s)
  BY DEF InOrder, Sorts, n
<1>4. InOrder(S) \in [1..n -> S] /\ Sorts(InOrder(S))
  BY <1>2, <1>3
<1>5. InOrder(S) \in Seq(Int) /\ Len(InOrder(S)) = n
  BY <1>1, <1>4, ListShape
<1> QED BY <1>4, <1>5 DEF Sorts

(* For any retentions and whichever statements fail: the chart of the rack *)
(* shows the rollups that were kept, in the order of time and no more than *)
(* max_points of them, and these count what was recorded, of the minutes   *)
(* retention has not begun to delete (power_history_store.cpp 63-108).     *)
THEOREM HistoryAlwaysFaithful == Spec => []HistoryFaithful
<1>1. ASSUME RackTyped, Clocks, RollupFaithful PROVE HistoryFaithful
  <2> DEFINE kept == {m \in DOMAIN rollup : m >= 0}
  <2>1. kept \in SUBSET Nat /\ IsFiniteSet(kept)
    <3>1. IsFiniteSet(0..now) /\ kept \subseteq 0..now
      BY <1>1, FS_Interval DEF RackTyped, Clocks
    <3>2. IsFiniteSet(kept)
      <4> HIDE DEF kept
      <4> QED BY <3>1, FS_Subset
    <3> QED BY <3>1, <3>2
  <2> HIDE DEF kept
  <2>2. /\ InOrder(kept) \in Seq(Int)
        /\ \A i, j \in 1..Len(InOrder(kept)) : i < j => InOrder(kept)[i] < InOrder(kept)[j]
    BY <2>1, InOrderSorts
  <2>3. /\ Len(Thinned(InOrder(kept))) <= MaxPoints
        /\ \A i \in 1..Len(Thinned(InOrder(kept))) - 1 :
             Thinned(InOrder(kept))[i] < Thinned(InOrder(kept))[i + 1]
    BY <2>2, ThinnedInOrder
  <2>4. History(0) = Thinned(InOrder(kept))
    BY DEF History, kept
  <2> QED BY <1>1, <2>3, <2>4 DEF HistoryFaithful
<1>2. Init => RackTyped /\ Clocks /\ RollupFaithful
  BY HistoryAssumption DEF Init, RackTyped, Clocks, RollupFaithful, HistoryAssumption
<1>3. RackInv => RackTyped
  BY DEF RackInv
<1> QED BY <1>1, <1>2, <1>3, RackInvInit, RackInvStep, ClocksStep, FaithfulStep, PTL DEF Spec

-----------------------------------------------------------------------------
(* The history of a host.                                                  *)

USE RingAssumption DEF RingAssumption

Val == Value \cup {Zero}
Ring == [buf : [0..HistoryLen - 1 -> Val], head : 0..HistoryLen - 1, count : 0..HistoryLen]
Made == [made : {TRUE}, online : BOOLEAN, metrics : Val, sampledAt : Int, ring : Ring]

HostTyped ==
  /\ clock \in Nat
  /\ entry = NoEntry \/ entry \in Made
  /\ taken \in Seq(Val)

\* Where the j-th youngest sample of a ring is.
Before(h, j) == IF j <= h THEN h - j ELSE h - j + HistoryLen

\* A ring holds the youngest of some samples.
Holds(ring, samples) ==
  /\ ring.count = IF Len(samples) < HistoryLen THEN Len(samples) ELSE HistoryLen
  /\ \A j \in 1..ring.count :
       ring.buf[Before(ring.head, j)] = samples[Len(samples) + 1 - j]

RingTrue == IF entry.made THEN Holds(entry.ring, taken) ELSE taken = <<>>

HostInv == HostTyped /\ RingTrue


-----------------------------------------------------------------------------
(* Arithmetic of the ring.                                                 *)

LEMMA Advance ==
  ASSUME NEW h \in 0..HistoryLen - 1
  PROVE  /\ (h + 1) % HistoryLen = IF h + 1 = HistoryLen THEN 0 ELSE h + 1
         /\ (h + 1) % HistoryLen \in 0..HistoryLen - 1
<1>1. (h + 1) % HistoryLen = IF h + 1 = HistoryLen THEN 0 ELSE h + 1
  BY SMT
<1> QED BY <1>1

LEMMA Wraps ==
  ASSUME NEW a \in 0..2 * HistoryLen - 1
  PROVE  a % HistoryLen = IF a < HistoryLen THEN a ELSE a - HistoryLen
<1>1. CASE a < HistoryLen
  <2>1. a \in 0..HistoryLen - 1
    BY <1>1
  <2>2. a % HistoryLen = a
    BY <2>1, SMT
  <2> QED BY <1>1, <2>2
<1>2. CASE ~(a < HistoryLen)
  <2>1. a \in HistoryLen..2 * HistoryLen - 1
    BY <1>2
  <2>2. a % HistoryLen = a - HistoryLen
    BY <2>1, SMT
  <2> QED BY <1>2, <2>2
<1> QED BY <1>1, <1>2

LEMMA BeforeInRing ==
  ASSUME NEW h \in 0..HistoryLen - 1, NEW j \in 1..HistoryLen
  PROVE  Before(h, j) \in 0..HistoryLen - 1
BY DEF Before

\* Where the j-th youngest is after the head has moved on.
LEMMA BeforeNext ==
  ASSUME NEW h \in 0..HistoryLen - 1, NEW j \in 1..HistoryLen
  PROVE  LET next == (h + 1) % HistoryLen
         IN /\ j = 1 => Before(next, j) = h
            /\ j > 1 => Before(next, j) = Before(h, j - 1) /\ Before(h, j - 1) # h
BY Advance DEF Before

\* The ring after push holds the samples and the new one.
LEMMA PushHolds ==
  ASSUME NEW ring \in Ring, NEW samples \in Seq(Val), NEW s \in Val,
         Holds(ring, samples)
  PROVE  Push(ring, s) \in Ring /\ Holds(Push(ring, s), Append(samples, s))
<1> DEFINE new == Push(ring, s)
           more == Append(samples, s)
           n == Len(samples)
<1>1. /\ n \in Nat /\ Len(more) = n + 1 /\ more[n + 1] = s
      /\ \A k \in 1..n : more[k] = samples[k]
  OBVIOUS
<1>2. /\ ring.head \in 0..HistoryLen - 1 /\ ring.count \in 0..HistoryLen
      /\ ring.buf \in [0..HistoryLen - 1 -> Val] /\ s \in Val
  BY DEF Ring
<1>3. /\ new.buf = [ring.buf EXCEPT ![ring.head] = s]
      /\ new.head = (ring.head + 1) % HistoryLen
      /\ new.count = IF ring.count < HistoryLen THEN ring.count + 1 ELSE ring.count
  BY DEF Push
<1>4. new \in Ring
  <2>1. new.head \in 0..HistoryLen - 1
    BY <1>2, <1>3, Advance
  <2>2. new.count \in 0..HistoryLen
    BY <1>2, <1>3
  <2>3. new.buf \in [0..HistoryLen - 1 -> Val]
    BY <1>2, <1>3
  <2> QED BY <2>1, <2>2, <2>3 DEF Push, Ring
<1>5. new.count = IF n + 1 < HistoryLen THEN n + 1 ELSE HistoryLen
  BY <1>1, <1>2, <1>3 DEF Holds
<1>6. ASSUME NEW j \in 1..new.count
      PROVE  new.buf[Before(new.head, j)] = more[n + 2 - j]
  <2>1. j \in 1..HistoryLen /\ j <= n + 1
    BY <1>1, <1>5
  <2>2. CASE j = 1
    <3>1. Before(new.head, j) = ring.head
      BY <1>2, <1>3, <2>1, <2>2, BeforeNext
    <3>2. more[n + 2 - j] = s
      BY <1>1, <2>2
    <3> QED BY <1>2, <1>3, <3>1, <3>2
  <2>3. CASE j > 1
    <3> DEFINE k == j - 1
    <3>1. k \in 1..ring.count /\ k \in 1..HistoryLen
      BY <1>1, <1>2, <2>1, <2>3 DEF Holds
    <3>2. Before(new.head, j) = Before(ring.head, k) /\ Before(ring.head, k) # ring.head
      BY <1>2, <1>3, <2>1, <2>3, BeforeNext
    <3>3. Before(ring.head, k) \in 0..HistoryLen - 1
      BY <1>2, <3>1, BeforeInRing
    <3>4. new.buf[Before(ring.head, k)] = ring.buf[Before(ring.head, k)]
      BY <1>2, <1>3, <3>2, <3>3
    <3>5. ring.buf[Before(ring.head, k)] = samples[n + 1 - k]
      BY <3>1 DEF Holds
    <3>6. more[n + 2 - j] = samples[n + 1 - k]
      BY <1>1, <2>1, <2>3
    <3> QED BY <3>2, <3>4, <3>5, <3>6
  <2> QED BY <2>1, <2>2, <2>3
<1> HIDE DEF new, more
<1>7. Holds(new, more)
  BY <1>1, <1>5, <1>6 DEF Holds
<1> QED BY <1>4, <1>7 DEF new, more

-----------------------------------------------------------------------------
LEMMA NewTyped == NewEntry \in Made /\ NewEntry.made /\ Holds(NewEntry.ring, <<>>)
<1>1. NewEntry.ring \in Ring
  BY DEF NewEntry, Ring, Val
<1>2. NewEntry \in Made
  BY <1>1 DEF NewEntry, Made, Val
<1>3. Holds(NewEntry.ring, <<>>)
  BY DEF NewEntry, Holds
<1> QED BY <1>2, <1>3 DEF NewEntry

LEMMA MadeEntry ==
  ASSUME HostInv, entry.made
  PROVE  /\ entry \in Made /\ entry.ring \in Ring /\ Holds(entry.ring, taken)
         /\ entry.metrics \in Val /\ clock \in Nat /\ taken \in Seq(Val)
<1>1. entry \in Made
  BY DEF HostInv, HostTyped, NoEntry
<1>2. entry.ring \in Ring /\ entry.metrics \in Val
  BY <1>1 DEF Made
<1>3. Holds(entry.ring, taken)
  BY DEF HostInv, RingTrue
<1> QED BY <1>1, <1>2, <1>3 DEF HostInv, HostTyped

\* EntryFor: the entry, or a fresh one with nothing taken.
LEMMA EntryForHolds ==
  ASSUME HostInv
  PROVE  EntryFor \in Made /\ Holds(EntryFor.ring, taken)
<1>1. CASE entry.made
  BY <1>1 DEF HostInv, HostTyped, RingTrue, EntryFor, NoEntry
<1>2. CASE ~entry.made
  BY <1>2, NewTyped DEF HostInv, RingTrue, EntryFor
<1> QED BY <1>1, <1>2

\* A step that gives the entry other metrics or another status keeps HostInv.
LEMMA SameRing ==
  ASSUME HostInv, UNCHANGED <<clock, taken>>, NEW e \in Made, Holds(e.ring, taken),
         entry' \in Made, entry'.ring = e.ring
  PROVE  HostInv'
<1>1. entry'.made
  BY DEF Made
<1> QED BY <1>1 DEF HostInv, HostTyped, RingTrue, Holds, Before

LEMMA HostInvInit == RingInit => HostInv
BY DEF RingInit, HostInv, HostTyped, RingTrue, NoEntry

LEMMA HostInvStep == HostInv /\ [RingNext]_ringVars => HostInv'
<1> SUFFICES ASSUME HostInv, [RingNext]_ringVars PROVE HostInv'
    OBVIOUS
<1>1. CASE UpdateHello
  <2>1. entry' \in Made /\ entry'.ring = EntryFor.ring
    BY <1>1, EntryForHolds DEF UpdateHello, Made
  <2> QED BY <1>1, <2>1, EntryForHolds, SameRing DEF UpdateHello
<1>2. ASSUME NEW v \in Value, UpdateMetrics(v) PROVE HostInv'
  <2>1. entry' \in Made /\ entry'.ring = EntryFor.ring
    BY <1>2, EntryForHolds DEF UpdateMetrics, Made, Val
  <2> QED BY <1>2, <2>1, EntryForHolds, SameRing DEF UpdateMetrics
<1>3. CASE GoesOffline
  <2>1. entry \in Made /\ Holds(entry.ring, taken)
    BY <1>3 DEF GoesOffline, HostInv, HostTyped, RingTrue, NoEntry
  <2>2. entry' \in Made /\ entry'.ring = entry.ring
    BY <1>3, <2>1 DEF GoesOffline, Made
  <2> QED BY <1>3, <2>1, <2>2, SameRing DEF GoesOffline
<1>4. CASE RemoveHost
  BY <1>4 DEF RemoveHost, HostInv, HostTyped, RingTrue, NoEntry
<1>5. CASE TickHistory
  <2>1. CASE Due /\ entry' = [entry EXCEPT !.ring = Push(entry.ring, entry.metrics),
                                          !.sampledAt = clock]
             /\ taken' = Append(taken, entry.metrics)
    <3> DEFINE s == entry.metrics
           ring == Push(entry.ring, entry.metrics)
    <3>1. /\ entry \in Made /\ entry.ring \in Ring /\ Holds(entry.ring, taken)
          /\ entry.metrics \in Val /\ clock \in Nat /\ taken \in Seq(Val)
      BY <2>1, MadeEntry DEF Due
    <3>2. s \in Val
      BY <3>1
    <3>3. ring \in Ring /\ Holds(ring, Append(taken, s))
      BY <3>1, <3>2, PushHolds
    <3>4. entry' \in Made /\ entry'.ring = ring
      <4> HIDE DEF ring
      <4>1. entry' = [entry EXCEPT !.ring = ring, !.sampledAt = clock]
        BY <2>1 DEF ring
      <4>2. entry \in Made /\ ring \in Ring /\ clock \in Int
        BY <3>1, <3>3
      <4> QED BY <4>1, <4>2 DEF Made
    <3>5. taken' \in Seq(Val) /\ Holds(entry'.ring, taken')
      <4>1. taken' = Append(taken, s)
        BY <2>1
      <4>2. taken' \in Seq(Val)
        BY <3>1, <3>2, <4>1
      <4> QED BY <3>3, <3>4, <4>1, <4>2
    <3>6. entry'.made
      BY <3>4 DEF Made
    <3>7. clock' \in Nat
      BY <1>5, <3>1 DEF TickHistory
    <3> QED BY <3>4, <3>5, <3>6, <3>7 DEF HostInv, HostTyped, RingTrue, Holds, Before
  <2>2. CASE UNCHANGED <<entry, taken>>
    BY <1>5, <2>2 DEF TickHistory, HostInv, HostTyped, RingTrue, Holds, Before
  <2> QED BY <1>5, <2>1, <2>2 DEF TickHistory
<1>6. CASE ProcessRestarts
  <2>1. CASE entry' = NewEntry
    <3>1. entry' \in Made /\ entry'.made /\ Holds(entry'.ring, taken')
      BY <1>6, <2>1, NewTyped DEF ProcessRestarts
    <3>2. clock' \in Nat /\ taken' \in Seq(Val)
      BY <1>6 DEF ProcessRestarts, HostInv, HostTyped
    <3> QED BY <3>1, <3>2 DEF HostInv, HostTyped, RingTrue, Holds, Before
  <2>2. CASE entry' = NoEntry
    BY <1>6, <2>2 DEF ProcessRestarts, HostInv, HostTyped, RingTrue, NoEntry
  <2> QED BY <1>6, <2>1, <2>2 DEF ProcessRestarts
<1>7. CASE RebuildUi \/ ClockTicks \/ UNCHANGED ringVars
  <2>1. UNCHANGED <<entry, taken>> /\ clock' \in Nat
    BY <1>7 DEF RebuildUi, ClockTicks, ringVars, HostInv, HostTyped
  <2> QED BY <2>1 DEF HostInv, HostTyped, RingTrue, Holds, Before
<1> QED BY <1>1, <1>2, <1>3, <1>4, <1>5, <1>6, <1>7 DEF RingNext

\* The points of the chart are where the ring has the samples.
LEMMA ChartOfRing == HostInv => ChartTrue
<1> SUFFICES ASSUME HostInv, entry.made, NEW i \in 0..HistoryLen - 1
             PROVE  LET n == Len(taken)
                        shown == IF n < HistoryLen THEN n ELSE HistoryLen
                    IN Point(i) = IF i < shown THEN taken[n - shown + 1 + i] ELSE NoPoint
    BY DEF ChartTrue
<1> DEFINE n == Len(taken)
           h == entry.ring.head
           c == entry.ring.count
<1>1. Holds(entry.ring, taken) /\ n \in Nat /\ h \in 0..HistoryLen - 1 /\ c \in 0..HistoryLen
  <2>1. entry.ring \in Ring /\ Holds(entry.ring, taken) /\ taken \in Seq(Val)
    BY MadeEntry
  <2> QED BY <2>1 DEF Ring
<1>2. c = IF n < HistoryLen THEN n ELSE HistoryLen
  BY <1>1 DEF Holds
<1>3. CASE i < c
  <2> DEFINE j == c - i
           a == h - c + i + HistoryLen
  <2>1. j \in 1..c /\ j \in 1..HistoryLen
    BY <1>1, <1>3
  <2>2. a = h - j + HistoryLen /\ a \in 0..2 * HistoryLen - 1
    <3> HIDE DEF h, c
    <3>1. a = h - j + HistoryLen
      BY <1>1
    <3> HIDE DEF a, j
    <3> QED BY <1>1, <2>1, <3>1
  <2>3. a % HistoryLen = Before(h, j)
    <3> HIDE DEF h, a, j
    <3>1. a % HistoryLen = IF a < HistoryLen THEN a ELSE a - HistoryLen
      BY <2>2, Wraps
    <3>2. CASE j <= h
      BY <1>1, <2>1, <2>2, <3>1, <3>2 DEF Before
    <3>3. CASE ~(j <= h)
      BY <1>1, <2>1, <2>2, <3>1, <3>3 DEF Before
    <3> QED BY <3>2, <3>3
  <2>4. entry.ring.buf[Before(h, j)] = taken[n + 1 - j]
    BY <1>1, <2>1 DEF Holds
  <2>5. n + 1 - j = n - c + 1 + i
    <3>1. n \in Int /\ c \in Int /\ i \in Int /\ j = c - i
      BY <1>1
    <3> HIDE DEF n, c, j
    <3> QED BY <3>1
  <2> QED BY <1>2, <1>3, <2>3, <2>4, <2>5 DEF Point
<1>4. CASE ~(i < c)
  BY <1>1, <1>2, <1>4 DEF Point
<1> QED BY <1>1, <1>3, <1>4

(* The chart of a host shows its last samples, oldest first, however often *)
(* the ring has wrapped, and never a sample of an entry that was removed   *)
(* (metrics_store.h 26, screen_host_detail.cpp 754).                       *)
THEOREM ChartAlwaysTrue == RingSpec => []ChartTrue
<1>1. RingInit /\ [][RingNext]_ringVars => []HostInv
  BY HostInvInit, HostInvStep, PTL
<1> QED BY <1>1, ChartOfRing, PTL DEF RingSpec
=============================================================================
