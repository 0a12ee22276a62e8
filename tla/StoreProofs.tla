---------------------------- MODULE StoreProofs ----------------------------
(***************************************************************************)
(* Theorems about the two stores: HostStore, for any hosts, settings and   *)
(* failing saves, and PduLink, for any outlets and ids, taps and changes.  *)
(***************************************************************************)
EXTENDS HostStore, PduLink, TLAPS

-----------------------------------------------------------------------------
(* The PDU store and the outlets it shows.                                 *)

Reading == {NoOutlets} \cup [Outlet -> BOOLEAN]

LinkTyped ==
  /\ since \in [Outlet -> 0..2]
  /\ poll \in [at : {"start", "inlets", "deliver"}, got : Reading, measured : BOOLEAN]
  /\ shown \in Reading

\* What a poll under way has read of an outlet that has not changed since the
\* last update was read after the outlet changed, and is right.
PollCurrent ==
  poll.at # "start" =>
    \A o \in DOMAIN poll.got : since[o] > 0 => poll.got[o] = (o \in on)

LinkInv == LinkTyped /\ PollCurrent /\ StaleAtMostOnce

LEMMA ReadingOutlets == \A r \in Reading : DOMAIN r \subseteq Outlet
BY DEF Reading, NoOutlets

\* A step that touches neither outlets, poll nor store keeps it.
LEMMA LinkKept ==
  ASSUME LinkInv, UNCHANGED <<on, poll, shown, since>>
  PROVE  LinkInv'
BY DEF LinkInv, LinkTyped, PollCurrent, StaleAtMostOnce

\* One outlet changes: nothing is claimed of it any more, and of the others
\* the same.
LEMMA OneChanges ==
  ASSUME LinkInv, NEW p, UNCHANGED <<poll, shown>>,
         since' = [since EXCEPT ![p] = 0],
         \A o : o # p => (o \in on' <=> o \in on)
  PROVE  LinkInv'
<1>1. LinkTyped'
  <2>1. since \in [Outlet -> 0..2] /\ 0 \in 0..2
    BY DEF LinkInv, LinkTyped
  <2>2. [since EXCEPT ![p] = 0] \in [Outlet -> 0..2]
    BY ONLY <2>1
  <2> QED BY <2>2 DEF LinkInv, LinkTyped
<1>2. \A o \in Outlet : since'[o] > 0 => o # p /\ since'[o] = since[o]
  BY DEF LinkInv, LinkTyped
<1>3. PollCurrent'
  <2> SUFFICES ASSUME poll.at # "start", NEW o \in DOMAIN poll.got, since'[o] > 0
               PROVE  poll.got[o] = (o \in on')
      BY DEF PollCurrent
  <2>1. o \in Outlet
    BY ReadingOutlets DEF LinkInv, LinkTyped
  <2>2. o # p /\ since[o] > 0
    BY <1>2, <2>1
  <2>3. poll.got[o] = (o \in on)
    BY <2>2 DEF LinkInv, PollCurrent
  <2> QED BY <2>2, <2>3
<1>4. StaleAtMostOnce'
  <2> SUFFICES ASSUME NEW o \in DOMAIN shown, since'[o] = 2
               PROVE  shown[o] = (o \in on')
      BY DEF StaleAtMostOnce
  <2>1. o \in Outlet
    BY ReadingOutlets DEF LinkInv, LinkTyped
  <2>2. o # p /\ since[o] = 2
    BY <1>2, <2>1
  <2>3. shown[o] = (o \in on)
    BY <2>2 DEF LinkInv, StaleAtMostOnce
  <2> QED BY <2>2, <2>3
<1> QED BY <1>1, <1>3, <1>4 DEF LinkInv

LEMMA LinkInvInit == LinkInit => LinkInv
BY DEF LinkInit, StartPoll, NoOutlets, Reading, LinkInv, LinkTyped, PollCurrent, StaleAtMostOnce

LEMMA PollKeeps == LinkInv /\ PollStep => LinkInv'
<1> SUFFICES ASSUME LinkInv, PollStep PROVE LinkInv'
    OBVIOUS
<1> USE DEF LinkInv
<1>1. CASE PollOutlets
  <2>1. UNCHANGED <<on, shown, since>>
    BY <1>1 DEF PollOutlets, MarkPollFailed, ThreadOnly, pduVars, storeVars
  <2>2. StaleAtMostOnce'
    BY <2>1 DEF StaleAtMostOnce
  <2>3. CASE UNCHANGED poll
    BY <2>1, <2>3, LinkKept
  <2>4. CASE poll' = [poll EXCEPT !.at = "inlets", !.got = NoOutlets]
    BY <2>1, <2>2, <2>4 DEF LinkTyped, PollCurrent, Reading, NoOutlets
  <2>5. CASE poll' = [poll EXCEPT !.at = "inlets", !.got = [o \in Outlet |-> o \in on]]
    <3>1. poll'.got = [o \in Outlet |-> o \in on]
      BY <2>5 DEF LinkTyped
    <3>2. PollCurrent'
      BY <2>1, <3>1 DEF PollCurrent
    <3>3. [o \in Outlet |-> o \in on] \in Reading
      <4>1. \A o \in Outlet : (o \in on) \in BOOLEAN
        OBVIOUS
      <4> QED BY <4>1, Zenon DEF Reading
    <3>4. LinkTyped'
      BY <2>1, <2>5, <3>3 DEF LinkTyped
    <3> QED BY <2>2, <3>2, <3>4
  <2> QED BY <1>1, <2>3, <2>4, <2>5 DEF PollOutlets
<1>2. CASE PollInlets
  <2>1. UNCHANGED <<on, shown, since>>
    BY <1>2 DEF PollInlets, MarkPollFailed, ThreadOnly, pduVars, storeVars
  <2>2. poll.at = "inlets" /\ poll'.got = poll.got
        /\ poll' \in [at : {"start", "inlets", "deliver"}, got : Reading, measured : BOOLEAN]
    BY <1>2 DEF PollInlets, LinkTyped
  <2> QED BY <2>1, <2>2 DEF LinkTyped, PollCurrent, StaleAtMostOnce
<1>3. CASE PduUpdate
  <2>1. /\ poll.at = "deliver" /\ poll' = [poll EXCEPT !.at = "start"]
        /\ shown' = poll.got /\ on' = on
        /\ since' = [o \in Outlet |-> Counted(since[o])]
    BY <1>3 DEF PduUpdate, ThreadOnly, pduVars
  <2>2. LinkTyped' /\ PollCurrent'
    BY <2>1 DEF LinkTyped, PollCurrent, Counted
  <2>3. StaleAtMostOnce'
    <3> SUFFICES ASSUME NEW o \in DOMAIN poll.got, since'[o] = 2
                 PROVE  poll.got[o] = (o \in on)
        BY <2>1 DEF StaleAtMostOnce
    <3>1. o \in Outlet
      BY ReadingOutlets DEF LinkTyped
    <3>2. since[o] > 0
      BY <2>1, <3>1 DEF LinkTyped, Counted
    <3> QED BY <2>1, <3>2 DEF PollCurrent
  <2> QED BY <2>2, <2>3
<1> QED BY <1>1, <1>2, <1>3 DEF PollStep

LEMMA LinkInvNext == LinkInv /\ [LinkNext]_linkVars => LinkInv'
<1> SUFFICES ASSUME LinkInv, [LinkNext]_linkVars PROVE LinkInv'
    OBVIOUS
<1>1. CASE PollStep
  BY <1>1, PollKeeps
<1>2. CASE PutStep
  <2>1. CASE PutArrives /\ on' # on
    <3>1. /\ UNCHANGED <<poll, shown>>
          /\ since' = [since EXCEPT ![put.outlet] = 0]
          /\ \A o : o # put.outlet => (o \in on' <=> o \in on)
      BY <2>1 DEF PutArrives, storeVars
    <3> QED BY <3>1, OneChanges
  <2>2. CASE PutArrives /\ on' = on
    <3>1. UNCHANGED <<on, poll, shown, since>>
      BY <2>2 DEF PutArrives, storeVars
    <3> QED BY <3>1, LinkKept
  <2>3. CASE GetOutletsForPut \/ GetInletsForPut \/ LookAgain \/ PutAnswered
    <3>1. UNCHANGED <<on, poll, shown, since>>
      BY <2>3 DEF GetOutletsForPut, GetInletsForPut, LookAgain, PutAnswered, PageOnly,
                  pduVars, storeVars
    <3> QED BY <3>1, LinkKept
  <2> QED BY <1>2, <2>1, <2>2, <2>3 DEF PutStep
<1>3. CASE PageRefresh \/ LinkChanges \/ UNCHANGED linkVars
  <2>1. UNCHANGED <<on, poll, shown, since>>
    BY <1>3 DEF PageRefresh, LinkChanges, PageOnly, linkVars, pduVars, storeVars
  <2> QED BY <2>1, LinkKept
<1>4. CASE PduRestart
  BY <1>4 DEF PduRestart, StartPoll, NoOutlets, Reading, LinkInv, LinkTyped, PollCurrent,
              StaleAtMostOnce
<1>5. ASSUME NEW o \in Outlet, Tap(o)
      PROVE  LinkInv'
  <2>1. UNCHANGED <<on, poll, shown, since>>
    BY <1>5 DEF Tap, PageOnly, pduVars, storeVars
  <2> QED BY <2>1, LinkKept
<1>6. ASSUME NEW o \in Outlet, SwitchedElsewhere(o)
      PROVE  LinkInv'
  <2>1. /\ UNCHANGED <<poll, shown>> /\ since' = [since EXCEPT ![o] = 0]
        /\ \A p : p # o => (p \in on' <=> p \in on)
    BY <1>6 DEF SwitchedElsewhere, storeVars
  <2> QED BY <2>1, OneChanges
<1> QED BY <1>1, <1>2, <1>3, <1>4, <1>5, <1>6 DEF LinkNext

(* For any outlets, and however polls, PUTs, failures and restarts come    *)
(* between each other: two updates of the store after an outlet last       *)
(* changed, the store has it as it is (main.cpp 177-191).                  *)
THEOREM AlwaysStaleAtMostOnce == LinkSpec => []StaleAtMostOnce
<1>1. LinkInit /\ [][LinkNext]_linkVars => []LinkInv
  BY LinkInvInit, LinkInvNext, PTL
<1>2. LinkInv => StaleAtMostOnce
  BY DEF LinkInv
<1> QED BY <1>1, <1>2, PTL DEF LinkSpec

-----------------------------------------------------------------------------
(* The host store and its cache file.                                      *)

Entry == [settings : Settings, online : BOOLEAN, silent : BOOLEAN]

EntriesTyped == DOMAIN hosts \in SUBSET Host /\ hosts \in [DOMAIN hosts -> Entry]

\* The file is not JSON, or has the settings of hosts.
CacheTyped == cache = Broken \/ (DOMAIN cache \in SUBSET Host /\ cache \in [DOMAIN cache -> Settings])

PageTyped == page \in [host : Host, online : BOOLEAN] \cup {List}

ChosenKept == \A h \in Host : Known(h).choice = chosen[h]

CacheCurrent ==
  saved => /\ cache # Broken /\ DOMAIN cache \subseteq DOMAIN hosts
           /\ \A h \in Host : Cached(h) = Known(h)

IInv ==
  /\ EntriesTyped /\ CacheTyped /\ PageTyped
  /\ chosen \in [Host -> Choice] /\ saved \in BOOLEAN
  /\ ChosenKept /\ CacheCurrent

USE StoreAssumption DEF StoreAssumption

LEMMA DefaultTyped == Default \in Settings /\ Default.choice = NoChoice
BY DEF Default, Settings

LEMMA KnownTyped == ASSUME EntriesTyped, NEW h \in Host PROVE Known(h) \in Settings
BY DefaultTyped DEF EntriesTyped, Known, Entry

\* Saving: the file has all settings, or the history says it failed.
LEMMA SaveTrue ==
  ASSUME CacheTyped, EntriesTyped', SaveCache
  PROVE  CacheTyped' /\ CacheCurrent' /\ saved' \in BOOLEAN
<1>1. CASE cache' = [h \in DOMAIN hosts' |-> hosts'[h].settings] /\ saved' = TRUE
  <2>1. DOMAIN cache' = DOMAIN hosts' /\ cache' \in [DOMAIN hosts' -> Settings]
    BY <1>1 DEF EntriesTyped, Entry
  <2>2. cache' # Broken
    BY <2>1 DEF EntriesTyped, Settings
  <2>3. \A h \in Host : Cached(h)' = Known(h)'
    BY <1>1, <2>1 DEF Cached, Known
  <2> QED BY <1>1, <2>1, <2>2, <2>3 DEF CacheTyped, CacheCurrent, EntriesTyped
<1>2. CASE cache' \in {cache, Broken} /\ saved' = FALSE
  BY <1>2 DEF CacheTyped, CacheCurrent
<1> QED BY <1>1, <1>2 DEF SaveCache

\* Not saving: nothing the file has changes in the store.
LEMMA DontSaveTrue ==
  ASSUME CacheTyped, CacheCurrent, saved \in BOOLEAN, DontSave,
         DOMAIN hosts \subseteq DOMAIN hosts', \A h \in Host : Known(h)' = Known(h)
  PROVE  CacheTyped' /\ CacheCurrent' /\ saved' \in BOOLEAN
<1>1. UNCHANGED <<cache, saved>>
  BY DEF DontSave
<1>2. \A h \in Host : Cached(h)' = Cached(h)
  BY <1>1 DEF Cached
<1> QED BY <1>1, <1>2 DEF CacheTyped, CacheCurrent

LEMMA IInvInit == Init => IInv
<1> SUFFICES ASSUME Init PROVE IInv
    OBVIOUS
<1>1. DOMAIN hosts = {} /\ DOMAIN cache = {} /\ hosts = cache
  BY DEF Init
<1>2. cache \in [{} -> Settings] /\ hosts \in [{} -> Entry]
  BY <1>1 DEF Init
<1>3. cache # Broken
  BY <1>2 DEF Settings
<1>4. \A h \in Host : Known(h) = Default /\ Cached(h) = Default
  BY <1>1 DEF Known, Cached
<1> QED BY <1>1, <1>2, <1>3, <1>4, DefaultTyped
        DEF Init, IInv, EntriesTyped, CacheTyped, PageTyped, ChosenKept, CacheCurrent

\* Put changes one entry and adds it if it is new.
LEMMA PutEntry ==
  ASSUME EntriesTyped, NEW h \in Host, NEW e \in Entry, hosts' = Put(h, e)
  PROVE  /\ EntriesTyped'
         /\ DOMAIN hosts \subseteq DOMAIN hosts'
         /\ \A k \in Host : Known(k)' = IF k = h THEN e.settings ELSE Known(k)
<1>1. DOMAIN hosts' = DOMAIN hosts \cup {h}
  BY DEF Put
<1>2. \A k \in DOMAIN hosts' : hosts'[k] = IF k = h THEN e ELSE hosts[k]
  BY <1>1 DEF Put
<1>3. hosts' = [k \in DOMAIN hosts' |-> hosts'[k]]
  BY <1>1 DEF Put
<1>4. EntriesTyped'
  BY <1>1, <1>2, <1>3 DEF EntriesTyped
<1>5. \A k \in Host : Known(k)' = IF k = h THEN e.settings ELSE Known(k)
  BY <1>1, <1>2 DEF Known
<1> QED BY <1>1, <1>4, <1>5

LEMMA EntryForTyped ==
  ASSUME EntriesTyped, NEW h \in Host
  PROVE  EntryFor(h) \in Entry /\ EntryFor(h).settings = Known(h)
BY DefaultTyped DEF EntriesTyped, EntryFor, Known, Entry

\* What the agents, the clock and the connections do.
LEMMA IInvStore ==
  ASSUME IInv, NEW h \in Host,
         (\E f \in Facts : UpdateHello(h, f)) \/ UpdateMetrics(h) \/ MarkOffline(h)
           \/ FallsSilent(h) \/ TickOnlineStatus
  PROVE  IInv'
<1> USE DEF IInv
<1>1. ASSUME NEW f \in Facts, UpdateHello(h, f) PROVE IInv'
  <2> DEFINE e == [EntryFor(h) EXCEPT !.settings.facts = f, !.online = TRUE, !.silent = FALSE]
  <2>1. e \in Entry /\ e.settings.choice = Known(h).choice
    BY EntryForTyped DEF Entry, Settings
  <2> HIDE DEF e
  <2>2. hosts' = Put(h, e) /\ SaveCache /\ UNCHANGED <<page, chosen>>
    BY <1>1 DEF UpdateHello, e
  <2>3. EntriesTyped' /\ \A k \in Host : Known(k)' = IF k = h THEN e.settings ELSE Known(k)
    BY <2>1, <2>2, PutEntry
  <2>4. CacheTyped' /\ CacheCurrent' /\ saved' \in BOOLEAN
    BY <2>2, <2>3, SaveTrue
  <2>5. ChosenKept'
    BY <2>1, <2>2, <2>3 DEF ChosenKept
  <2> QED BY <2>2, <2>3, <2>4, <2>5 DEF PageTyped, List
<1>2. CASE UpdateMetrics(h)
  <2> DEFINE e == [EntryFor(h) EXCEPT !.online = TRUE, !.silent = FALSE]
  <2>1. e \in Entry /\ e.settings = Known(h)
    BY EntryForTyped DEF Entry
  <2> HIDE DEF e
  <2>2. hosts' = Put(h, e) /\ DontSave /\ UNCHANGED <<page, chosen>>
    BY <1>2 DEF UpdateMetrics, e
  <2>3. EntriesTyped' /\ DOMAIN hosts \subseteq DOMAIN hosts'
        /\ \A k \in Host : Known(k)' = Known(k)
    BY <2>1, <2>2, PutEntry
  <2>4. CacheTyped' /\ CacheCurrent' /\ saved' \in BOOLEAN
    BY <2>2, <2>3, DontSaveTrue
  <2> QED BY <2>2, <2>3, <2>4 DEF PageTyped, ChosenKept, List
<1>3. CASE MarkOffline(h)
  <2>1. EntriesTyped' /\ DOMAIN hosts' = DOMAIN hosts
        /\ \A k \in DOMAIN hosts : hosts'[k].settings = hosts[k].settings
    BY <1>3 DEF MarkOffline, EntriesTyped, Entry
  <2>2. \A k \in Host : Known(k)' = Known(k)
    BY <2>1 DEF Known
  <2>3. CacheTyped' /\ CacheCurrent' /\ saved' \in BOOLEAN
    BY <1>3, <2>1, SaveTrue DEF MarkOffline
  <2> QED BY <1>3, <2>1, <2>2, <2>3 DEF MarkOffline, PageTyped, ChosenKept, List
<1>4. CASE FallsSilent(h) \/ TickOnlineStatus
  <2>1. EntriesTyped' /\ DOMAIN hosts' = DOMAIN hosts
        /\ \A k \in DOMAIN hosts : hosts'[k].settings = hosts[k].settings
    <3>1. CASE FallsSilent(h)
      BY <3>1 DEF FallsSilent, EntriesTyped, Entry
    <3>2. CASE TickOnlineStatus
      <4> DEFINE After(k) == IF hosts[k].silent THEN [hosts[k] EXCEPT !.online = FALSE]
                             ELSE hosts[k]
      <4>1. \A k \in DOMAIN hosts : After(k) \in Entry /\ After(k).settings = hosts[k].settings
        BY DEF EntriesTyped, Entry
      <4>2. hosts' = [k \in DOMAIN hosts |-> After(k)]
        BY <3>2 DEF TickOnlineStatus
      <4> HIDE DEF After
      <4> QED BY <4>1, <4>2 DEF EntriesTyped
    <3> QED BY <1>4, <3>1, <3>2
  <2>2. \A k \in Host : Known(k)' = Known(k)
    BY <2>1 DEF Known
  <2>3. DontSave /\ UNCHANGED <<page, chosen>>
    BY <1>4 DEF FallsSilent, TickOnlineStatus
  <2>4. CacheTyped' /\ CacheCurrent' /\ saved' \in BOOLEAN
    BY <2>1, <2>2, <2>3, DontSaveTrue
  <2> QED BY <2>1, <2>2, <2>3, <2>4 DEF PageTyped, ChosenKept, List
<1> QED BY <1>1, <1>2, <1>3, <1>4

\* Drawing changes neither the store nor the file.
LEMMA IInvPages ==
  ASSUME IInv,
         \/ \E h \in Host : ShowHostDetail(h)
         \/ Refresh \/ PopHostDetail
         \/ UNCHANGED vars
  PROVE  IInv'
<1> USE DEF IInv
<1>1. UNCHANGED <<hosts, cache, chosen, saved>>
  BY DEF ShowHostDetail, Refresh, PopHostDetail, DontSave, vars
<1>2. EntriesTyped' /\ CacheTyped'
  BY <1>1 DEF EntriesTyped, CacheTyped
<1>3. \A h \in Host : Known(h)' = Known(h) /\ Cached(h)' = Cached(h)
  BY <1>1 DEF Known, Cached
<1>4. PageTyped'
  <2>1. CASE \E h \in Host : ShowHostDetail(h)
    <3>1. PICK h \in Host : page' = DetailOf(h, h \in DOMAIN hosts /\ hosts[h].online)
      BY <2>1 DEF ShowHostDetail
    <3>2. (h \in DOMAIN hosts /\ hosts[h].online) \in BOOLEAN
      BY DEF EntriesTyped, Entry
    <3> QED BY <3>1, <3>2 DEF DetailOf, PageTyped
  <2>2. CASE Refresh
    <3>1. CASE UNCHANGED page
      BY <3>1 DEF PageTyped, List
    <3>2. CASE page.host \in DOMAIN hosts /\ page' = DetailOf(page.host, hosts[page.host].online)
      BY <3>2 DEF DetailOf, PageTyped, EntriesTyped, Entry
    <3> QED BY <2>2, <3>1, <3>2 DEF Refresh
  <2>3. CASE PopHostDetail
    BY <2>3 DEF PopHostDetail, PageTyped, List
  <2>4. CASE UNCHANGED vars
    BY <2>4 DEF vars, PageTyped, List
  <2> QED BY <2>1, <2>2, <2>3, <2>4
<1> QED BY <1>1, <1>2, <1>3, <1>4 DEF ChosenKept, CacheCurrent

\* The user's own changes.
LEMMA IInvEdit ==
  ASSUME IInv, (\E c \in Choice : Edit(c)) \/ RemoveHost
  PROVE  IInv'
<1> USE DEF IInv
<1>1. ASSUME NEW c \in Choice, Edit(c) PROVE IInv'
  <2>1. /\ page.host \in DOMAIN hosts /\ page.host \in Host
        /\ hosts' = [hosts EXCEPT ![page.host].settings.choice = c]
        /\ SaveCache
        /\ chosen' = [chosen EXCEPT ![page.host] = c]
        /\ UNCHANGED page
    BY <1>1 DEF Edit, SetChoice, EntriesTyped
  <2>2. EntriesTyped' /\ DOMAIN hosts' = DOMAIN hosts
        /\ \A k \in DOMAIN hosts : hosts'[k].settings.choice =
                                     IF k = page.host THEN c ELSE hosts[k].settings.choice
    BY <2>1 DEF EntriesTyped, Entry, Settings
  <2>3. CacheTyped' /\ CacheCurrent' /\ saved' \in BOOLEAN
    BY <2>1, <2>2, SaveTrue
  <2>4. ChosenKept'
    BY <2>1, <2>2 DEF ChosenKept, Known
  <2> QED BY <2>1, <2>2, <2>3, <2>4 DEF PageTyped, List
<1>2. CASE RemoveHost
  <2>1. /\ page.host \in Host
        /\ hosts' = [h \in DOMAIN hosts \ {page.host} |-> hosts[h]]
        /\ SaveCache
        /\ chosen' = [chosen EXCEPT ![page.host] = NoChoice]
        /\ page' = List
    BY <1>2 DEF RemoveHost, PageTyped
  <2>2. EntriesTyped' /\ DOMAIN hosts' = DOMAIN hosts \ {page.host}
        /\ \A k \in DOMAIN hosts' : hosts'[k] = hosts[k]
    BY <2>1 DEF EntriesTyped
  <2>3. CacheTyped' /\ CacheCurrent' /\ saved' \in BOOLEAN
    BY <2>1, <2>2, SaveTrue
  <2>4. ChosenKept'
    BY <2>1, <2>2, DefaultTyped DEF ChosenKept, Known
  <2> QED BY <2>1, <2>2, <2>3, <2>4 DEF PageTyped, List
<1> QED BY <1>1, <1>2

LEMMA IInvRestart == IInv /\ Restart => IInv'
<1> SUFFICES ASSUME IInv, Restart PROVE IInv'
    OBVIOUS
<1> USE DEF IInv
<1> DEFINE known == IF cache = Broken THEN {} ELSE DOMAIN cache
<1>1. hosts' = [h \in known |-> [settings |-> cache[h], online |-> FALSE, silent |-> TRUE]]
  BY DEF Restart
<1>2. known \in SUBSET Host /\ \A h \in known : cache[h] \in Settings
  BY DEF CacheTyped
<1> HIDE DEF known
<1>3. EntriesTyped' /\ DOMAIN hosts' = known /\ \A h \in known : hosts'[h].settings = cache[h]
  BY <1>1, <1>2 DEF EntriesTyped, Entry
<1>4. UNCHANGED <<cache, saved>> /\ page' = List
  BY DEF Restart, DontSave
<1>5. CASE saved
  <2>1. known = DOMAIN cache
    BY <1>5 DEF known, CacheCurrent
  <2>2. \A h \in Host : Known(h)' = Cached(h) /\ Cached(h)' = Cached(h)
    BY <1>3, <1>4, <2>1 DEF Known, Cached
  <2>3. UNCHANGED chosen
    BY <1>5 DEF Restart
  <2> QED BY <1>3, <1>4, <1>5, <2>1, <2>2, <2>3
          DEF CacheTyped, PageTyped, List, ChosenKept, CacheCurrent
<1>6. CASE ~saved
  <2>1. chosen' = [h \in Host |-> IF h \in DOMAIN hosts' THEN hosts'[h].settings.choice
                                  ELSE NoChoice]
    BY <1>6 DEF Restart
  <2>2. ChosenKept'
    BY <2>1, DefaultTyped DEF ChosenKept, Known
  <2>3. chosen' \in [Host -> Choice]
    BY <1>3, <2>1 DEF EntriesTyped, Entry, Settings
  <2> QED BY <1>3, <1>4, <1>6, <2>2, <2>3 DEF CacheTyped, PageTyped, List, CacheCurrent
<1> QED BY <1>5, <1>6

LEMMA IInvNext == IInv /\ [Next]_vars => IInv'
<1> SUFFICES ASSUME IInv, [Next]_vars PROVE IInv'
    OBVIOUS
<1>1. ASSUME NEW h \in Host,
             (\E f \in Facts : UpdateHello(h, f)) \/ UpdateMetrics(h) \/ MarkOffline(h)
               \/ FallsSilent(h)
      PROVE  IInv'
  BY <1>1, IInvStore
<1>2. CASE TickOnlineStatus
  <2>1. CASE Host = {}
    <3>1. UNCHANGED <<cache, chosen, saved, page>> /\ DOMAIN hosts' = DOMAIN hosts
          /\ EntriesTyped'
      BY <1>2, <2>1 DEF TickOnlineStatus, DontSave, EntriesTyped, IInv
    <3> QED BY <2>1, <3>1
            DEF IInv, CacheTyped, PageTyped, List, ChosenKept, CacheCurrent
  <2>2. CASE Host # {}
    BY <1>2, <2>2, IInvStore
  <2> QED BY <2>1, <2>2
<1> QED BY <1>1, <1>2, IInvPages, IInvEdit, IInvRestart DEF Next

(* Whatever agents say, hosts fall silent, saves fail and the dashboard    *)
(* restarts, the store has what the user chose, and the file what the store*)
(* has if the last save worked (metrics_store.cpp 14-189).                 *)
THEOREM CacheAlwaysTrue == Spec => []CacheTrue
<1>1. Init /\ [][Next]_vars => []IInv
  BY IInvInit, IInvNext, PTL
<1>2. IInv => CacheTrue
  BY DEF IInv, ChosenKept, CacheCurrent, CacheTrue
<1> QED BY <1>1, <1>2, PTL DEF Spec
=============================================================================
