----------------------------- MODULE HostStore -----------------------------
(***************************************************************************)
(* The hosts the dashboard knows (metrics_store.cpp), the cache file that  *)
(* keeps them over a restart, and the pages that show them: the lists of   *)
(* the overview and of the fleet tab, and the header and editing rows of a *)
(* host page.                                                              *)
(*                                                                         *)
(* The WebSocket thread reports hellos, metrics and lost connections, the  *)
(* LVGL thread ticks, edits and draws; each call holds the lock of the     *)
(* store, also while it writes the file.                                   *)
(***************************************************************************)
EXTENDS Integers

CONSTANTS
  Host,
  Facts,      \* what a hello says: architecture, system, outlet
  Choice,     \* what the user sets: name, MAC, outlet override
  Broken,     \* a file that is not JSON
  NoFacts, NoChoice,  \* before a hello, before the user sets anything
  MaxFaults   \* bound on saves that fail

ASSUME StoreAssumption ==
  /\ NoFacts \in Facts /\ NoChoice \in Choice /\ MaxFaults \in Nat
  /\ \A known \in SUBSET Host : Broken \notin [known -> [facts : Facts, choice : Choice]]

VARIABLES
  \* hosts_: settings, online, and whether last_seen is more than the
  \* threshold ago
  hosts,
  \* the cache file: settings by host, or not JSON
  cache,
  \* what the lists show; the host page, if it is open, and its status
  rows, page,
  faults,
  \* history: what the user last chose; the last save worked
  chosen, saved

vars == <<hosts, cache, rows, page, faults, chosen, saved>>

Settings == [facts : Facts, choice : Choice]
Default == [facts |-> NoFacts, choice |-> NoChoice]

\* enter_detail_mode: the header of a host page, which keeps the status as it
\* is drawn.  exit_detail_mode: no host page.
DetailOf(h, online) == [host |-> h, online |-> online]
List == [host |-> "", online |-> FALSE]

Init ==
  /\ hosts = <<>> /\ cache = <<>>
  /\ rows = [h \in Host |-> "none"] /\ page = List
  /\ faults = 0
  /\ chosen = [h \in Host |-> NoChoice] /\ saved = TRUE

-----------------------------------------------------------------------------
(* The store.                                                              *)

Put(h, entry) == [k \in DOMAIN hosts \cup {h} |-> IF k = h THEN entry ELSE hosts[k]]

\* hosts_[h] makes an entry where there is none.
EntryFor(h) ==
  IF h \in DOMAIN hosts THEN hosts[h]
  ELSE [settings |-> Default, online |-> FALSE, silent |-> FALSE]

\* save_cache, after hosts has its new value: a temporary file is written and
\* renamed over the old one.  It may not be possible to open or rename it; a
\* full disk is not noticed, and a truncated file takes the old one's place.
SaveCache ==
  \/ /\ cache' = [h \in DOMAIN hosts' |-> hosts'[h].settings]
     /\ saved' = TRUE /\ UNCHANGED faults
  \/ /\ faults < MaxFaults /\ faults' = faults + 1
     /\ cache' \in {cache, Broken}
     /\ saved' = FALSE

DontSave == UNCHANGED <<cache, saved, faults>>

\* Mutant: a hello replaces the entry.
UpdateHelloFresh(h, facts) ==
  /\ hosts' = Put(h, [settings |-> [Default EXCEPT !.facts = facts],
                      online |-> TRUE, silent |-> FALSE])
  /\ SaveCache
  /\ UNCHANGED <<rows, page, chosen>>

\* update_hello
UpdateHello(h, facts) ==
  /\ hosts' = Put(h, [EntryFor(h) EXCEPT !.settings.facts = facts,
                                         !.online = TRUE, !.silent = FALSE])
  /\ SaveCache
  /\ UNCHANGED <<rows, page, chosen>>

\* update_metrics: also of a host that has not said hello, or was removed.
UpdateMetrics(h) ==
  /\ hosts' = Put(h, [EntryFor(h) EXCEPT !.online = TRUE, !.silent = FALSE])
  /\ DontSave
  /\ UNCHANGED <<rows, page, chosen>>

\* mark_offline
MarkOffline(h) ==
  /\ h \in DOMAIN hosts
  /\ hosts' = [hosts EXCEPT ![h].online = FALSE]
  /\ SaveCache
  /\ UNCHANGED <<rows, page, chosen>>

\* Nothing was heard of a host for more than threshold_s.
FallsSilent(h) ==
  /\ h \in DOMAIN hosts /\ ~hosts[h].silent
  /\ hosts' = [hosts EXCEPT ![h].silent = TRUE]
  /\ DontSave
  /\ UNCHANGED <<rows, page, chosen>>

\* Mutant: a host is given up once no longer silent.
TickOnlineStatusReversed ==
  /\ hosts' = [h \in DOMAIN hosts |->
                 IF hosts[h].silent THEN hosts[h] ELSE [hosts[h] EXCEPT !.online = FALSE]]
  /\ DontSave
  /\ UNCHANGED <<rows, page, chosen>>

\* tick_online_status, every 5 s.
TickOnlineStatus ==
  /\ hosts' = [h \in DOMAIN hosts |->
                 IF hosts[h].silent THEN [hosts[h] EXCEPT !.online = FALSE] ELSE hosts[h]]
  /\ DontSave
  /\ UNCHANGED <<rows, page, chosen>>

\* load_cache, in a process that starts: a file that does not parse loads
\* nothing, and the next save replaces it.
Restart ==
  /\ hosts' = [h \in (IF cache = Broken THEN {} ELSE DOMAIN cache) |->
                 [settings |-> cache[h], online |-> FALSE, silent |-> TRUE]]
  /\ chosen' = IF saved THEN chosen
               ELSE [h \in Host |-> IF h \in DOMAIN hosts' THEN hosts'[h].settings.choice
                                    ELSE NoChoice]
  /\ rows' = [h \in Host |-> "none"] /\ page' = List
  /\ DontSave

-----------------------------------------------------------------------------
(* The pages.                                                              *)

\* HostCardWide::populate: the status a card's strip gives to a host; how hot
\* and loaded an online one is, is left out.
StatusOf(entry) == IF entry.online THEN "online" ELSE "offline"

\* ScreenHosts::refresh: cards of hosts that are gone are deleted, missing
\* ones are made, all are filled in.  The overview does so with its rows.
Rows(entries) ==
  [h \in Host |-> IF h \in DOMAIN entries THEN StatusOf(entries[h]) ELSE "none"]

\* refresh of the shell: only the page that is open is drawn.
Refresh ==
  /\ IF page = List
     THEN rows' = Rows(hosts) /\ UNCHANGED page
     ELSE /\ page' = IF page.host \in DOMAIN hosts
                     THEN DetailOf(page.host, hosts[page.host].online) ELSE page
          /\ UNCHANGED rows
  /\ DontSave
  /\ UNCHANGED <<hosts, chosen>>

\* show_host_detail, from a row.
ShowHostDetail(h) ==
  /\ page = List /\ rows[h] # "none"
  /\ page' = DetailOf(h, h \in DOMAIN hosts /\ hosts[h].online)
  /\ DontSave
  /\ UNCHANGED <<hosts, rows, chosen>>

\* show_tab, from pop_host_detail or a tab: the page is hidden and the list
\* drawn at once.
PopHostDetail ==
  /\ page # List
  /\ page' = List /\ rows' = Rows(hosts)
  /\ DontSave
  /\ UNCHANGED <<hosts, chosen>>

\* Mutant: only hellos and lost connections save.
SetChoiceUnsaved(h, c) ==
  /\ h \in DOMAIN hosts
  /\ hosts' = [hosts EXCEPT ![h].settings.choice = c]
  /\ DontSave

\* set_display_name, set_mac, set_pdu_outlet_override.
SetChoice(h, c) ==
  /\ h \in DOMAIN hosts
  /\ hosts' = [hosts EXCEPT ![h].settings.choice = c]
  /\ SaveCache

\* save_display_name, save_mac, on_pdu_save and on_pdu_clear, for the host of
\* the page.
Edit(c) ==
  /\ page # List
  /\ SetChoice(page.host, c)
  /\ chosen' = [chosen EXCEPT ![page.host] = c]
  /\ UNCHANGED <<rows, page>>

\* on_remove_confirm, with remove_host and the way back.
RemoveHost ==
  /\ page # List
  /\ hosts' = [h \in DOMAIN hosts \ {page.host} |-> hosts[h]]
  /\ SaveCache
  /\ chosen' = [chosen EXCEPT ![page.host] = NoChoice]
  /\ page' = List /\ rows' = Rows(hosts')

Next ==
  \/ \E h \in Host : \/ \E f \in Facts : UpdateHello(h, f)
                     \/ UpdateMetrics(h) \/ MarkOffline(h)
                     \/ FallsSilent(h) \/ ShowHostDetail(h)
  \/ TickOnlineStatus \/ Refresh \/ PopHostDetail \/ RemoveHost \/ Restart
  \/ \E c \in Choice : Edit(c)

\* LVGL's timers.
Spec == Init /\ [][Next]_vars /\ WF_vars(TickOnlineStatus) /\ WF_vars(Refresh)

-----------------------------------------------------------------------------
Known(h) == IF h \in DOMAIN hosts THEN hosts[h].settings ELSE Default
Cached(h) == IF h \in DOMAIN cache THEN cache[h] ELSE Default

(* What the user chose for a host is what the store has, whatever the      *)
(* agent says or does not say, also after restarts; and a restart would    *)
(* find it: the file holds the settings of all hosts but those that have   *)
(* none, and no removed host.  Unless the last save failed                 *)
(* (metrics_store.cpp 24, 169).                                            *)
CacheTrue ==
  /\ \A h \in Host : Known(h).choice = chosen[h]
  /\ saved => /\ cache # Broken /\ DOMAIN cache \subseteq DOMAIN hosts
              /\ \A h \in Host : Cached(h) = Known(h)

(* A host that stays silent is not shown online for ever, neither in the   *)
(* lists nor on its own page, though no connection was seen to break       *)
(* (metrics_store.cpp 45, app_shell.cpp 620).                              *)
Shown(h) == IF page = List THEN rows[h]
            ELSE IF page.host = h /\ page.online THEN "online" ELSE "offline"
Silent(h) == h \in DOMAIN hosts => hosts[h].silent
SilentGoesOffline ==
  \A h \in Host : <>[]Silent(h) => <>[](Shown(h) # "online")
=============================================================================
