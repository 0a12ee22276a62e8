# Command Deck in TLA+

Command Deck is a rack dashboard: `control-pi`, an LVGL application on a
Raspberry Pi with a touch screen, and `metrics-agent`, a daemon on every host of
the rack.  Agents connect by WebSocket, report metrics and execute commands; the
dashboard also talks to a Synlink PDU by HTTP and sends Wake-on-LAN packets.  It
powers the rack up and down in dependency order, sheds load when the PDU's inlet
is over its budget, and shuts single hosts down gracefully.

This directory models what is hard to test about it.  Paths below are relative to
the repository (`src/` here); `PROJECT.json` maps each definition to its lines.

## 1. Inventory

Threads of `control-pi`: the **LVGL thread** (all pages and timers: refresh 2 s,
power 1 s, stale 5 s, history 60 s, the Graceful Off poll 2 s), the **WebSocket
thread** (`lws` callbacks), the **PDU thread** (a poll every 5 s) and, during an
update, a **worker thread**.  The stores are mutex-protected objects between
them.  An outlet command is an HTTP PUT made by the LVGL thread, which blocks
meanwhile: `set_outlet` makes one request, or three when it has no id for the
outlet, and each takes up to five seconds.  The agent has a main thread (collect,
enqueue) and a WebSocket thread.

| Component | State | Operations | What must hold |
|---|---|---|---|
| Power sequence planning (`power_sequence_engine.cpp` 7-122) | groups, `validation_error_` | constructor, `start_all`, `start_group`, `begin` | valid configurations exactly; dependency order; every member once |
| Power sequence engine (same file, 124-249) | `status_`, `current_`, `phase_`, two clocks, activity ids | `tick`, `begin` | steps in order, no command twice, readiness held, activities settled, always ends |
| Load shedding (`power_budget_controller.cpp`) | enabled, `critical_since_`, `shedding_`, `shed_groups_`, `pending_shed_group_` | `tick`, `set_enabled` | hold time, priority order, no confusion with the user's sequences |
| Host page (`ui/screen_host_detail.cpp`) | current host, `shutdown_state_`, poll timer, one-shot timers | show, hide, rebuild, Graceful Off, overrides, remove | only the asked host is cut, a request ends, page coherent |
| App shell (`ui/app_shell.cpp`) | pages, timers, active tab, screensaver, overlay | navigation, theme change, timers | no timer outlives its page |
| Host store (`metrics_store.cpp`) | entry, online, hello data, override, history, cache file | hello, metrics, offline, stale check, CRUD | online is what the last session said; cache survives a restart |
| PDU store and link (`pdu/`) | outlets, inlets, healthy | poll, PUT | shown state follows the outlet |
| Power page (`ui/screen_pdu.cpp`) | confirmation | START RACK, SHUT DOWN RACK, AUTO SHEDDING | what was confirmed is what is done |
| Router, server, activities (`command_router.cpp`, `ws_server.cpp`, `activity_store.cpp`) | sessions and their queues, list of activities | dispatch, send, result | every command is answered or shown as lost |
| Agent (`metrics-agent/src`) | outgoing queue, connection | collect, enqueue, flush, execute | hello first, commands once |
| Power history (`power/power_history_store.cpp`) | samples, minute rollups in SQLite | record, rollup and cleanup, chart | no sample deleted uncounted; rollups agree with samples |
| Updater (`update_manager.cpp`, `scripts/command-deck-update`, the service unit) | status, progress pipe, installed files, restarts asked for | start, run, each step of the script, restart | a verified version installed, never half, and a way back; what the screen says of it |
| Themes (`ui/theme_profile.cpp`, `ui/screen_settings.cpp`) | profile files, active id; list, working copy, dropdown | select, change, duplicate, delete, reload, apply | a restart shows the same theme; the page names what it edits |
| Lists and cards (`ui/screen_overview.cpp`, `ui/screen_hosts.cpp`, `ui/host_card_wide.cpp`) | what was last drawn | refresh | a silent host is not shown online for ever |

How they interact: the LVGL power timer calls `PowerBudgetController::tick`,
which calls `PowerSequenceEngine::tick`, which reads the host and PDU stores and
sends through the router; the Power tab starts sequences on the same engine; the
host page cuts outlets on its own, without the engine.  The WebSocket and PDU
threads write the stores whenever they like.

What is hard: everything that happens during a blocked PUT; hosts that flap, come
back or are removed in the middle of a step or request; two users of one engine;
one page object with timers for several hosts; and time limits against late
answers.  `PROJECT.json` lists the hazards at their lines, with the properties
that cover each.

## 2. The modules

| Module | Models |
|---|---|
| `PowerPlan` | validation, depth-first search and step list of the engine, call by call |
| `SequenceRun` | abstract: what a power sequence promises |
| `PowerSequence` | the engine, with hosts, PDU and blocked PUTs; implements `SequenceRun` |
| `PowerBudget` | load shedding, composed with `PowerSequence` and the buttons |
| `PowerProofs` | theorems about `PowerSequence` and `PowerBudget` |
| `GracefulOff` | Graceful Off, the page's life and the theme change |
| `CommandLife` | abstract: what whoever gives a command is promised |
| `CommandFlow` | commands, results, sessions, reconnection, the activity list; implements `CommandLife` |
| `PduLink` | polling thread, HTTP client, PDU store and Power page, on one PDU |
| `PowerHistory` | samples, rollups and retention, statement by statement |
| `HostStore` | hosts, their cache file, and the lists and pages that show them |
| `HostHistory` | the history ring of a host, its timer and its charts |
| `ThemeStore` | what reading and writing the theme files yields, as operators |
| `ThemeStudio` | the studio, the shell's change of theme, crashes and edits by hand |
| `DeckUpdate` | update manager, update script, service restarts, overlay and screensaver |
| `PlanProofs` | theorems about `PowerPlan` |
| `StoreProofs` | theorems about `HostStore` and `PduLink` |
| `HistoryProofs` | theorems about `PowerHistory` and `HostHistory` |
| `CommandFlowProofs`, `GracefulOffProofs`, `ThemeStudioProofs`, `DeckUpdateProofs` | theorems about these modules |
| `MC...` | constants for TLC |

`PowerBudget` composes shedding with the engine, `ThemeStudio` the page, the shell
and `ThemeStore`.  The power modules take what `HostStore` and `PduLink` look into
as given: a host is online or not, a poll may bring anything.  `PduLink` then says
that polls end up right, `HostStore` that silence ends up offline.

Definitions named *Mutant* in the modules are plausible bugs: each property is
known to fail when one of them replaces the definition it stands next to.

### PowerPlan

A behaviour is one configuration, the constructor, and one request.  The recursive
lambda `visit` is a stack of the calls under way with the names each loop has left:
`Visit` is a call up to its loop, `Finish` the lines after the loop, and below them
lies the loop that made the first call; the error ends the search where the code
returns false (`Searched`).  `Begin`, `ListGroup` and `Listed` are `begin`: its first
refusals, its loop over the groups and its last refusal; `OrderFor` is the
replacement `order = {group}` of a group shutdown.  That a sequence may be active
already is left to `PowerSequence`.  The reference the search is compared with
(`ClosureOf`, `WellFormed`) defines dependency as the least closed set and mentions
no search.  The constructor also refuses groups without a name, which `Config::load`
already leaves out; the configurations have some all the same.

### PowerSequence

`tick` is split into one action for each way through it.  `start_current` is part
of the action that finds the step Pending: the `...Now` operators are the values
after it.  The only point where a tick is not one step is the PUT: `BlockInPut`
stops there and `FinishPut` is the rest of that tick, and in between the other
threads go on, while no button or timer is handled.  The engine ignores whether
the PUT succeeded, and so does the model.  Removal of a host, starts and ticks
need the LVGL thread (`~putting`); connections and polls do not.

Time is whole seconds since the step began (`elapsed`) and since the host was
first seen ready (`ready`); they stop one past the timeout and at `Readiness`,
beyond which the code tells nothing apart.  PDU readings are the set of outlets
shown on, `healthy_`, and the level of the inlet against the two limits.  A poll
may bring any of these.  A tick otherwise reads the stores at one instant; the
code takes the locks one after another, so that a poll between two reads of one
tick is seen as a poll before or after it.

`issued` and `offlineAt` are history: commands sent in the running step, and
when a tick last saw its host offline.  The code has neither.

### PowerBudget

`EngineTick` is the first line of `tick`; `ShedTail` the rest, which runs on the
LVGL thread with nothing but the other two threads in between, also when the
engine's half blocked in a PUT.  The four `Tail...` actions are its early returns.
`std::sort` is not stable, so groups of equal priority may come in any order.
`ShedByPriority` also says that a group of `never_shed` is never shed.

### GracefulOff

There is one page object.  `ShowHost` rebuilds it only for another host; `Leave`
hides it and leaves its poll timer running; `SaveOverride` rebuilds it.  The
one-shot timers are a sequence of countdowns (`resets`), since the page does not
know of them.  After `RebuildUi` the timers point to a destroyed object; when one
of them fires, behaviour is undefined and the model stops (`undefined`).

### CommandFlow

`dispatch` is two steps, as in the code: `Dispatch` lists the command, then
`SendCommand` puts it into a session, `SendRefused` finds none, or
`DispatchLocal` carries an outlet or Wake-on-LAN command out on the spot.  The
server's callbacks are one action each.  The buttons ask that the host is shown
online before they dispatch (`Press`).  A session exists from ESTABLISHED to
CLOSED (`sessions`) and is known by its host after the hello (`greeted`).
`send_command` takes the first match of a map keyed by address: any match.

A connection is intact until `Break` or `AgentExit`; then what is written to it
is lost, and `AgentClosed` and `ServerClosed` come later and independently, the
latter perhaps never.  What was already received by the server's socket is still
read, also after the hello of the next connection.  `Established` is the attempt and
its success on both sides; one that ends in CONNECTION_ERROR leaves everything as it
was and is not a step.  What does not parse the agent drops without an answer: the
server sends nothing but commands it serialized, so `AgentReceive` has no such case.
`wsi`, `queue`,
`agentWants` and `woken` are the agent's `wsi_`, `queue_`, its request for a
writable callback and the cancelled wait of `enqueue` from the main thread.
Metrics carry no value and no age; a restart of the dashboard is not modelled.

`CommandLife` says what is left of this for whoever gives a command: `Give`, then
`End` (a local command), `Refuse` (the newest command only) or `CarryOut`, and `Tell`
perhaps never.  It has no sessions, queues or connections.  `CommandFlow` implements
it with `executed` for what was carried out and `Shown` for what is told: a command's
place in the activity list is given by its age, and one beyond its end is `Dropped`.

### PduLink

Two threads use one client.  The polling thread's cycle is three steps (GET of the
outlets, GET of the inlets, `PduUpdate`), so that a PUT or another tap can come
between any two; the tap is `Tap` (first lookup of the id), then, if there was none,
`GetOutletsForPut`, `GetInletsForPut` and `LookAgain`, and `PutArrives` and
`PutAnswered`.  The PDU answers
(`up`), answers with empty lists (`booting`) or does not answer (`down`); its inlets
give numbers, nothing, or something that makes the parser throw.  An empty outlet
list clears the ids, as `get_snapshot` does.  `since` is history: how many times
the store was updated since each outlet last changed.

### PowerHistory

A sample is its time, and a rollup the set of samples it was computed from, since
average, extremes and count are functions of that set.  `RollUp`, `TrimRaw` and
`TrimRollups` are the three statements of one pass, each its own transaction; the
process may stop between any two, and each may fail.  Results of SQLite are not
looked at by the code, so a failed `RollUp` is followed by the deletion all the same,
and is the exception in `SamplesCounted`; so is a raw retention shorter than a minute,
since the configuration takes any numbers.  `SamplesCounted` speaks of the time of
the deletion: a later pass may replace the rollup by one of what is left.  `cut` is
history, the end of what either retention has deleted.  `History` is the thinning for
the chart; the code's stride is a double and may take the point before the one the
model takes.

### HostStore

`hosts` has, of each entry, what a hello sets (`facts`), what the user sets
(`choice`), `online`, and whether the last message is older than the threshold
(`silent`).  `SaveCache` is part of every operation that saves; it works, fails to
open or rename (the old file stays), or runs into a full disk, which the code does
not notice, and leaves a file that is not JSON.  `rows` is what the list last drawn
shows (overview and fleet list do the same, and the one that is opened is drawn at
once); `page` is the open host page with the status its header shows.

### HostHistory

The part of an entry that `HostStore` leaves out, for one host: `entry` with its last
metrics and its `RingBuffer`, `lastRun` of the shell's history timer.  `TickHistory` is
`tick_history`, `Point(i)` what `update_charts` puts at point i.  A sample is one value.
`taken`, a history variable, has every sample of the entry.  The timer need not run
when it is due, since the loop may be late; a change of theme starts it anew; and a
sample that is 60 s old may count as 59, since the store reads another clock, and is
then left for the next minute.

### ThemeStore and ThemeStudio

A profile is its id and its style; the limits of `load_file` split styles into
those a control can make and those only an editor can (`WildStyle`).  Files are
truncated and written in place: `Saves` and `SetActives` give the disks that a
write that works, one whose file cannot be opened, one on a full disk (noticed or
not), and a crash leave.  Tables are written in alphabetical order, so a torn file may
have a style and no id, and is then read as Neon, or its id and part of its style.
`ApplyProfile` writes twice, first the page and then the shell, as the code does.
`intact` and `original` are history: nobody touched the files of the theme shown, and
the profile a working copy was made from by a DUPLICATE that could not save it.

### DeckUpdate

Each step of the script that changes files or may end it is an action; what it
prints goes into `pipe`, which the worker reads line by line.  Archive and checksum
are two downloads of whatever is the latest release then.  The script belongs to
the control group of the service, so a restart, asked for by an earlier update or
after a crash, ends it anywhere and may leave the file being written cut off
(`Stopped`).  `Installed` is the test the overlay makes.

## 3. The runs

| Run | Instance | Shows |
|---|---|---|
| `power_plan` | all configurations of up to two groups over the interesting names and of three groups with dependency lists of up to two names, including empty, repeated and unknown names, self loops and cycles; all requests | the search decides, orders and lists exactly what reachability defines |
| `power_sequence` | two hosts in two dependent groups and a group without hosts; one host with an outlet that may be reassigned to one the PDU lacks, one with a MAC and without outlet that may join and leave; timeouts 2 and 1, readiness 1 | five invariants, the readiness property and the refinement, with liveness |
| `power_budget` | four groups of different priority, one never shed, one without hosts; hold time 1 | what the controller believes about the engine, order and timing of shedding |
| `graceful_off` | two hosts, each with an outlet; limits 1 and 2; at most 2 reset timers and 1 theme change | only the host asked for is cut; requests end, and in which ways |
| `command_flow` | three commands, two connections, an activity list of two, one queued metrics message, sockets that take one message | order, answers, wake-ups; the path of a command implements `CommandLife`; recovery of a host and answers to commands on a connection that holds |
| `pdu_link` | two outlets, one with an id; two taps; two changes of the PDU, its link or restarts | a reading older than a switch is stored at most once after it; the page settles on the truth or on "disconnected" |
| `power_history` | minute of 2, raw retention 3, rollup retention 5, two points, clock to 9, one failed statement, be it the rollup or a deletion; and a host's ring of three, with a clock of twelve half minutes | rollups exact while retention allows, samples counted before they go, the power chart ordered; a host's chart shows its last samples in order, also after the ring has wrapped |
| `host_store` | two hosts, two values each of what agent and user set, one failed save | the user's settings survive everything; silence ends up offline on every page |
| `theme_studio` | two presets and one copy, two styles and a wild one, one failed or torn write, one edit by hand | a restart shows the same theme; controls and dropdown agree with the working copy, or with what it was made from after a DUPLICATE that failed |
| `deck_update` | four releases, one lacking libraries, one not for this deck; two updates, two faults | what may be installed and told, what an update keeps before it replaces the binary, an end of every update |
| `graceful_cut_online` | as `graceful_off` | finding 1 |
| `theme_dangling` | as `graceful_off` | finding 2 |

Bounds.  `MaxIds` caps the activity ids at the start of a sequence, that is the
number of sequences in one behaviour: two, so that one starts from whatever the
first left, which is all the engine keeps.  Clocks saturate (above), so timeouts
of one or two seconds meet every order of timeout, readiness and answer.  Two
hosts suffice because the engine works on one at a time and looks at one other
property of the rest: that their steps are done.  Three groups give every shape of
dependency: chains, forks, joins, cycles of length one to three.  In
`graceful_off`, two resets are as many as two hosts can have pending in three
seconds.  In `command_flow`, the third command overflows the list of two; two
connections give a stale session beside a live one, and the last connection
does not break, which is what the liveness properties need.  `MaxBacklog` and
`MaxFlight` bound queues the code does not bound (the agent's) or leaves to TCP:
with one of each, metrics, hello and results already queue behind each other.
In `pdu_link` two outlets give one that is switched beside one that is not, with
and without an id, and two changes an outage with its end, or a switch by hand
within it.  In `power_history` nine seconds are four minutes, enough for a minute to
be rolled up half, completed, partly deleted and forgotten; retention is longer
than a minute, as in any configuration of use, and the proofs take the others.
Twelve half minutes fill the ring of three twice and let a late sample fall between
the others.  The two histories
share nothing, not even a clock: `MCHistories` explores each with the other at rest.
In `theme_studio` one fault
and one edit meet every operation; a second copy would only be another id.  In
`deck_update` the second update runs with the restart of the first still to come.
`CHECK_DEADLOCK FALSE` is stated where a model may come to rest: a plan
after its request, an idle rack, a page after undefined behaviour, the end of the
clock.

Fairness.  LVGL keeps calling its timers (weak fairness of ticks and polls), time
passes, and libcurl gives each of the requests of a PUT up after five seconds
(`CURLOPT_TIMEOUT`).  Nothing
is assumed of hosts, agents, network, PDU or user, so liveness of the power
modules rests on the timeouts alone.  In `CommandFlow` both libwebsockets loops
run, and a command under dispatch is sent; that a server ever notices a
vanished peer is not assumed.  In `PduLink` the polling thread, the HTTP requests
and the refresh go on; in `HostStore` the stale check and
the refresh, and nothing of an agent; in `DeckUpdate` the worker and the local
steps of the script, but not its downloads: `curl` is called without a time limit,
and `UpdateEnds` starts behind them.  `PowerHistory`, `HostHistory` and `ThemeStudio`
have safety properties only.

### Findings

1. `CutWhileOffline`.  In `WaitingOutlet`, `poll_graceful_shutdown` does not look
   at `online` again (`screen_host_detail.cpp` 986): a host that came back, after a
   reboot or a lost connection, is cut while it runs.  The README says the page
   "waits for it to go offline, then cuts".
2. `NoDanglingCall`.  `rebuild_ui` (`app_shell.cpp` 733) destroys the page with its
   timers still registered.

Met while modelling and not stated as a finding, by part:

- Host page.  The one-shot timer (`screen_host_detail.cpp` 999-1003) resets whatever
  request the page has three seconds after an earlier one was done: cut one host, open
  another, press Graceful Off, and that request is dropped, though the README gives it
  two minutes.  `RequestEnds` has to list this among the ways a request may end.
  `rebuild` forgets a running request silently.  The page is not rebuilt
  when it is opened again for the same host, so the name, MAC and services it shows
  may be old.
- Engine and shedding.  `RefuseEmpty` clears the status of the last sequence; a group
  without hosts at the head of the priorities is refused on every tick and no group
  after it is ever shed.
- Commands.  A command in a session whose connection breaks is lost with it
  (`ws_server.cpp` 80) and its activity stays Pending, though the README says commands
  are "tracked from dispatch through completion".  The hello of a reconnection is
  queued behind the metrics that piled up (`ws_client.cpp` 63), against the comment in
  `metrics-agent/src/main.cpp` 50; until it arrives the host is shown online and
  cannot be sent commands.
- PDU.  The tap reads the store, not the tile: after the next poll, and before the
  next refresh, a second tap reverses the first.  An answer with an empty list
  clears all ids.
- History.  A rollup older than raw retention shrinks to the last samples that
  retention has left of its minute, until they are gone.  The chart has no gaps where
  there are no minutes, though `screen_pdu.cpp` 132 says "Missing polls are retained
  as data gaps".
- Host store.  A full disk is not noticed while saving; a removed host that still
  sends metrics comes back without its hello.  `tick_history` asks for 60 s since the
  last sample on a 60 s timer and may so skip a minute; between the hello of a new entry
  and its first metrics it takes a sample of zeros.  It skips a host that is offline and
  the chart draws the samples side by side, so that the "24h history" (README 150)
  reaches back as much further as the host was offline.
- Themes.  A torn profile is read as Neon and masks it.  DELETE leaves `.active`
  naming a profile that is gone; a later DUPLICATE that takes that id becomes
  active.  DUPLICATE overwrites an existing copy, and when it fails the working copy
  keeps the new id.  DELETE does not fill the title fields anew, and the next key
  typed in one writes the deleted profile's text into the working copy.
- Update.  If the restart never comes the overlay stays for good; if only
  `systemd-run` fails, the screen says Failed with the new version installed.  A second
  update may be ended by the first one's restart with the new library and the old
  binary in place.  `command-deck.previous` is written in place (`command-deck-update` 76): a second
  update that is stopped there leaves it cut off, and the binary the first one had
  kept is gone, though the README says it is retained.  `RollbackKept` therefore
  speaks of updates that replace the binary.  `ldd | grep -q` under `pipefail` (62, 71)
  may hide a missing library, so that a release without its libraries is installed,
  though the README says its linkage is verified; `InstalledAsTold` says only that
  what is installed are regular files for ARM64.  `StartLimit...` is written in
  `[Service]`, where systemd ignores it.

What no property covers, because the repository does not say what should happen: the
acknowledgement that is lost when a host reboots, the rollup that shrinks with
retention, the theme that is lost when the power goes between the two writes of
APPLY, the second tap above, and the list of shed groups, which is never cleared.
`PROJECT.json` says so at these hazards.

## 4. The proofs

TLAPS checks the theorems below for every value of the constants.  They state every
safety property the runs check, except the second half of `RequestEnds`.

### Planning

`PlanProofs` proves, for any configurations, however many groups and however deep their
dependencies:

| Theorem | Statement |
|---|---|
| `ValidationAlwaysExact` | `Spec => []ValidationIsExact` |
| `AlwaysAcceptedExactly` | `Spec => []AcceptedExactly` |
| `StepsAlwaysTheMembers` | `Spec => []StepsAreTheMembers` |
| `AlwaysDependencyOrdered` | `Spec => []DependencyOrdered` |

Assumption: `ConfigsAssumption` (types, and that no caller asks for a group by the empty
name).

None of the four speaks of the search while it runs, so the invariant has to.
`Calls`: the calls on the stack are the names marked 1, and each later one is in the
dependency closure of each earlier one; meeting a mark of 1 is therefore a cycle and
never only a detour.  `Loops`: of what a loop goes through, each name is still to be
visited, finished, or the very next call on the stack.  `Ordered`: the order has the
finished names, each once and after its dependencies.  `Reached`: the search stays
inside the closure of what it started from.  When the first loop has nothing left, the
order therefore has everything asked for, and every beginning of it is closed under
dependencies (`PrefixClosed`): the closure of what a group needs, the least closed set,
lies before the group (`NeededBefore`), which is both that there is no cycle
(`AllFoundWellFormed`) and that the order is right.  `Listing` does for `begin` what
`Ordered` does for the search: the steps listed so far come group by group
(`WantedListed`, `ListGroupStep`).  That `by_name` and `find_if` find anything needs a
greatest and a least index (`Greatest`, `Least`).

### The engine and load shedding

`PowerProofs` proves, for any hosts, groups, plans, timeouts, readiness
and outlets, every safety property of the runs `power_sequence` and `power_budget`:

| Theorem | Statement |
|---|---|
| `TypeCorrect` | `Spec => []TypeOK` |
| `StatusAlwaysConsistent` | `Spec => []StatusConsistent` |
| `ActivitiesAlwaysSettle` | `Spec => []ActivitiesSettle` |
| `DependenciesAlwaysFirst` | `Spec => []DependenciesFirst` |
| `CommandsSentOnce` | `Spec => []CommandsOnce` |
| `ReadinessAlwaysHeld` | `Spec => ReadinessHeld` |
| `RunsSafely` | `Spec => Run!Init /\ [][Run!Next]_(Run!vars)` |
| `EngineUndisturbed` | `BudgetSpec => Spec` |
| `PendingAlwaysRunning` | `BudgetSpec => []PendingIsRunning` |
| `AlwaysShedByPriority` | `BudgetSpec => []ShedByPriority` |
| `ShedAlwaysMeansDown` | `BudgetSpec => ShedMeansDown` |
| `HoldAlwaysKept` | `BudgetSpec => HoldKept` |

Assumptions: `PlanAssumption` (plans are lists of steps that respect the
dependency relation), `ConfigAssumption` (types of the other constants) and
`BudgetAssumption` (types, and that the plan of a group's shutdown has steps of that
group only).  What they say of plans is what `PlanProofs` proves of `PowerPlan`:
`AlwaysDependencyOrdered` and `StepsAlwaysTheMembers`.

The argument for the engine.  `TickShape` shows that a tick ends in one of three
places: it succeeds the step, fails it, or leaves it Running.  Most of the invariant
is then kept three times over instead of once for each action.  The invariant `IInv`
adds to the checked properties what they need to be inductive: the two activity ids
differ (`IdsApart`, or closing one would close the other); the steps are those of
some plan for the present direction (`StepsPlanned`, from which dependency order
follows by `StatusConsistent`); in each phase only the commands of earlier phases
have been sent (`CommandPhases`), which a second command would contradict; clocks
are at rest between sequences (`AtRest`); and `ready` never reaches back before
`offlineAt` (`ReadySinceSeen`), which gives `ReadinessHeld`.

The argument for shedding.  `EngineUndisturbed` comes first: every step of the
composition is a step of the engine or leaves it alone, since all the controller
can do to it is a `start_group` that a user could have asked for (`ShedStarts`).  So
`IInv` holds beside the controller, and `BudgetInv` only has to say what the
controller believes.  `PendingIsRunning` is not inductive, because it does not speak
of the inside of a tick, where the engine may have ended and the controller has not
looked yet; `PendingSteps` does.  `PrioritySoFar` adds to `ShedByPriority` that the
pending group comes right after the shed ones, and `HeldSinceCalm` bounds
`critical_since_` by the last calm measurement, which no property mentions.

### The other components

| Module | Theorem | Statement | Assumption |
|---|---|---|---|
| `CommandFlowProofs` | `AlwaysTyped` | `Spec => []TypeOK` | `FlowAssumption`: every bound is positive |
| | `AlwaysExecutedInOrder` | `Spec => []ExecutedInOrder` | the same |
| | `AnswersAlwaysTrue` | `Spec => []AnswersTrue` | the same |
| | `AnswersAlwaysStay` | `Spec => AnswersStay` | the same |
| | `AlwaysImplementsLife` | `Spec => ImplementsLife` | the same |
| | `NothingEverForgotten` | `Spec => []NothingForgotten` | the same |
| `GracefulOffProofs` | `AlwaysTyped` | `Spec => []TypeOK` | `GracefulAssumption`: types, and that "no host" is no host |
| | `PageAlwaysCoherent` | `Spec => []PageCoherent` | the same |
| | `AlwaysCutOnlyAsked` | `Spec => CutOnlyAsked` | the same |
| `ThemeStudioProofs` | `AlwaysTyped` | `Spec => []TypeOK` | `ThemeAssumption`, `StudioAssumption`: types, and that "no file" is not a profile |
| | `RestartAlwaysKeepsTheme` | `Spec => []RestartKeepsTheme` | the same |
| | `DropdownAlwaysNamesProfile` | `Spec => []DropdownNamesProfile` | the same |
| `HistoryProofs` | `SamplesAlwaysCounted` | `Spec => SamplesCounted` | `HistoryAssumption`: the length of a minute and the number of points are positive, the retentions any integers |
| | `HistoryAlwaysFaithful` | `Spec => []HistoryFaithful` | the same |
| | `ChartAlwaysTrue` | `RingSpec => []ChartTrue` | `RingAssumption`: the ring has a place |
| `StoreProofs` | `AlwaysStaleAtMostOnce` | `LinkSpec => []StaleAtMostOnce` | none of `LinkAssumption` is needed |
| | `CacheAlwaysTrue` | `Spec => []CacheTrue` | `StoreAssumption`: a file of settings is not the broken file |
| `DeckUpdateProofs` | `InstalledAlwaysAsTold` | `Spec => []InstalledAsTold` | `UpdateAssumption`: a damaged archive is no release; the first release fits |
| | `RollbackAlwaysKept` | `Spec => RollbackKept` | the same |

- `CommandFlow`.  One invariant, `FlowInv`.  `OneLine`: only the connection the agent is
  on carries anything to it, so a stale session can hold commands but never deliver
  them.  `SentEarlier`: what was sent was dispatched before.  `LineOrder`: along the
  agent's connection, what was executed, is on its way and waits is increasing;
  `ExecutedInOrder` is its first part, and would not survive a step alone.
  `ResultsTrue`: a result under way says what the agent did, even one of a connection
  that is gone.  `AllTold`: what the activity list says is one of these results, or
  Failed of a command that was never sent; it speaks of everything sent, where
  `AnswersTrue` speaks of what is under way, because a command lost with its session
  must not come to life again.  `AnswersStay` then needs that a command has one
  verdict only (`OneVerdict`, from `ExecutedInOrder`).  `NothingForgotten` is inductive
  as it stands, one half for each side (`AgentAsks`, `SessionsAsk`).  The refinement adds
  `NewestFirst` (the list holds the newest commands and no gap), so that `Shown` finds
  each; then `Press` is `Give`, what `Completed` does is `End`, `Refuse` or `Tell` or
  leaves what is shown as it was (`OutcomeStep`; a result for a dropped command, for
  one), and the agent's receive is `CarryOut`, which `LineOrder` and `AllTold` allow.
  `AnswersStay` is a consequence; it is stated in the proof module and not run.
- `GracefulOff`.  `PageCoherent` is inductive.  `CutInv` has what the page knows of its
  request: it is for the host shown, unless that was removed, and the outlet is only
  waited for after the host was seen offline.
- `ThemeStudio`.  `ThemeKept`: the theme shown is what the active profile's own file or
  preset says, without the other files (`ShownBy`).  `CleanActives` shows that this is
  what a restart makes of the directory, when every file is named after its profile.
  `SavesShape` and `SetActivesShape` say what a write leaves, torn or whole.
  `DropdownAlwaysNamesProfile` is about the dropdown in two cases: it names the working
  copy if the list has it, and after a DUPLICATE that failed the profile the copy was
  made from (`Named`).  With the types the property is inductive.
- `HistoryAlwaysFaithful`: `Clocks`, passes and rollups are not ahead of the clock, and
  of what was recorded everything since the last cutoff is still there to be counted.
  The chart's list is in order because there is an enumeration in order of every finite
  set of minutes (`SortExists`, by induction on its size), so the one `InOrder` chooses
  for the `ORDER BY` of the query is one.  Induction itself is derived from the
  well-foundedness of `<` in the library (`Least`, `Induction`).  What `Thinned` takes
  stays in order, none twice (`ThinnedInOrder`): strides longer than one place never meet
  a point twice (`Strides`) and end inside (`StrideInside`).
- `SamplesAlwaysCounted`: `PassCounted`, between the rollup and the deletion of one
  pass all samples older than a minute are in the rollup of their minute.  The deletion
  takes the cutoff from the same time, and the property asks for a retention that is
  not shorter than a minute.
- `ChartAlwaysTrue`: `Holds`, for every j the j-th youngest sample is j places before
  the head, modulo the length; `BeforeNext` says what that is after the head has moved
  on, and `PushHolds` that `Push` keeps it.  What is drawn follows by arithmetic
  (`ChartOfRing`).
- `AlwaysStaleAtMostOnce`: `PollCurrent`, once the store has been updated since an
  outlet last changed, the reading the polling thread holds was made after that change,
  since the thread reads only after it has stored; the next update stores that reading.
- `CacheAlwaysTrue`: `ChosenKept` (the store has what the user chose) and
  `CacheCurrent` (after a save that worked, the file says of every host what the store
  says of it).  Restarting reads one from the other, so each needs the other.
- `InstalledAlwaysAsTold` and `RollbackAlwaysKept` share one invariant:
  `ArchiveChecked` (what the script has established of the archive at each
  statement), `KeptBeforeMove` (when the binary is about to be replaced, the
  previous one is that binary), `ToldWhenPlaced` (100 percent is on its way from the
  script to the screen only once the binary is in place) and `ScriptOfUpdate` (a
  script, and lines in its pipe, only while an update runs).

### Only model-checked

Liveness, which rests on fairness and ENABLED: `ShedSettles`, `RequestEnds`,
`Reachable`, `AnsweredWhileUp`, `PageSettles`, `UpdateEnds`, `SilentGoesOffline` and the
fairness half of `ImplementsRun`.

## 5. Plan

Next: the confirmation overlays and the toast, as the users of the shell's timers.

### Not modelled

- LVGL layout and styles (`ui/styles.cpp`, the `build_...` functions), values, bars and
  colours of the cards: drawn anew from a snapshot, without state of their own.
- The activity toast, the clock and the alert badge: drawn from snapshots as well, and
  read by nothing.
- The collectors of the agent and the programs its commands start: their results
  carry values only; `Answers` has every outcome.
- TOML and JSON conversion, the Wake-on-LAN packet, `DECK_THEME` and theme export: pure
  input and output.
- Build, packaging and setup scripts, the emulator's mock data: no behaviour of the
  running program.
