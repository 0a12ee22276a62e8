----------------------------- MODULE DeckUpdate -----------------------------
(***************************************************************************)
(* The update of the dashboard: the button on the System tab, the manager  *)
(* and its worker thread (update_manager.cpp), the script they run as root *)
(* (scripts/command-deck-update), and the overlay and the screensaver of   *)
(* the shell (ui/app_shell.cpp).                                           *)
(*                                                                         *)
(* The script prints its progress into a pipe that the worker reads line   *)
(* by line.  It fetches the archive and its checksum one after the other   *)
(* from the latest release, which may change in between, checks them,      *)
(* replaces library and binary, and asks systemd to restart the service in *)
(* three seconds.  The script belongs to the service: a restart, whether   *)
(* asked for or after a crash, stops it wherever it is.                    *)
(***************************************************************************)
EXTENDS Integers, Sequences

CONSTANTS
  Release,
  Fit,        \* those that hold regular files for ARM64
  Complete,   \* those whose libraries the deck has
  First,      \* the release that is installed
  Damaged,    \* an archive that fits no checksum
  Cut,        \* a file that was not written to its end
  None,
  MaxUpdates, \* bound on updates started
  MaxFaults   \* bound on what fails, and on crashes

ASSUME UpdateAssumption ==
  /\ Fit \subseteq Release /\ Complete \subseteq Release /\ First \in Fit
  /\ Damaged \notin Release /\ None \notin Release
  /\ {MaxUpdates, MaxFaults} \subseteq Nat

VARIABLES
  published,                  \* the latest release
  binary, library, previous,  \* /usr/local/bin and /usr/local/lib
  script,                     \* the script: its next step, what it fetched
  pipe,                       \* progress not yet read
  status,                     \* UpdateManager::status_
  due,                        \* restarts systemd has been asked for
  overlay, saver,             \* AppShell: update_overlay_, screensaver_ shown
  updates, faults,
  placed  \* history: this update has moved its binary into place

files == <<binary, library, previous>>
shell == <<overlay, saver>>
vars == <<published, files, script, pipe, status, due, shell, updates, faults, placed>>

NotRunning == [at |-> "none", archive |-> None, sum |-> None]
Status(state, progress) == [state |-> state, progress |-> progress]

Init ==
  /\ published \in Release
  /\ binary = First /\ library = First /\ previous = None
  /\ script = NotRunning /\ pipe = <<>>
  /\ status = Status("Idle", 0)
  /\ due = 0
  /\ overlay = FALSE /\ saver = FALSE
  /\ updates = 0 /\ faults = 0 /\ placed = FALSE

Fault == faults < MaxFaults /\ faults' = faults + 1

\* The latest release changes.
Publish(r) ==
  /\ r # published /\ published' = r
  /\ UNCHANGED <<files, script, pipe, status, due, shell, updates, faults, placed>>

-----------------------------------------------------------------------------
(* UpdateManager.                                                          *)

\* The button, and start: another update must have ended.
StartUpdate ==
  /\ ~overlay /\ ~saver
  /\ updates < MaxUpdates /\ updates' = updates + 1
  /\ status.state # "Running"
  /\ status' = Status("Running", 0)
  /\ placed' = FALSE
  /\ UNCHANGED <<published, files, script, pipe, due, shell, faults>>

Worker == status.state = "Running"
          /\ UNCHANGED <<published, files, due, shell, updates, placed>>

\* run, to the fork of the script; its checks come before the download.
RunScript ==
  /\ Worker
  /\ status.progress = 0 /\ script = NotRunning
  /\ \/ /\ script' = [NotRunning EXCEPT !.at = "archive"]
        /\ pipe' = <<10>>
        /\ UNCHANGED <<status, faults>>
     \/ Fault /\ status' = Status("Failed", 0) /\ UNCHANGED <<script, pipe>>

\* A PROGRESS line.
ReadLine ==
  /\ Worker
  /\ pipe # <<>>
  /\ status' = Status("Running", Head(pipe)) /\ pipe' = Tail(pipe)
  /\ UNCHANGED <<script, faults>>

\* Mutant: only an exit with 0 is collected.
CollectSuccess ==
  /\ Worker
  /\ pipe = <<>> /\ script.at = "done"
  /\ script' = NotRunning
  /\ status' = Status("Succeeded", 100)
  /\ UNCHANGED <<pipe, faults>>

\* The pipe is closed; waitpid.
Collect ==
  /\ Worker
  /\ pipe = <<>> /\ script.at \in {"done", "failed"}
  /\ script' = NotRunning
  /\ \/ /\ status' = IF script.at = "done" THEN Status("Succeeded", 100)
                     ELSE [status EXCEPT !.state = "Failed"]
        /\ UNCHANGED faults
     \/ Fault /\ status' = Status("Failed", 0)
  /\ UNCHANGED pipe

-----------------------------------------------------------------------------
(* The script.  Each step prints the line that follows it.                 *)

Step(from, to) == script.at = from /\ script' = [script EXCEPT !.at = to]
Says(line) == pipe' = Append(pipe, line)
Silent == UNCHANGED pipe
ScriptOnly == UNCHANGED <<published, status, shell, updates>>
NoFile == UNCHANGED <<files, placed, due>>

\* The next step, or the script ends with an error.
Check(passes, from, to, line) ==
  /\ IF passes THEN Step(from, to) /\ Says(line) ELSE Step(from, "failed") /\ Silent
  /\ NoFile /\ ScriptOnly /\ UNCHANGED faults

\* curl of the archive, which may come damaged; and of its checksum.
FetchArchive ==
  /\ script.at = "archive"
  /\ \E a \in {published, Damaged} :
       /\ script' = [script EXCEPT !.at = "checksum", !.archive = a]
       /\ IF a = Damaged THEN Fault ELSE UNCHANGED faults
  /\ Silent /\ NoFile /\ ScriptOnly

FetchChecksum ==
  /\ script.at = "checksum"
  /\ script' = [script EXCEPT !.at = "verify", !.sum = published]
  /\ Says(45) /\ NoFile /\ ScriptOnly /\ UNCHANGED faults

\* Mutant: any checksum of the right form will do.
VerifyFormOnly == Check(script.sum \in Release, "verify", "validate", 60)

\* sha256sum --check
Verify == Check(script.archive = script.sum, "verify", "validate", 60)

\* The list of files, file and ldd.  If ldd finds a library missing and is
\* stopped by the grep that has seen enough, pipefail hides it.
Validate ==
  \E hidden \in BOOLEAN :
    Check(script.archive \in Fit \cup {Damaged} /\ (hidden \/ script.archive \in Complete),
          "validate", "library", 85)

\* install of the library: the old one is removed and the new one written.
InstallLibrary ==
  /\ Step("library", "candidate")
  /\ library' = script.archive
  /\ UNCHANGED <<binary, previous, placed, due, faults>>
  /\ Silent /\ ScriptOnly

\* install of the candidate, and ldd again.
CheckCandidate ==
  /\ \/ Step("candidate", "previous")
     \/ Step("candidate", "failed") /\ script.archive \notin Complete
  /\ Silent /\ NoFile /\ ScriptOnly /\ UNCHANGED faults

\* Mutant: what is kept once is kept for good.
KeepFirst ==
  /\ Step("previous", "move")
  /\ previous' = IF previous = None THEN binary ELSE previous
  /\ UNCHANGED <<binary, library, placed, due, faults>>
  /\ Silent /\ ScriptOnly

\* install of the binary as the previous one.
KeepPrevious ==
  /\ Step("previous", "move")
  /\ previous' = binary
  /\ UNCHANGED <<binary, library, placed, due, faults>>
  /\ Silent /\ ScriptOnly

\* mv -f
MoveIn ==
  /\ Step("move", "restart")
  /\ binary' = script.archive /\ placed' = TRUE
  /\ Says(100)
  /\ UNCHANGED <<library, previous, due, faults>>
  /\ ScriptOnly

\* systemd-run
AskRestart ==
  /\ Step("restart", "done")
  /\ due' = due + 1
  /\ UNCHANGED <<files, placed, faults>>
  /\ Silent /\ ScriptOnly

\* What is left of the file a step was writing when it was stopped.
Stopped ==
  \/ UNCHANGED files
  \/ script.at = "library" /\ library' = Cut /\ UNCHANGED <<binary, previous>>
  \/ script.at = "previous" /\ previous' = Cut /\ UNCHANGED <<binary, library>>

Busy == script.at \notin {"none", "done", "failed"}

\* A step fails: no network, no space, no systemd.
StepFails ==
  /\ Busy /\ Fault
  /\ script' = [script EXCEPT !.at = "failed"]
  /\ Stopped
  /\ Silent /\ UNCHANGED <<due, placed>> /\ ScriptOnly

-----------------------------------------------------------------------------
(* The shell, and the service.                                             *)

ShellOnly == UNCHANGED <<published, files, script, pipe, status, due, updates, faults, placed>>

Installed == \/ status.state = "Succeeded"
             \/ status.state = "Running" /\ status.progress >= 100

\* update_update_overlay, in every refresh: nothing hides the overlay again.
UpdateOverlay ==
  /\ Installed
  /\ overlay' = TRUE
  /\ UNCHANGED saver /\ ShellOnly

\* on_screensaver_tick, after the time without a touch.
ShowScreensaver ==
  /\ ~saver /\ status.state # "Running"
  /\ saver' = TRUE
  /\ UNCHANGED overlay /\ ShellOnly

\* A press wakes, and reaches nothing else.
HideScreensaver ==
  /\ saver /\ saver' = FALSE
  /\ UNCHANGED overlay /\ ShellOnly

\* rebuild_ui, after a change of theme; it ends with a refresh.
RebuildUi ==
  /\ overlay' = Installed /\ saver' = FALSE
  /\ ShellOnly

\* The service is stopped, with the script, and started with what is there.
ServiceRestarts ==
  /\ Stopped
  /\ script' = NotRunning /\ pipe' = <<>> /\ status' = Status("Idle", 0)
  /\ overlay' = FALSE /\ saver' = FALSE /\ placed' = FALSE
  /\ UNCHANGED <<published, updates>>

RestartDue == due > 0 /\ due' = due - 1 /\ UNCHANGED faults /\ ServiceRestarts
Crash == Fault /\ UNCHANGED due /\ ServiceRestarts

WorkerStep == RunScript \/ ReadLine \/ Collect
LocalStep == \/ Verify \/ Validate \/ InstallLibrary \/ CheckCandidate
             \/ KeepPrevious \/ MoveIn \/ AskRestart

Next ==
  \/ \E r \in Release : Publish(r)
  \/ StartUpdate \/ WorkerStep
  \/ FetchArchive \/ FetchChecksum \/ LocalStep \/ StepFails
  \/ UpdateOverlay \/ ShowScreensaver \/ HideScreensaver \/ RebuildUi
  \/ RestartDue \/ Crash

\* The worker reads, and what the script does on the deck itself ends.  The
\* downloads have no time limit.
Spec == Init /\ [][Next]_vars /\ WF_vars(WorkerStep) /\ WF_vars(LocalStep)

-----------------------------------------------------------------------------
(* Whatever fails or stops in the middle of an update, the binary is a     *)
(* whole one from a release whose own checksum it had and that holds       *)
(* regular files for ARM64 (its libraries are another matter: the checks   *)
(* of them can be passed without, under pipefail); the page and the        *)
(* overlay say "installed" only when the update that runs or ran last has  *)
(* put its binary in place; and the screensaver never covers a running     *)
(* update (command-deck-update 42-79, app_shell.cpp 262, 659).             *)
InstalledAsTold ==
  /\ binary \in Fit
  /\ overlay \/ status.progress = 100 => placed
  /\ saver => status.state # "Running"

(* The step that replaces the binary replaces one that is kept, whole, as  *)
(* the previous one: in every update that gets so far, the second as well  *)
(* as the first, what was running before can be put back                   *)
(* (command-deck-update 75-79).  Of an update that is stopped earlier this *)
(* says nothing: stopped while it writes the previous binary, it has       *)
(* spoiled the one the update before had kept.                             *)
RollbackKept == [][binary' # binary => previous' = binary]_vars

(* An update whose downloads have ended ends, in success, failure or a     *)
(* restart, whatever step fails: the button, disabled meanwhile, comes     *)
(* back, and so does the screensaver (update_manager.cpp 79-109,           *)
(* screen_settings.cpp 668).                                               *)
UpdateEnds ==
  status.state = "Running" /\ script.at \notin {"none", "archive", "checksum"}
    ~> status.state # "Running"
=============================================================================
