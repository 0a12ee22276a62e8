-------------------------- MODULE DeckUpdateProofs --------------------------
(***************************************************************************)
(* Theorems about DeckUpdate, for any releases and any number of updates   *)
(* and faults.                                                             *)
(***************************************************************************)
EXTENDS DeckUpdate, SequenceTheorems, TLAPS

Place == {"none", "archive", "checksum", "verify", "validate", "library", "candidate",
          "previous", "move", "restart", "done", "failed"}
Line == {10, 45, 60, 85, 100}

Typed ==
  /\ published \in Release
  /\ script \in [at : Place, archive : Release \cup {Damaged, None}, sum : Release \cup {None}]
  /\ pipe \in Seq(Line)
  /\ status \in [state : {"Idle", "Running", "Succeeded", "Failed"}, progress : {0} \cup Line]
  /\ overlay \in BOOLEAN /\ saver \in BOOLEAN /\ placed \in BOOLEAN

\* What each step of the script may rely on.
ArchiveChecked ==
  /\ script.at = "verify" => script.sum \in Release
  /\ script.at = "validate" => script.archive \in Release
  /\ script.at \in {"library", "candidate", "previous", "move"} => script.archive \in Fit

\* The binary that MoveIn replaces is the one kept.
KeptBeforeMove == script.at = "move" => previous = binary

\* Who says 100, on the way from the script to the screen.
ToldWhenPlaced ==
  /\ script.at \in {"restart", "done"} => placed
  /\ \A i \in 1..Len(pipe) : pipe[i] = 100 => placed
  /\ status.progress = 100 => placed
  /\ status.state = "Succeeded" => placed
  /\ overlay => placed

\* Between updates there is no script, and without a script nothing to read.
ScriptOfUpdate ==
  /\ status.state # "Running" => script = NotRunning
  /\ script = NotRunning => pipe = <<>>

IInv ==
  /\ Typed
  /\ binary \in Fit
  /\ ArchiveChecked
  /\ KeptBeforeMove
  /\ ToldWhenPlaced
  /\ ScriptOfUpdate
  /\ saver => status.state # "Running"

USE UpdateAssumption DEF UpdateAssumption

LEMMA EmptyPipe == <<>> \in Seq(Line) /\ \A i \in 1..Len(<<>>) : FALSE
OBVIOUS

\* No script, an empty pipe, nothing told: at the start of the process.
LEMMA IInvFresh ==
  ASSUME published' \in Release, binary' \in Fit,
         script' = NotRunning, pipe' = <<>>, status' = Status("Idle", 0),
         overlay' = FALSE, saver' \in BOOLEAN, placed' = FALSE
  PROVE  IInv'
<1>1. /\ script'.at = "none"
      /\ script' \in [at : Place, archive : Release \cup {Damaged, None},
                      sum : Release \cup {None}]
  BY DEF NotRunning, Place
<1>2. /\ status'.state = "Idle" /\ status'.progress = 0
      /\ status' \in [state : {"Idle", "Running", "Succeeded", "Failed"},
                      progress : {0} \cup Line]
  BY DEF Status
<1>3. Typed'
  BY <1>1, <1>2, EmptyPipe DEF Typed
<1>4. ToldWhenPlaced'
  BY <1>1, <1>2, EmptyPipe DEF ToldWhenPlaced
<1> QED BY <1>1, <1>2, <1>3, <1>4 DEF IInv, ArchiveChecked, KeptBeforeMove, ScriptOfUpdate

LEMMA IInvInit == Init => IInv
<1> SUFFICES ASSUME Init PROVE IInv
    OBVIOUS
<1>1. /\ script.at = "none"
      /\ script \in [at : Place, archive : Release \cup {Damaged, None},
                     sum : Release \cup {None}]
  BY DEF Init, NotRunning, Place
<1>2. /\ status.state = "Idle" /\ status.progress = 0
      /\ status \in [state : {"Idle", "Running", "Succeeded", "Failed"},
                     progress : {0} \cup Line]
  BY DEF Init, Status
<1>3. Typed
  BY <1>1, <1>2, EmptyPipe DEF Init, Typed
<1>4. ToldWhenPlaced
  BY <1>1, <1>2, EmptyPipe DEF Init, ToldWhenPlaced
<1> QED BY <1>1, <1>2, <1>3, <1>4
        DEF Init, IInv, ArchiveChecked, KeptBeforeMove, ScriptOfUpdate

\* A line written to the pipe is read behind what is there.
LEMMA PipeGrows ==
  ASSUME NEW p \in Seq(Line), NEW line \in Line, NEW b \in BOOLEAN,
         \A i \in 1..Len(p) : p[i] = 100 => b, line = 100 => b
  PROVE  /\ Append(p, line) \in Seq(Line)
         /\ \A i \in 1..Len(Append(p, line)) : Append(p, line)[i] = 100 => b
OBVIOUS

LEMMA PipeRead ==
  ASSUME NEW p \in Seq(Line), NEW b \in BOOLEAN, p # <<>>,
         \A i \in 1..Len(p) : p[i] = 100 => b
  PROVE  /\ Tail(p) \in Seq(Line) /\ Head(p) \in Line
         /\ Head(p) = 100 => b
         /\ \A i \in 1..Len(Tail(p)) : Tail(p)[i] = 100 => b
<1>1. Len(p) \in Nat /\ Len(p) >= 1
  OBVIOUS
<1>2. Head(p) = p[1] /\ 1 \in 1..Len(p)
  BY <1>1
<1>3. \A i \in 1..Len(Tail(p)) : Tail(p)[i] = p[i + 1] /\ i + 1 \in 1..Len(p)
  BY <1>1
<1> QED BY <1>1, <1>2, <1>3

LEMMA IInvWorker == IInv /\ WorkerStep => IInv'
<1> SUFFICES ASSUME IInv, WorkerStep PROVE IInv'
    OBVIOUS
<1> USE DEF IInv, ArchiveChecked, KeptBeforeMove, ScriptOfUpdate, Worker, files, shell
<1>1. CASE RunScript
  <2>1. CASE script' = [NotRunning EXCEPT !.at = "archive"] /\ pipe' = <<10>> /\ UNCHANGED status
    <3>1. pipe' \in Seq(Line) /\ \A i \in 1..Len(pipe') : pipe'[i] # 100
      BY <2>1 DEF Line
    <3>2. script' = [at |-> "archive", archive |-> None, sum |-> None]
      BY <2>1 DEF NotRunning
    <3> QED BY <1>1, <2>1, <3>1, <3>2 DEF RunScript, Typed, ToldWhenPlaced, NotRunning, Place
  <2>2. CASE status' = Status("Failed", 0) /\ UNCHANGED <<script, pipe>>
    BY <1>1, <2>2 DEF RunScript, Typed, ToldWhenPlaced, Status
  <2> QED BY <1>1, <2>1, <2>2 DEF RunScript
<1>2. CASE ReadLine
  <2>1. /\ Tail(pipe) \in Seq(Line) /\ Head(pipe) \in Line /\ Head(pipe) = 100 => placed
        /\ \A i \in 1..Len(Tail(pipe)) : Tail(pipe)[i] = 100 => placed
    BY <1>2, PipeRead DEF ReadLine, Typed, ToldWhenPlaced
  <2> QED BY <1>2, <2>1 DEF ReadLine, Typed, ToldWhenPlaced, Status
<1>3. CASE Collect
  <2>1. CASE status' = Status("Failed", 0)
    BY <1>3, <2>1 DEF Collect, Typed, ToldWhenPlaced, Status, NotRunning, Place
  <2>2. CASE status' = IF script.at = "done" THEN Status("Succeeded", 100)
                       ELSE [status EXCEPT !.state = "Failed"]
    BY <1>3, <2>2 DEF Collect, Typed, ToldWhenPlaced, Status, NotRunning, Place, Line
  <2> QED BY <1>3, <2>1, <2>2 DEF Collect
<1> QED BY <1>1, <1>2, <1>3 DEF WorkerStep

\* A step of the script moves it on, is silent or says a line, and leaves
\* status and shell alone.
LEMMA StepMoves ==
  ASSUME Typed, NEW from \in Place, NEW to \in Place, Step(from, to)
  PROVE  /\ script.at = from /\ script'.at = to
         /\ script'.archive = script.archive /\ script'.sum = script.sum
         /\ script' \in [at : Place, archive : Release \cup {Damaged, None},
                         sum : Release \cup {None}]
BY DEF Step, Typed

\* The script is not the absent one while it is at one of its steps.
LEMMA Present ==
  ASSUME script.at # "none"
  PROVE  script # NotRunning
BY DEF NotRunning

LEMMA IInvCheck ==
  ASSUME IInv, NEW passes \in BOOLEAN, NEW from \in Place, NEW to \in Place \ {"move"},
         NEW line \in Line \ {100}, Check(passes, from, to, line),
         from # "none", to \notin {"none", "restart", "done"},
         to # "verify",
         passes /\ to = "validate" => script.archive \in Release,
         passes /\ to \in {"library", "candidate", "previous"} => script.archive \in Fit
  PROVE  IInv'
<1> USE DEF IInv, Check, NoFile, ScriptOnly, files, shell
<1>1. CASE passes
  <2>1. Step(from, to) /\ pipe' = Append(pipe, line)
    BY <1>1 DEF Says
  <2>2. /\ script.at = from /\ script'.at = to
        /\ script'.archive = script.archive
        /\ script' \in [at : Place, archive : Release \cup {Damaged, None},
                        sum : Release \cup {None}]
    BY <2>1, StepMoves
  <2>3. pipe' \in Seq(Line) /\ \A i \in 1..Len(pipe') : pipe'[i] = 100 => placed
    BY <2>1, PipeGrows DEF Typed, ToldWhenPlaced
  <2>4. script # NotRunning /\ script' # NotRunning
    BY <2>2 DEF NotRunning
  <2> QED BY <1>1, <2>2, <2>3, <2>4
          DEF Typed, ArchiveChecked, KeptBeforeMove, ToldWhenPlaced, ScriptOfUpdate
<1>2. CASE ~passes
  <2>1. Step(from, "failed") /\ UNCHANGED pipe
    BY <1>2 DEF Silent
  <2>2. /\ script.at = from /\ script'.at = "failed"
        /\ script' \in [at : Place, archive : Release \cup {Damaged, None},
                        sum : Release \cup {None}]
    BY <2>1, StepMoves DEF Place
  <2>3. script # NotRunning /\ script' # NotRunning
    BY <2>2 DEF NotRunning
  <2> QED BY <1>2, <2>1, <2>2, <2>3
          DEF Typed, ArchiveChecked, KeptBeforeMove, ToldWhenPlaced, ScriptOfUpdate
<1> QED BY <1>1, <1>2

LEMMA IInvFetch == IInv /\ (FetchArchive \/ FetchChecksum) => IInv'
<1> SUFFICES ASSUME IInv, FetchArchive \/ FetchChecksum PROVE IInv'
    OBVIOUS
<1> USE DEF IInv, NoFile, ScriptOnly, files, shell
<1>1. CASE FetchArchive
  <2>1. PICK a \in {published, Damaged} :
          script' = [script EXCEPT !.at = "checksum", !.archive = a]
    BY <1>1 DEF FetchArchive
  <2>2. /\ script'.at = "checksum"
        /\ script' \in [at : Place, archive : Release \cup {Damaged, None},
                        sum : Release \cup {None}]
    BY <2>1 DEF Typed, Place
  <2> script.at = "archive"
    BY <1>1 DEF FetchArchive
  <2>3. script # NotRunning /\ script' # NotRunning
    BY <2>2 DEF NotRunning
  <2>4. UNCHANGED <<published, binary, previous, pipe, status, overlay, saver, placed>>
    BY <1>1 DEF FetchArchive, Silent
  <2>5. Typed'
    BY <2>2, <2>4 DEF Typed
  <2>6. ToldWhenPlaced'
    BY <2>2, <2>4 DEF ToldWhenPlaced
  <2> QED BY <2>2, <2>3, <2>4, <2>5, <2>6 DEF ArchiveChecked, KeptBeforeMove, ScriptOfUpdate
<1>2. CASE FetchChecksum
  <2>1. /\ script'.at = "verify"
        /\ script' \in [at : Place, archive : Release \cup {Damaged, None},
                        sum : Release \cup {None}]
    BY <1>2 DEF FetchChecksum, Typed, Place
  <2>2. pipe' \in Seq(Line) /\ \A i \in 1..Len(pipe') : pipe'[i] = 100 => placed
    BY <1>2, PipeGrows DEF FetchChecksum, Says, Typed, ToldWhenPlaced, Line
  <2> script.at = "checksum"
    BY <1>2 DEF FetchChecksum
  <2>3. script # NotRunning /\ script' # NotRunning
    BY <2>1 DEF NotRunning
  <2>4. /\ UNCHANGED <<published, binary, previous, status, overlay, saver, placed>>
        /\ script'.sum \in Release
    BY <1>2 DEF FetchChecksum, Typed
  <2>5. Typed'
    BY <2>1, <2>2, <2>4 DEF Typed
  <2>6. ToldWhenPlaced'
    BY <2>1, <2>2, <2>4 DEF ToldWhenPlaced
  <2> QED BY <2>1, <2>3, <2>4, <2>5, <2>6 DEF ArchiveChecked, KeptBeforeMove, ScriptOfUpdate
<1> QED BY <1>1, <1>2

LEMMA IInvLocal == IInv /\ LocalStep => IInv'
<1> SUFFICES ASSUME IInv, LocalStep PROVE IInv'
    OBVIOUS
<1> USE DEF IInv, NoFile, ScriptOnly, files, shell, Silent
<1>1. CASE Verify
  <2>1. script.at = "verify"
    BY <1>1 DEF Verify, Check, Step
  <2>2. script.archive = script.sum => script.archive \in Release
    BY <2>1 DEF ArchiveChecked
  <2> DEFINE passes == script.archive = script.sum
  <2>3. passes \in BOOLEAN /\ (passes => script.archive \in Release)
    BY <2>2
  <2>4. Check(passes, "verify", "validate", 60)
    BY <1>1 DEF Verify
  <2> HIDE DEF passes
  <2> QED BY <2>3, <2>4, IInvCheck DEF Place, Line
<1>2. CASE Validate
  <2>1. PICK hidden \in BOOLEAN :
          Check(script.archive \in Fit \cup {Damaged} /\ (hidden \/ script.archive \in Complete),
                "validate", "library", 85)
    BY <1>2 DEF Validate
  <2>2. script.at = "validate" /\ script.archive \in Release
    BY <2>1 DEF Check, Step, ArchiveChecked
  <2> DEFINE passes == script.archive \in Fit \cup {Damaged}
                       /\ (hidden \/ script.archive \in Complete)
  <2>3. passes \in BOOLEAN /\ (passes => script.archive \in Fit)
    BY <2>2
  <2>4. Check(passes, "validate", "library", 85)
    BY <2>1
  <2> HIDE DEF passes
  <2> QED BY <2>3, <2>4, IInvCheck DEF Place, Line
<1>3. CASE InstallLibrary
  <2>1. /\ script.at = "library" /\ script'.at = "candidate"
        /\ script'.archive = script.archive
        /\ script' \in [at : Place, archive : Release \cup {Damaged, None},
                        sum : Release \cup {None}]
    BY <1>3, StepMoves DEF InstallLibrary, Place
  <2>2. script # NotRunning /\ script' # NotRunning
    BY <2>1 DEF NotRunning
  <2> QED BY <1>3, <2>1, <2>2
          DEF InstallLibrary, Typed, ArchiveChecked, KeptBeforeMove, ToldWhenPlaced, ScriptOfUpdate
<1>4. CASE CheckCandidate
  <2>1. PICK to \in {"previous", "failed"} : Step("candidate", to)
    BY <1>4 DEF CheckCandidate
  <2>2. /\ script.at = "candidate" /\ script'.at = to
        /\ script'.archive = script.archive
        /\ script' \in [at : Place, archive : Release \cup {Damaged, None},
                        sum : Release \cup {None}]
    BY <2>1, StepMoves DEF Place
  <2>3. script # NotRunning /\ script' # NotRunning
    BY <2>2 DEF NotRunning
  <2> QED BY <1>4, <2>2, <2>3
          DEF CheckCandidate, Typed, ArchiveChecked, KeptBeforeMove, ToldWhenPlaced,
              ScriptOfUpdate
<1>5. CASE KeepPrevious
  <2>1. /\ script.at = "previous" /\ script'.at = "move"
        /\ script'.archive = script.archive
        /\ script' \in [at : Place, archive : Release \cup {Damaged, None},
                        sum : Release \cup {None}]
    BY <1>5, StepMoves DEF KeepPrevious, Place
  <2>2. script # NotRunning /\ script' # NotRunning
    BY <2>1 DEF NotRunning
  <2> QED BY <1>5, <2>1, <2>2
          DEF KeepPrevious, Typed, ArchiveChecked, KeptBeforeMove, ToldWhenPlaced, ScriptOfUpdate
<1>6. CASE MoveIn
  <2>1. /\ script.at = "move" /\ script'.at = "restart"
        /\ script'.archive = script.archive
        /\ script' \in [at : Place, archive : Release \cup {Damaged, None},
                        sum : Release \cup {None}]
    BY <1>6, StepMoves DEF MoveIn, Place
  <2>2. script # NotRunning /\ script' # NotRunning
    BY <2>1 DEF NotRunning
  <2>3. pipe' \in Seq(Line)
    BY <1>6 DEF MoveIn, Says, Typed, Line
  <2> QED BY <1>6, <2>1, <2>2, <2>3
          DEF MoveIn, Typed, ArchiveChecked, KeptBeforeMove, ToldWhenPlaced, ScriptOfUpdate
<1>7. CASE AskRestart
  <2>1. /\ script.at = "restart" /\ script'.at = "done"
        /\ script'.archive = script.archive
        /\ script' \in [at : Place, archive : Release \cup {Damaged, None},
                        sum : Release \cup {None}]
    BY <1>7, StepMoves DEF AskRestart, Place
  <2>2. script # NotRunning /\ script' # NotRunning
    BY <2>1 DEF NotRunning
  <2> QED BY <1>7, <2>1, <2>2
          DEF AskRestart, Typed, ArchiveChecked, KeptBeforeMove, ToldWhenPlaced, ScriptOfUpdate
<1> QED BY <1>1, <1>2, <1>3, <1>4, <1>5, <1>6, <1>7 DEF LocalStep

\* A step that fails, or a stop of the service, may cut a library short, never
\* the binary.
LEMMA IInvFails == IInv /\ StepFails => IInv'
<1> SUFFICES ASSUME IInv, StepFails PROVE IInv'
    OBVIOUS
<1> USE DEF IInv, ScriptOnly, files, shell, Silent
<1>1. /\ script'.at = "failed" /\ script.at # "none" /\ script.at # "done"
      /\ script' \in [at : Place, archive : Release \cup {Damaged, None},
                      sum : Release \cup {None}]
  BY DEF StepFails, Busy, Typed, Place
<1>2. script # NotRunning /\ script' # NotRunning
  BY <1>1 DEF NotRunning
<1>3. UNCHANGED binary
  BY DEF StepFails, Stopped
<1> QED BY <1>1, <1>2, <1>3
        DEF StepFails, Typed, ArchiveChecked, KeptBeforeMove, ToldWhenPlaced, ScriptOfUpdate

LEMMA IInvRestart == IInv /\ ServiceRestarts => IInv'
<1> SUFFICES ASSUME IInv, ServiceRestarts PROVE IInv'
    OBVIOUS
<1>1. UNCHANGED <<published, binary>>
  BY DEF ServiceRestarts, Stopped, files
<1> QED BY <1>1, IInvFresh DEF ServiceRestarts, IInv, Typed

\* The shell, the button and the release server.
LEMMA IInvShell ==
  ASSUME IInv,
         \/ \E r \in Release : Publish(r)
         \/ StartUpdate \/ UpdateOverlay \/ ShowScreensaver \/ HideScreensaver \/ RebuildUi
         \/ UNCHANGED vars
  PROVE  IInv'
<1> USE DEF IInv, Typed, ArchiveChecked, KeptBeforeMove, ToldWhenPlaced, ScriptOfUpdate,
            files, shell, ShellOnly
<1>1. Installed => placed
  BY DEF Installed, Line
<1>2. CASE \E r \in Release : Publish(r)
  BY <1>2 DEF Publish
<1>3. CASE StartUpdate
  <2>1. script = NotRunning /\ pipe = <<>> /\ ~overlay /\ ~saver
    BY <1>3 DEF StartUpdate
  <2>2. /\ status'.state = "Running" /\ status'.progress = 0 /\ script'.at = "none"
        /\ status' \in [state : {"Idle", "Running", "Succeeded", "Failed"},
                        progress : {0} \cup Line]
    BY <1>3, <2>1 DEF StartUpdate, Status, NotRunning
  <2>3. Typed'
    BY <1>3, <2>2 DEF StartUpdate
  <2>4. ToldWhenPlaced'
    BY <1>3, <2>1, <2>2, EmptyPipe DEF StartUpdate
  <2> QED BY <1>3, <2>1, <2>2, <2>3, <2>4 DEF StartUpdate
<1>4. CASE UpdateOverlay
  BY <1>1, <1>4 DEF UpdateOverlay
<1>5. CASE ShowScreensaver
  BY <1>5 DEF ShowScreensaver
<1>6. CASE HideScreensaver
  BY <1>6 DEF HideScreensaver
<1>7. CASE RebuildUi
  <2>1. overlay' \in BOOLEAN /\ (overlay' => placed)
    BY <1>1, <1>7, Zenon DEF RebuildUi, Installed
  <2>2. UNCHANGED <<published, binary, previous, script, pipe, status, placed>> /\ saver' = FALSE
    BY <1>7 DEF RebuildUi
  <2>3. Typed' /\ ToldWhenPlaced'
    BY <2>1, <2>2
  <2>4. ArchiveChecked' /\ KeptBeforeMove' /\ ScriptOfUpdate'
    BY <2>2
  <2> QED BY <2>2, <2>3, <2>4
<1>8. CASE UNCHANGED vars
  BY <1>8 DEF vars
<1> QED BY <1>2, <1>3, <1>4, <1>5, <1>6, <1>7, <1>8

LEMMA IInvNext == IInv /\ [Next]_vars => IInv'
BY IInvWorker, IInvFetch, IInvLocal, IInvFails, IInvRestart, IInvShell
   DEF Next, RestartDue, Crash

(* Whatever fails, stops or changes in the middle of any number of         *)
(* updates, the installed binary is one whose checksum was verified and    *)
(* that holds regular files for ARM64; "installed" is only said when it is *)
(* in place, and no screensaver covers an update (command-deck-update      *)
(* 42-79).                                                                 *)
THEOREM InstalledAlwaysAsTold == Spec => []InstalledAsTold
<1>1. Init /\ [][Next]_vars => []IInv
  BY IInvInit, IInvNext, PTL
<1>2. IInv => InstalledAsTold
  BY DEF IInv, ToldWhenPlaced, InstalledAsTold
<1> QED BY <1>1, <1>2, PTL DEF Spec

\* Only mv changes the binary.
LEMMA OnlyMoveInChanges ==
  ASSUME IInv, [Next]_vars, binary' # binary
  PROVE  MoveIn
<1>1. CASE WorkerStep
  BY <1>1 DEF WorkerStep, RunScript, ReadLine, Collect, Worker, files
<1>2. CASE FetchArchive \/ FetchChecksum
  BY <1>2 DEF FetchArchive, FetchChecksum, NoFile, files
<1>3. CASE LocalStep /\ ~MoveIn
  BY <1>3 DEF LocalStep, Verify, Validate, Check, InstallLibrary, CheckCandidate, KeepPrevious,
              AskRestart, NoFile, files
<1>4. CASE StepFails \/ RestartDue \/ Crash
  BY <1>4 DEF StepFails, RestartDue, Crash, ServiceRestarts, Stopped, files
<1>5. CASE UpdateOverlay \/ ShowScreensaver \/ HideScreensaver \/ RebuildUi
  BY <1>5 DEF UpdateOverlay, ShowScreensaver, HideScreensaver, RebuildUi, ShellOnly, files
<1>6. CASE (\E r \in Release : Publish(r)) \/ StartUpdate \/ UNCHANGED vars
  BY <1>6 DEF Publish, StartUpdate, vars, files
<1> QED BY <1>1, <1>2, <1>3, <1>4, <1>5, <1>6 DEF Next

(* Whenever an update replaces the binary, the one it replaces has just    *)
(* been kept as the previous one (command-deck-update 75-81).              *)
THEOREM RollbackAlwaysKept == Spec => RollbackKept
<1>1. Init /\ [][Next]_vars => []IInv
  BY IInvInit, IInvNext, PTL
<1>2. IInv /\ [Next]_vars => [binary' # binary => previous' = binary]_vars
  <2> SUFFICES ASSUME IInv, [Next]_vars, binary' # binary PROVE previous' = binary
      OBVIOUS
  <2>1. MoveIn
    BY OnlyMoveInChanges
  <2> QED BY <2>1 DEF MoveIn, Step, IInv, KeptBeforeMove
<1> QED BY <1>1, <1>2, PTL DEF Spec, RollbackKept
=============================================================================
