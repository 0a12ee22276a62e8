---------------------------- MODULE ThemeStudio ----------------------------
(***************************************************************************)
(* The theme studio of the System tab (ui/screen_settings.cpp) and how the *)
(* shell changes the theme (ui/app_shell.cpp).                             *)
(*                                                                         *)
(* The page keeps a list of profiles read when it was built and a working  *)
(* copy that its controls edit.  APPLY PROFILE writes the working copy,    *)
(* the shell writes it again, and an asynchronous call destroys all pages  *)
(* and builds them anew; the settings page is then built when it is first  *)
(* opened, from what is on disk.  The process may stop at any time, also   *)
(* in the middle of a write, and the files may be edited by hand.          *)
(***************************************************************************)
EXTENDS ThemeStore

CONSTANTS
  MaxFaults,  \* bound on failed writes and crashes within one
  MaxEdits    \* bound on edits by hand

ASSUME StudioAssumption == {MaxFaults, MaxEdits} \subseteq Nat

VARIABLES
  disk,
  \* ScreenSettings: built or not (which of its two pages is shown changes
  \* nothing else); profiles_, working_, the entry the dropdown shows, the
  \* style the preview and the labels of the controls show
  open, list, working, selected, preview,
  \* AppShell: theme_, a rebuild_ui waiting in lv_async_call
  theme, pending,
  faults, edits,
  \* history: the files are as the theme shown left them; the profile the
  \* working copy was made from, if DUPLICATE could not save it
  intact, original

studioVars == <<open, list, working, selected, preview, original>>
shellVars == <<theme, pending>>
vars == <<disk, studioVars, shellVars, faults, edits, intact>>

\* Every variable has its type.
TypeOK ==
  /\ disk \in Disk
  /\ open \in BOOLEAN
  /\ DOMAIN list \subseteq Id /\ \A i \in DOMAIN list : list[i] \in Style
  /\ working \in Profile /\ selected \in Id /\ preview \in Style
  /\ theme \in Profile /\ pending \in BOOLEAN
  /\ faults \in 0..MaxFaults /\ edits \in 0..MaxEdits
  /\ intact \in BOOLEAN /\ original \in Id \cup {NoId}

NoPage == open = FALSE /\ list = PresetStyle /\ working = DefaultProfile
          /\ selected = Neon /\ preview = PresetStyle[Neon] /\ original = NoId

PageGone == /\ open' = FALSE /\ list' = PresetStyle /\ working' = DefaultProfile
            /\ selected' = Neon /\ preview' = PresetStyle[Neon] /\ original' = NoId

Init ==
  /\ disk = [file |-> [n \in Id |-> NoFile], active |-> NoId]
  /\ NoPage
  /\ theme = DefaultProfile /\ pending = FALSE
  /\ faults = 0 /\ edits = 0 /\ intact = TRUE

\* At most MaxFaults writes go wrong.
Charge(whole) == /\ faults' = IF whole THEN faults ELSE faults + 1
                 /\ faults' <= MaxFaults

\* rebuild_profile_options: the entry with the id of the working copy, or the
\* first.
EntryOf(l, p) == IF p.id \in DOMAIN l THEN p.id ELSE Neon

\* refresh_theme_preview, after working has its new value.
RefreshPreview == preview' = working'.style

\* cycle_accent, cycle_status, cycle_mark and the like: another of the values
\* a control goes through.
Cycled(s) == Style \ {s}

-----------------------------------------------------------------------------
(* The page.                                                               *)

\* The System tab is opened for the first time since the pages were built.
OpenSettings ==
  /\ ~open
  /\ open' = TRUE
  /\ list' \in Lists(disk) /\ working' \in Actives(disk)
  /\ selected' = EntryOf(list', working') /\ RefreshPreview
  /\ original' = NoId
  /\ UNCHANGED <<disk, shellVars, faults, edits, intact>>

InStudio == open /\ UNCHANGED <<open, edits>>

\* select_profile: unsaved changes are dropped.
SelectProfile(i) ==
  /\ InStudio
  /\ i \in DOMAIN list
  /\ selected' = i /\ working' = [id |-> i, style |-> list[i]] /\ original' = NoId
  /\ RefreshPreview
  /\ UNCHANGED <<disk, list, shellVars, faults, intact>>

\* One of the controls, or the fields for title and subtitle.
Change(s) ==
  /\ InStudio
  /\ s \in Cycled(working.style)
  /\ working' = [working EXCEPT !.style = s] /\ RefreshPreview
  /\ UNCHANGED <<disk, list, selected, original, shellVars, faults, intact>>

\* The working copy under the id DUPLICATE gives it.
Copied == [working EXCEPT !.id = CopyOf[@]]

\* The profile it was made from, before the first DUPLICATE that failed.
Original == IF original = NoId THEN working.id ELSE original

\* duplicate_profile: the working copy has the new id also if it was not saved.
DuplicateProfile ==
  /\ InStudio
  /\ working.id \in DOMAIN CopyOf
  /\ working' = Copied
  /\ \E s \in Saves(disk, working') :
       /\ Charge(s.whole)
       /\ disk' = s.disk
       /\ IF s.ok
          THEN /\ list' \in Lists(disk')
               /\ selected' = EntryOf(list', working') /\ original' = NoId
          ELSE original' = Original /\ UNCHANGED <<list, selected>>
       /\ intact' = (intact /\ s.whole /\ working'.id \notin {theme.id, ActiveId(disk)})
  /\ UNCHANGED <<preview, shellVars>>

\* Mutant: the options are rebuilt before the working copy is replaced.
DeleteSelectsDeleted ==
  /\ InStudio
  /\ disk' = WithFile(disk, working.id, NoFile) /\ UNCHANGED faults
  /\ list' \in Lists(disk') /\ working' \in Actives(disk')
  /\ selected' = EntryOf(list', working) /\ RefreshPreview /\ original' = NoId
  /\ intact' = (intact /\ working.id \notin {theme.id, ActiveId(disk)})
  /\ UNCHANGED shellVars

\* delete_profile: the file of the working copy goes, or cannot be removed;
\* .active is left alone.
DeleteProfile ==
  /\ InStudio
  /\ \/ disk' = WithFile(disk, working.id, NoFile) /\ UNCHANGED faults
     \/ UNCHANGED disk /\ Charge(FALSE)
  /\ list' \in Lists(disk') /\ working' \in Actives(disk')
  /\ selected' = EntryOf(list', working') /\ RefreshPreview /\ original' = NoId
  /\ intact' = (intact /\ working.id \notin {theme.id, ActiveId(disk)})
  /\ UNCHANGED shellVars

\* RELOAD FILES: the list is read again, the working copy stays.
ReloadFiles ==
  /\ InStudio
  /\ list' \in Lists(disk)
  /\ selected' = EntryOf(list', working) /\ preview' = working.style /\ original' = NoId
  /\ UNCHANGED <<disk, working, shellVars, faults, intact>>

\* apply_profile, and apply_theme of the shell, which sets the profile active
\* once more.
ApplyProfile ==
  /\ InStudio
  /\ \E a \in SetActives(disk, working) :
       IF ~a.ok
       THEN Charge(FALSE) /\ disk' = a.disk /\ UNCHANGED <<theme, pending>> /\ intact' = FALSE
       ELSE \E b \in SetActives(a.disk, working) :
              /\ Charge(a.whole /\ b.whole)
              /\ disk' = b.disk
              /\ IF b.ok THEN theme' = working /\ pending' = TRUE
                 ELSE UNCHANGED <<theme, pending>>
              /\ intact' = b.whole
  /\ UNCHANGED <<list, working, selected, preview, original>>

-----------------------------------------------------------------------------
(* The shell, the process and the world.                                   *)

\* rebuild_ui, from lv_async_call.
RebuildUi ==
  /\ pending
  /\ pending' = FALSE
  /\ PageGone
  /\ UNCHANGED <<disk, theme, faults, edits, intact>>

\* No file claims to be another profile, as a torn one does.
Clean(d) == \A n \in Files(d) : d.file[n].id = n

\* The process starts with what the disk says is active.
StartFrom(d) ==
  /\ disk' = d
  /\ PageGone
  /\ theme' \in Actives(d) /\ pending' = FALSE
  /\ intact' = Clean(d)
  /\ UNCHANGED edits

Restart == StartFrom(disk) /\ UNCHANGED faults

\* What a crash in the middle of APPLY PROFILE or DUPLICATE may leave.
CrashDisks ==
  CrashInSetActive(disk, working)
  \cup (UNION {CrashInSetActive(s.disk, working) :
                 s \in {t \in SetActives(disk, working) : t.whole}})
  \cup (IF working.id \in DOMAIN CopyOf
        THEN CrashInSave(disk, Copied) ELSE {})

CrashWriting ==
  /\ open
  /\ Charge(FALSE)
  /\ \E d \in CrashDisks : StartFrom(d)

\* A profile is edited or made by hand, well or not.
EditedByHand(n) ==
  /\ edits < MaxEdits /\ edits' = edits + 1
  /\ \E content \in {[id |-> n, style |-> s] : s \in Style \cup WildStyle} \cup {DefaultProfile} :
       disk' = WithFile(disk, n, content)
  /\ intact' = (intact /\ n \notin {theme.id, ActiveId(disk)})
  /\ UNCHANGED <<studioVars, shellVars, faults>>

Next ==
  \/ OpenSettings \/ DuplicateProfile \/ DeleteProfile \/ ReloadFiles
  \/ ApplyProfile \/ RebuildUi \/ Restart \/ CrashWriting
  \/ \E i \in Id : SelectProfile(i) \/ EditedByHand(i)
  \/ \E s \in Style : Change(s)

Spec == Init /\ [][Next]_vars

-----------------------------------------------------------------------------
(* The theme shown is the one a restart would show, whatever was selected, *)
(* edited, copied or deleted since, unless its own profile was: applying   *)
(* a theme saves all of it and names it, and nothing else does             *)
(* (theme_profile.cpp 225, app_shell.cpp 709).                             *)
RestartKeepsTheme == intact /\ Clean(disk) => Actives(disk) = {theme}

(* The preview and the controls show what APPLY PROFILE would save, and    *)
(* the dropdown names the profile it would be saved as and DELETE would    *)
(* remove, if that profile is in the list.  A DUPLICATE that could not     *)
(* save is the exception: the working copy has the new id, and the         *)
(* dropdown goes on naming the profile it was made from, until the list is *)
(* read again or another entry is taken, however many more copies fail     *)
(* (screen_settings.cpp 486, 507, 621-640).                                *)
DropdownNamesProfile ==
  open => /\ preview = working.style
          /\ original = NoId /\ working.id \in DOMAIN list => selected = working.id
          /\ original \in DOMAIN list => selected = original
=============================================================================
