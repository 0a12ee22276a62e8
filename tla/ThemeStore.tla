----------------------------- MODULE ThemeStore -----------------------------
(***************************************************************************)
(* The theme profiles on disk (ui/theme_profile.cpp): what is read from    *)
(* them and what a write may leave, as operators on the state of the disk. *)
(* A profile is a file named after its id; the name of the active one is   *)
(* a file of its own.  Both are truncated and written in place.  What a    *)
(* profile looks like (colours, radius, screensaver, ...) is its style.    *)
(***************************************************************************)
EXTENDS Integers

CONSTANTS
  Id,           \* sanitized ids
  Neon,         \* the id of ThemeProfile{}
  PresetStyle,  \* the bundled presets and their styles
  CopyOf,       \* the id DUPLICATE gives, for ids that still have one
  Style,        \* styles within the limits of load_file
  WildStyle,    \* styles only a hand-edited file can have
  ClampedStyle, \* what load_file makes of them
  NoFile, NoId

ASSUME ThemeAssumption ==
  /\ DOMAIN PresetStyle \subseteq Id /\ Neon \in DOMAIN PresetStyle
  /\ \A i \in DOMAIN PresetStyle : PresetStyle[i] \in Style
  /\ DOMAIN CopyOf \subseteq Id /\ \A i \in DOMAIN CopyOf : CopyOf[i] \in Id
  /\ Style \cap WildStyle = {} /\ ClampedStyle \in Style
  /\ NoId \notin Id /\ \A i \in Id, s \in Style \cup WildStyle : NoFile # [id |-> i, style |-> s]

Profile == [id : Id, style : Style]
Written == [id : Id, style : Style \cup WildStyle]
Disk == [file : [Id -> Written \cup {NoFile}], active : Id \cup {NoId}]

Files(d) == {n \in Id : d.file[n] # NoFile}

\* restrained, light, contrast, and ThemeProfile{} before them.
Presets == {[id |-> i, style |-> PresetStyle[i]] : i \in DOMAIN PresetStyle}

\* ThemeProfile{}
DefaultProfile == [id |-> Neon, style |-> PresetStyle[Neon]]

\* Mutant: what the file says is taken as it is.
LoadUnclamped(content) == content

\* load_file of what was written whole.
Load(content) ==
  [content EXCEPT !.style = IF @ \in Style THEN @ ELSE ClampedStyle]

\* profiles: the presets, replaced and extended by the files, which come in
\* any order; the last of several with one id stays.
Lists(d) ==
  LET loaded == {Load(d.file[n]) : n \in Files(d)}
      ids == {p.id : p \in Presets \cup loaded}
      With(i, ps) == {p.style : p \in {q \in ps : q.id = i}}
  IN {l \in [ids -> Style \cup WildStyle] :
        \A i \in ids :
          l[i] \in IF With(i, loaded) = {} THEN With(i, Presets) ELSE With(i, loaded)}

\* active_id, without the environment's override.
ActiveId(d) == IF d.active = NoId THEN Neon ELSE d.active

\* active
Actives(d) ==
  {IF ActiveId(d) \in DOMAIN l THEN [id |-> ActiveId(d), style |-> l[ActiveId(d)]]
   ELSE DefaultProfile : l \in Lists(d)}

-----------------------------------------------------------------------------
(* Writing.  An outcome is the disk it leaves, the answer, and whether the *)
(* answer is true.                                                         *)

\* A file cut off in its middle.  The tables are in alphabetical order: cut
\* before [profile] the style is there and the id is missing, for which
\* load_file takes Neon; cut in [screensaver], the last one, the id is there
\* and part of the style is ThemeProfile{}'s.  A file that does not parse loads
\* as ThemeProfile{}.
Torn(p) == {DefaultProfile, [id |-> Neon, style |-> p.style]}
           \cup {[id |-> p.id, style |-> s] : s \in Style}

WithFile(d, n, content) == [d EXCEPT !.file[n] = content]

\* save, write_file: the old file stays if the new one cannot be opened.  The
\* stream is asked before its buffer is flushed, so a full disk may or may not
\* be noticed.
Saves(d, p) ==
  {[disk |-> WithFile(d, p.id, p), ok |-> TRUE, whole |-> TRUE],
   [disk |-> d, ok |-> FALSE, whole |-> FALSE]}
  \cup {[disk |-> WithFile(d, p.id, t), ok |-> b, whole |-> FALSE] :
          t \in Torn(p), b \in BOOLEAN}

\* Mutant: a profile that has a file is only named.
SetActivesUnsaved(d, p) ==
  IF d.file[p.id] # NoFile
  THEN {[disk |-> [d EXCEPT !.active = p.id], ok |-> TRUE, whole |-> TRUE]}
  ELSE {[disk |-> [WithFile(d, p.id, p) EXCEPT !.active = p.id], ok |-> TRUE, whole |-> TRUE]}

\* set_active: saved first, then named.  The old name stays if its file cannot
\* be opened.
SetActives(d, p) ==
  UNION {IF ~s.ok THEN {s}
         ELSE {[s EXCEPT !.disk.active = p.id], [s EXCEPT !.ok = FALSE, !.whole = FALSE]}
              \cup {[disk |-> [s.disk EXCEPT !.active = NoId], ok |-> b, whole |-> FALSE] :
                      b \in BOOLEAN} : s \in Saves(d, p)}

\* What a crash may leave of a save, and of a set_active.
CrashInSave(d, p) == {d} \cup {s.disk : s \in Saves(d, p)}
CrashInSetActive(d, p) == CrashInSave(d, p) \cup {s.disk : s \in SetActives(d, p)}
=============================================================================
