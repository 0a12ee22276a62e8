-------------------------- MODULE ThemeStudioProofs --------------------------
(***************************************************************************)
(* The theme profiles and their page, for any ids, presets and styles.     *)
(*                                                                         *)
(* What a disk shows (ShownBy) depends on the file of the active profile   *)
(* alone as long as every file is named after its profile (CleanActives).  *)
(***************************************************************************)
EXTENDS ThemeStudio, TLAPS

USE ThemeAssumption, StudioAssumption

-----------------------------------------------------------------------------
(* Files and lists.                                                        *)

Styles == Style \cup WildStyle

\* What a restart shows, if every file is named after its profile.
ShownBy(d) ==
  LET a == ActiveId(d)
  IN IF d.file[a] # NoFile THEN Load(d.file[a])
     ELSE IF a \in DOMAIN PresetStyle THEN [id |-> a, style |-> PresetStyle[a]]
     ELSE DefaultProfile

LEMMA LoadShape ==
  ASSUME NEW c \in Written
  PROVE  /\ Load(c) \in Profile /\ Load(c).id = c.id
         /\ c \in Profile => Load(c) = c
         /\ Load(c) = [id |-> c.id, style |-> Load(c).style]
<1>1. c = [id |-> c.id, style |-> c.style] /\ c.id \in Id
  BY DEF Written
<1>2. Load(c) = [id |-> c.id, style |-> IF c.style \in Style THEN c.style ELSE ClampedStyle]
  BY <1>1 DEF Load
<1> QED BY <1>1, <1>2 DEF Profile

LEMMA ProfileFiles == Profile \subseteq Written /\ NoFile \notin Written /\ DefaultProfile \in Profile
<1>1. NoFile \notin Written
  BY DEF Written
<1>2. Neon \in Id /\ PresetStyle[Neon] \in Style
  OBVIOUS
<1> QED BY <1>1, <1>2 DEF Profile, Written, DefaultProfile

LEMMA ActiveIsId == \A d \in Disk : ActiveId(d) \in Id
BY DEF Disk, ActiveId

LEMMA WithFileShape ==
  ASSUME NEW d \in Disk, NEW n \in Id, NEW c \in Written \cup {NoFile}
  PROVE  /\ WithFile(d, n, c) \in Disk /\ WithFile(d, n, c).active = d.active
         /\ WithFile(d, n, c).file[n] = c
         /\ \A m \in Id : m # n => WithFile(d, n, c).file[m] = d.file[m]
<1>1. /\ d.file \in [Id -> Written \cup {NoFile}] /\ d.active \in Id \cup {NoId}
      /\ d = [file |-> d.file, active |-> d.active]
  BY DEF Disk
<1>2. WithFile(d, n, c) = [file |-> [d.file EXCEPT ![n] = c], active |-> d.active]
  BY <1>1 DEF WithFile
<1>3. [d.file EXCEPT ![n] = c] \in [Id -> Written \cup {NoFile}]
  BY <1>1
<1> QED BY <1>1, <1>2, <1>3 DEF Disk

\* The profiles a disk has, and the styles of those with an id.
Loaded(d) == {Load(d.file[n]) : n \in Files(d)}
StylesOf(i, ps) == {p.style : p \in {q \in ps : q.id = i}}

LEMMA OneStyle ==
  ASSUME NEW i, NEW ps, NEW q \in ps, q.id = i, \A r \in ps : r.id = i => r = q
  PROVE  StylesOf(i, ps) = {q.style}
<1>1. {r \in ps : r.id = i} = {q}
  OBVIOUS
<1> QED BY <1>1 DEF StylesOf

LEMMA LoadedProfiles ==
  ASSUME NEW d \in Disk
  PROVE  Loaded(d) \subseteq Profile /\ Presets \subseteq Profile
<1>1. \A n \in Files(d) : d.file[n] \in Written
  BY DEF Files, Disk
<1>2. Loaded(d) \subseteq Profile
  BY <1>1, LoadShape DEF Loaded
<1>3. Presets \subseteq Profile
  BY DEF Presets, Profile
<1> QED BY <1>2, <1>3

LEMMA ListsAre ==
  ASSUME NEW d
  PROVE  Lists(d) =
           {l \in [{p.id : p \in Presets \cup Loaded(d)} -> Styles] :
              \A i \in {p.id : p \in Presets \cup Loaded(d)} :
                l[i] \in IF StylesOf(i, Loaded(d)) = {} THEN StylesOf(i, Presets)
                         ELSE StylesOf(i, Loaded(d))}
BY DEF Lists, Loaded, StylesOf, Styles

\* Every list offers the presets, and only styles within the limits.
LEMMA ListShape ==
  ASSUME NEW d \in Disk, NEW l \in Lists(d)
  PROVE  /\ DOMAIN l \subseteq Id /\ DOMAIN PresetStyle \subseteq DOMAIN l
         /\ \A i \in DOMAIN l : l[i] \in Style
<1> DEFINE ids == {p.id : p \in Presets \cup Loaded(d)}
<1>1. /\ l \in [ids -> Styles]
      /\ \A i \in ids : l[i] \in IF StylesOf(i, Loaded(d)) = {} THEN StylesOf(i, Presets)
                                 ELSE StylesOf(i, Loaded(d))
  BY ListsAre
<1>2. Loaded(d) \subseteq Profile /\ Presets \subseteq Profile
  BY LoadedProfiles
<1>3. ids \subseteq Id
  BY <1>2 DEF Profile
<1>4. \A i : StylesOf(i, Loaded(d)) \subseteq Style /\ StylesOf(i, Presets) \subseteq Style
  BY <1>2 DEF StylesOf, Profile
<1>5. DOMAIN PresetStyle \subseteq ids
  <2> SUFFICES ASSUME NEW i \in DOMAIN PresetStyle PROVE i \in ids
    OBVIOUS
  <2>1. [id |-> i, style |-> PresetStyle[i]] \in Presets
    BY DEF Presets
  <2> QED BY <2>1
<1> HIDE DEF ids
<1>6. DOMAIN l = ids
  BY <1>1
<1>7. \A i \in ids : l[i] \in Style
  BY <1>1, <1>4
<1> QED BY <1>3, <1>5, <1>6, <1>7

LEMMA ActivesShape ==
  ASSUME NEW d \in Disk, NEW p \in Actives(d)
  PROVE  p \in Profile
<1>1. PICK l \in Lists(d) :
        p = IF ActiveId(d) \in DOMAIN l THEN [id |-> ActiveId(d), style |-> l[ActiveId(d)]]
            ELSE DefaultProfile
  BY DEF Actives
<1>2. CASE ActiveId(d) \in DOMAIN l
  <2>1. l[ActiveId(d)] \in Style
    BY <1>2, ListShape
  <2> QED BY <1>1, <1>2, <2>1, ActiveIsId DEF Profile
<1>3. CASE ActiveId(d) \notin DOMAIN l
  BY <1>1, <1>3, ProfileFiles
<1> QED BY <1>2, <1>3

\* Where every file is named after its profile there is one list only.
LEMMA CleanList ==
  ASSUME NEW d \in Disk, Clean(d)
  PROVE  Lists(d) = {[i \in DOMAIN PresetStyle \cup Files(d) |->
                        IF i \in Files(d) THEN Load(d.file[i]).style ELSE PresetStyle[i]]}
<1> DEFINE ids == DOMAIN PresetStyle \cup Files(d)
           one == [i \in ids |-> IF i \in Files(d) THEN Load(d.file[i]).style ELSE PresetStyle[i]]
<1>1. \A n \in Files(d) : d.file[n] \in Written /\ d.file[n].id = n
  BY DEF Files, Disk, Clean
<1>2. \A n \in Files(d) : Load(d.file[n]).id = n /\ Load(d.file[n]).style \in Style
  BY <1>1, LoadShape DEF Profile
<1>3. {p.id : p \in Presets \cup Loaded(d)} = ids
  <2>1. {p.id : p \in Loaded(d)} = Files(d)
    BY <1>2 DEF Loaded
  <2>2. {p.id : p \in Presets} = DOMAIN PresetStyle
    <3>1. \A i \in DOMAIN PresetStyle : [id |-> i, style |-> PresetStyle[i]].id = i
      OBVIOUS
    <3> QED BY <3>1 DEF Presets
  <2> QED BY <2>1, <2>2
<1>4. \A i \in Files(d) : StylesOf(i, Loaded(d)) = {Load(d.file[i]).style}
  <2> SUFFICES ASSUME NEW i \in Files(d)
               PROVE  StylesOf(i, Loaded(d)) = {Load(d.file[i]).style}
    OBVIOUS
  <2>1. Load(d.file[i]) \in Loaded(d) /\ Load(d.file[i]).id = i
    BY <1>2 DEF Loaded
  <2>2. \A r \in Loaded(d) : r.id = i => r = Load(d.file[i])
    BY <1>2 DEF Loaded
  <2> QED BY <2>1, <2>2, OneStyle
<1>5. \A i \in ids : i \notin Files(d) => StylesOf(i, Loaded(d)) = {}
  BY <1>2 DEF StylesOf, Loaded
<1>6. \A i \in DOMAIN PresetStyle : StylesOf(i, Presets) = {PresetStyle[i]}
  <2> SUFFICES ASSUME NEW i \in DOMAIN PresetStyle
               PROVE  StylesOf(i, Presets) = {PresetStyle[i]}
    OBVIOUS
  <2>1. PICK q \in Presets : q = [id |-> i, style |-> PresetStyle[i]]
    BY DEF Presets
  <2>2. q.id = i /\ q.style = PresetStyle[i]
    BY <2>1
  <2>3. \A r \in Presets : r.id = i => r = q
    BY <2>1 DEF Presets
  <2>4. {r \in Presets : r.id = i} = {q}
    BY <2>2, <2>3
  <2> QED BY <2>2, <2>4 DEF StylesOf
<1>7. one \in [ids -> Styles]
  BY <1>2 DEF Styles
<1>8. Lists(d) = {l \in [ids -> Styles] :
                    \A i \in ids : l[i] \in IF StylesOf(i, Loaded(d)) = {} THEN StylesOf(i, Presets)
                                            ELSE StylesOf(i, Loaded(d))}
  BY <1>3, ListsAre
<1>9. \A l \in [ids -> Styles] : l \in Lists(d) <=> \A i \in ids : l[i] = one[i]
  <2> SUFFICES ASSUME NEW i \in ids
               PROVE  (IF StylesOf(i, Loaded(d)) = {} THEN StylesOf(i, Presets)
                       ELSE StylesOf(i, Loaded(d))) = {one[i]}
    BY <1>8
  <2>1. CASE i \in Files(d)
    BY <1>4, <2>1
  <2>2. CASE i \notin Files(d)
    BY <1>5, <1>6, <2>2
  <2> QED BY <2>1, <2>2
<1>10. \A l \in [ids -> Styles] : (\A i \in ids : l[i] = one[i]) <=> l = one
  BY <1>7
<1> HIDE DEF one, ids
<1>11. Lists(d) \subseteq [ids -> Styles]
  BY <1>8
<1>12. Lists(d) = {one}
  BY <1>7, <1>9, <1>10, <1>11
<1> QED BY <1>12 DEF one, ids

LEMMA CleanActives ==
  ASSUME NEW d \in Disk, Clean(d)
  PROVE  /\ Actives(d) = {ShownBy(d)}
         /\ d.file[ActiveId(d)] # NoFile => ShownBy(d).id = ActiveId(d)
<1> DEFINE a == ActiveId(d)
           one == [i \in DOMAIN PresetStyle \cup Files(d) |->
                     IF i \in Files(d) THEN Load(d.file[i]).style ELSE PresetStyle[i]]
<1>1. Lists(d) = {one}
  BY CleanList
<1>2. a \in Id /\ (a \in Files(d) <=> d.file[a] # NoFile)
  BY ActiveIsId DEF Files
<1>3. Actives(d) = {IF a \in DOMAIN one THEN [id |-> a, style |-> one[a]] ELSE DefaultProfile}
  BY <1>1 DEF Actives
<1>4. CASE d.file[a] # NoFile
  <2>1. d.file[a] \in Written /\ d.file[a].id = a
    BY <1>2, <1>4 DEF Files, Disk, Clean
  <2>2. Load(d.file[a]) = [id |-> a, style |-> Load(d.file[a]).style] /\ Load(d.file[a]).id = a
    BY <2>1, LoadShape
  <2>3. a \in DOMAIN one /\ one[a] = Load(d.file[a]).style
    BY <1>2, <1>4
  <2> QED BY <1>3, <1>4, <2>2, <2>3 DEF ShownBy
<1>5. CASE d.file[a] = NoFile
  BY <1>2, <1>3, <1>5 DEF ShownBy
<1> QED BY <1>4, <1>5

\* What is shown depends on the active profile and its file.
LEMMA ShownDepends ==
  ASSUME NEW d \in Disk, NEW e \in Disk, e.active = d.active,
         e.file[ActiveId(d)] = d.file[ActiveId(d)]
  PROVE  ActiveId(e) = ActiveId(d) /\ ShownBy(e) = ShownBy(d)
BY DEF ActiveId, ShownBy

-----------------------------------------------------------------------------
(* Writing.                                                                *)

Outcome == [disk : Disk, ok : BOOLEAN, whole : BOOLEAN]

LEMMA SavesShape ==
  ASSUME NEW d \in Disk, NEW p \in Profile, NEW s \in Saves(d, p)
  PROVE  /\ s \in Outcome
         /\ s.whole => s.ok /\ s.disk = WithFile(d, p.id, p)
<1>1. p.id \in Id /\ p.style \in Style /\ p \in Written /\ Neon \in Id
  BY ProfileFiles DEF Profile
<1>2. Torn(p) \subseteq Written
  <2>1. [id |-> Neon, style |-> p.style] \in Written
    BY <1>1 DEF Written
  <2>2. \A s_1 \in Style : [id |-> p.id, style |-> s_1] \in Written
    BY <1>1 DEF Written
  <2> QED BY <2>1, <2>2, ProfileFiles DEF Torn
<1>3. CASE s = [disk |-> WithFile(d, p.id, p), ok |-> TRUE, whole |-> TRUE]
  <2>1. WithFile(d, p.id, p) \in Disk
    BY <1>1, WithFileShape
  <2> QED BY <1>3, <2>1 DEF Outcome
<1>4. ASSUME NEW t \in Torn(p), NEW b \in BOOLEAN,
             s = [disk |-> WithFile(d, p.id, t), ok |-> b, whole |-> FALSE]
      PROVE  s \in Outcome /\ ~s.whole
  <2>1. WithFile(d, p.id, t) \in Disk
    BY <1>1, <1>2, WithFileShape
  <2> QED BY <1>4, <2>1 DEF Outcome
<1>5. CASE s = [disk |-> d, ok |-> FALSE, whole |-> FALSE]
  BY <1>5 DEF Outcome
<1> QED BY <1>3, <1>4, <1>5 DEF Saves

LEMMA NamedShape ==
  ASSUME NEW s \in Outcome, NEW n \in Id \cup {NoId}
  PROVE  LET t == [s EXCEPT !.disk.active = n]
         IN /\ t \in Outcome /\ t.ok = s.ok /\ t.whole = s.whole
            /\ t.disk.active = n /\ t.disk.file = s.disk.file
            /\ t.disk = [s.disk EXCEPT !.active = n]
<1>1. /\ s = [disk |-> s.disk, ok |-> s.ok, whole |-> s.whole] /\ s.disk \in Disk
      /\ s.ok \in BOOLEAN /\ s.whole \in BOOLEAN
  BY DEF Outcome
<1> DEFINE e == [s.disk EXCEPT !.active = n]
<1>2. /\ s.disk = [file |-> s.disk.file, active |-> s.disk.active]
      /\ s.disk.file \in [Id -> Written \cup {NoFile}]
  BY <1>1 DEF Disk
<1>3. e = [file |-> s.disk.file, active |-> n] /\ e \in Disk
  BY <1>2 DEF Disk
<1>4. [s EXCEPT !.disk.active = n] = [disk |-> e, ok |-> s.ok, whole |-> s.whole]
  BY <1>1
<1> HIDE DEF e
<1>5. [disk |-> e, ok |-> s.ok, whole |-> s.whole] \in Outcome
  BY <1>1, <1>3 DEF Outcome
<1> QED BY <1>3, <1>4, <1>5 DEF e

LEMMA SetActivesShape ==
  ASSUME NEW d \in Disk, NEW p \in Profile, NEW t \in SetActives(d, p)
  PROVE  /\ t \in Outcome
         /\ t.whole => t.ok /\ t.disk.active = p.id /\ t.disk.file[p.id] = p
<1>1. p.id \in Id /\ p \in Written
  BY ProfileFiles DEF Profile
<1>2. PICK s \in Saves(d, p) :
        t \in IF ~s.ok THEN {s}
              ELSE {[s EXCEPT !.disk.active = p.id], [s EXCEPT !.ok = FALSE, !.whole = FALSE]}
                   \cup {[disk |-> [s.disk EXCEPT !.active = NoId], ok |-> b, whole |-> FALSE] :
                           b \in BOOLEAN}
  BY DEF SetActives
<1>3. s \in Outcome /\ (s.whole => s.ok /\ s.disk = WithFile(d, p.id, p))
  BY SavesShape
<1>4. CASE ~s.ok
  BY <1>2, <1>3, <1>4
<1>5. CASE t = [s EXCEPT !.disk.active = p.id]
  <2>1. /\ t \in Outcome /\ t.ok = s.ok /\ t.whole = s.whole
        /\ t.disk.active = p.id /\ t.disk.file = s.disk.file
    BY <1>1, <1>3, <1>5, NamedShape
  <2>2. WithFile(d, p.id, p).file[p.id] = p
    BY <1>1, WithFileShape
  <2> QED BY <1>3, <2>1, <2>2
<1>6. ASSUME NEW b \in BOOLEAN,
             t = [disk |-> [s.disk EXCEPT !.active = NoId], ok |-> b, whole |-> FALSE]
      PROVE  t \in Outcome /\ ~t.whole
  <2>1. [s.disk EXCEPT !.active = NoId] \in Disk
    BY <1>3, NamedShape DEF Outcome
  <2> QED BY <1>6, <2>1 DEF Outcome
<1>7. CASE t = [s EXCEPT !.ok = FALSE, !.whole = FALSE]
  <2>1. t = [disk |-> s.disk, ok |-> FALSE, whole |-> FALSE] /\ s.disk \in Disk
    BY <1>3, <1>7 DEF Outcome
  <2> QED BY <2>1 DEF Outcome
<1> QED BY <1>2, <1>4, <1>5, <1>6, <1>7

LEMMA CrashShape ==
  ASSUME NEW d \in Disk, NEW p \in Profile
  PROVE  CrashInSave(d, p) \subseteq Disk /\ CrashInSetActive(d, p) \subseteq Disk
<1>1. \A s \in Saves(d, p) : s.disk \in Disk
  BY SavesShape DEF Outcome
<1>2. \A s \in SetActives(d, p) : s.disk \in Disk
  BY SetActivesShape DEF Outcome
<1> QED BY <1>1, <1>2 DEF CrashInSave, CrashInSetActive

-----------------------------------------------------------------------------
(* Types.                                                                  *)

Flags == open \in BOOLEAN /\ pending \in BOOLEAN /\ intact \in BOOLEAN

ListTyped == DOMAIN list \subseteq Id /\ \A i \in DOMAIN list : list[i] \in Style

PageTyped == /\ working \in Profile /\ selected \in Id /\ preview \in Style
             /\ original \in Id \cup {NoId}

Typed ==
  /\ disk \in Disk /\ ListTyped /\ PageTyped
  /\ theme \in Profile
  /\ faults \in 0..MaxFaults /\ edits \in 0..MaxEdits

LEMMA TypesAre == TypeOK <=> Flags /\ Typed
BY Zenon DEF TypeOK, Flags, Typed, ListTyped, PageTyped

\* The page that is not open.
LEMMA GoneTyped ==
  ASSUME PageGone
  PROVE  ListTyped' /\ PageTyped'
<1>1. DefaultProfile \in Profile /\ Neon \in Id /\ PresetStyle[Neon] \in Style
  BY ProfileFiles
<1>2. DOMAIN PresetStyle \subseteq Id /\ \A i \in DOMAIN PresetStyle : PresetStyle[i] \in Style
  OBVIOUS
<1> QED BY <1>1, <1>2 DEF PageGone, ListTyped, PageTyped

LEMMA InitTyped == Init => Flags /\ Typed
<1> SUFFICES ASSUME Init PROVE Flags /\ Typed
  OBVIOUS
<1>1. Flags
  BY Zenon DEF Init, NoPage, Flags
<1>2. DefaultProfile \in Profile /\ Neon \in Id /\ PresetStyle[Neon] \in Style
  BY ProfileFiles
<1>3. disk \in Disk
  BY DEF Init, Disk
<1>4. DOMAIN PresetStyle \subseteq Id /\ \A i \in DOMAIN PresetStyle : PresetStyle[i] \in Style
  OBVIOUS
<1>5. 0 \in 0..MaxFaults /\ 0 \in 0..MaxEdits
  OBVIOUS
<1> QED BY <1>1, <1>2, <1>3, <1>4, <1>5 DEF Init, NoPage, Typed, ListTyped, PageTyped

LEMMA Charged ==
  ASSUME Typed, NEW w, Charge(w)
  PROVE  faults' \in 0..MaxFaults
BY DEF Typed, Charge

LEMMA EntryIsId ==
  ASSUME NEW l, NEW p \in Profile
  PROVE  EntryOf(l, p) \in Id
BY DEF EntryOf, Profile

\* The list and the entry after they were read again.
LEMMA ReadTyped ==
  ASSUME NEW d \in Disk, list' \in Lists(d), NEW p \in Profile, selected' = EntryOf(list', p)
  PROVE  ListTyped' /\ selected' \in Id
BY ListShape, EntryIsId DEF ListTyped

LEMMA StartedTyped ==
  ASSUME NEW d \in Disk, StartFrom(d), Typed, faults' \in 0..MaxFaults
  PROVE  Flags' /\ Typed'
<1>1. ListTyped' /\ PageTyped'
  BY GoneTyped DEF StartFrom
<1>2. theme' \in Profile
  BY ActivesShape DEF StartFrom
<1>3. Flags'
  BY Zenon DEF StartFrom, PageGone, Flags, Clean
<1> QED BY <1>1, <1>2, <1>3 DEF StartFrom, Typed

LEMMA CrashedDisk ==
  ASSUME Typed, CrashWriting
  PROVE  \E d \in Disk : StartFrom(d)
<1>1. working \in Profile /\ disk \in Disk
  BY DEF Typed, PageTyped
<1>2. CrashInSetActive(disk, working) \subseteq Disk
  BY <1>1, CrashShape
<1>3. ASSUME NEW s \in SetActives(disk, working)
      PROVE  CrashInSetActive(s.disk, working) \subseteq Disk
  <2>1. s.disk \in Disk
    BY <1>1, SetActivesShape DEF Outcome
  <2> QED BY <1>1, <2>1, CrashShape
<1>4. working.id \in DOMAIN CopyOf =>
        CrashInSave(disk, Copied) \subseteq Disk
  <2>1. working.id \in DOMAIN CopyOf => Copied \in Profile
    BY <1>1 DEF Profile, Copied
  <2> QED BY <1>1, <2>1, CrashShape
<1>5. CrashDisks \subseteq Disk
  <2>1. UNION {CrashInSetActive(s.disk, working) :
                 s \in {t \in SetActives(disk, working) : t.whole}} \subseteq Disk
    BY <1>3
  <2> QED BY <1>2, <1>4, <2>1 DEF CrashDisks
<1>6. \E d \in CrashDisks : StartFrom(d)
  BY DEF CrashWriting
<1> QED BY <1>5, <1>6

\* What APPLY PROFILE comes to: nothing shown, or the working copy shown and,
\* if it was written whole, on the disk.
LEMMA Applied ==
  ASSUME Typed, ApplyProfile
  PROVE  /\ disk' \in Disk /\ faults' \in 0..MaxFaults
         /\ \/ intact' = FALSE /\ theme' \in {theme, working} /\ pending' \in {pending, TRUE}
            \/ /\ intact' = TRUE /\ theme' = working /\ pending' = TRUE
               /\ disk'.active = working.id /\ disk'.file[working.id] = working
<1>1. working \in Profile /\ disk \in Disk
  BY DEF Typed, PageTyped
<1>2. PICK a \in SetActives(disk, working) :
        IF ~a.ok
        THEN Charge(FALSE) /\ disk' = a.disk /\ UNCHANGED <<theme, pending>> /\ intact' = FALSE
        ELSE \E b \in SetActives(a.disk, working) :
               /\ Charge(a.whole /\ b.whole)
               /\ disk' = b.disk
               /\ IF b.ok THEN theme' = working /\ pending' = TRUE
                  ELSE UNCHANGED <<theme, pending>>
               /\ intact' = b.whole
  BY Zenon DEF ApplyProfile
<1>3. a \in Outcome /\ a.disk \in Disk
  BY <1>1, SetActivesShape DEF Outcome
<1>4. CASE ~a.ok
  <2>1. Charge(FALSE) /\ disk' = a.disk /\ UNCHANGED <<theme, pending>> /\ intact' = FALSE
    BY <1>2, <1>4, Zenon
  <2>2. faults' \in 0..MaxFaults
    BY <2>1, Charged
  <2>3. theme' \in {theme, working} /\ pending' \in {pending, TRUE}
    BY <2>1, Zenon
  <2> QED BY <1>3, <2>1, <2>2, <2>3, Zenon
<1>5. CASE a.ok
  <2>1. PICK b \in SetActives(a.disk, working) :
          /\ Charge(a.whole /\ b.whole)
          /\ disk' = b.disk
          /\ IF b.ok THEN theme' = working /\ pending' = TRUE
             ELSE UNCHANGED <<theme, pending>>
          /\ intact' = b.whole
    BY <1>2, <1>5, Zenon
  <2>2. /\ b \in Outcome
        /\ b.whole => b.ok /\ b.disk.active = working.id /\ b.disk.file[working.id] = working
    BY <1>1, <1>3, SetActivesShape
  <2>3. faults' \in 0..MaxFaults
    BY <2>1, Charged
  <2>4. b.disk \in Disk /\ b.whole \in BOOLEAN
    BY <2>2 DEF Outcome
  <2>5. theme' \in {theme, working} /\ pending' \in {pending, TRUE}
    BY <2>1, Zenon
  <2>6. CASE b.whole = TRUE
    <3>1. /\ b.ok /\ b.disk.active = working.id /\ b.disk.file[working.id] = working
      BY <2>2, <2>6
    <3>2. intact' = TRUE /\ theme' = working /\ pending' = TRUE
      BY <2>1, <2>6, <3>1, Zenon
    <3> QED BY <2>1, <2>3, <2>4, <3>1, <3>2, Zenon
  <2>7. CASE b.whole = FALSE
    <3>1. intact' = FALSE
      BY <2>1, <2>7, Zenon
    <3> QED BY <2>1, <2>3, <2>4, <2>5, <3>1, Zenon
  <2> QED BY <2>4, <2>6, <2>7
<1>6. a.ok \in BOOLEAN
  BY <1>3 DEF Outcome
<1> QED BY <1>4, <1>5, <1>6, Zenon

\* What DUPLICATE comes to.
LEMMA Duplicated ==
  ASSUME Typed, DuplicateProfile
  PROVE  /\ working' \in Profile /\ working'.style = working.style
         /\ disk' \in Disk /\ faults' \in 0..MaxFaults
         /\ \/ list' \in Lists(disk') /\ selected' = EntryOf(list', working') /\ original' = NoId
            \/ original' = Original /\ UNCHANGED <<list, selected>>
         /\ intact' \in BOOLEAN
         /\ intact' => /\ intact /\ working'.id # ActiveId(disk)
                       /\ disk' = WithFile(disk, working'.id, working')
<1>1. working \in Profile /\ disk \in Disk
  BY DEF Typed, PageTyped
<1>2. /\ working.id \in DOMAIN CopyOf /\ working' = Copied
      /\ \E s \in Saves(disk, working') :
           /\ Charge(s.whole)
           /\ disk' = s.disk
           /\ IF s.ok
              THEN /\ list' \in Lists(disk')
                   /\ selected' = EntryOf(list', working') /\ original' = NoId
              ELSE original' = Original /\ UNCHANGED <<list, selected>>
           /\ intact' = (intact /\ s.whole /\ working'.id \notin {theme.id, ActiveId(disk)})
  BY Zenon DEF DuplicateProfile
<1>3. working' \in Profile /\ working'.style = working.style
  BY <1>1, <1>2 DEF Profile, Copied
<1>4. PICK s \in Saves(disk, working') :
        /\ Charge(s.whole)
        /\ disk' = s.disk
        /\ IF s.ok
           THEN /\ list' \in Lists(disk')
                /\ selected' = EntryOf(list', working') /\ original' = NoId
           ELSE original' = Original /\ UNCHANGED <<list, selected>>
        /\ intact' = (intact /\ s.whole /\ working'.id \notin {theme.id, ActiveId(disk)})
  BY <1>2, Zenon
<1>5. /\ s \in Outcome
      /\ s.whole => s.ok /\ s.disk = WithFile(disk, working'.id, working')
  <2>1. \A p \in Profile : \A r \in Saves(disk, p) :
          r \in Outcome /\ (r.whole => r.ok /\ r.disk = WithFile(disk, p.id, p))
    BY <1>1, SavesShape
  <2> QED BY <1>3, <1>4, <2>1
<1>6. s.disk \in Disk
  BY <1>5 DEF Outcome
<1>7. faults' \in 0..MaxFaults
  BY <1>4, Charged
<1>8. intact' \in BOOLEAN
  BY <1>4, Zenon
<1>9. intact' => intact /\ s.whole /\ working'.id # ActiveId(disk)
  BY <1>4, Zenon
<1> QED BY <1>3, <1>4, <1>5, <1>6, <1>7, <1>8, <1>9, Zenon

LEMMA TypedStep == Flags /\ Typed /\ [Next]_vars => Flags' /\ Typed'
<1> SUFFICES ASSUME Flags, Typed, [Next]_vars PROVE Flags' /\ Typed'
  OBVIOUS
<1>1. /\ working \in Profile /\ disk \in Disk /\ ListTyped /\ theme \in Profile
      /\ faults \in 0..MaxFaults /\ edits \in 0..MaxEdits
  BY DEF Typed, PageTyped
<1>2. CASE OpenSettings
  <2>1. working' \in Profile /\ list' \in Lists(disk) /\ selected' = EntryOf(list', working')
    BY <1>1, <1>2, ActivesShape DEF OpenSettings
  <2>2. ListTyped' /\ selected' \in Id
    BY <1>1, <2>1, ListShape, EntryIsId DEF ListTyped
  <2>3. preview' \in Style
    BY <1>2, <2>1 DEF OpenSettings, RefreshPreview, Profile
  <2>4. Flags'
    BY <1>2, Zenon DEF OpenSettings, Flags, shellVars
  <2> QED BY <1>1, <1>2, <2>1, <2>2, <2>3, <2>4 DEF OpenSettings, Typed, PageTyped, shellVars
<1>3. ASSUME NEW i \in Id, SelectProfile(i) PROVE Flags' /\ Typed'
  <2>1. working' \in Profile
    BY <1>1, <1>3 DEF SelectProfile, Profile, ListTyped
  <2>2. preview' \in Style /\ selected' \in Id
    BY <1>3, <2>1 DEF SelectProfile, RefreshPreview, Profile
  <2>3. Flags'
    BY <1>3, Zenon DEF SelectProfile, InStudio, Flags, shellVars
  <2> QED BY <1>1, <1>3, <2>1, <2>2, <2>3
          DEF SelectProfile, InStudio, Typed, PageTyped, ListTyped, shellVars
<1>4. ASSUME NEW s \in Style, Change(s) PROVE Flags' /\ Typed'
  <2>1. working' \in Profile
    BY <1>1, <1>4 DEF Change, Cycled, Profile
  <2>2. preview' \in Style
    BY <1>4, <2>1 DEF Change, RefreshPreview, Profile
  <2>3. Flags'
    BY <1>4, Zenon DEF Change, InStudio, Flags, shellVars
  <2> QED BY <1>1, <1>4, <2>1, <2>2, <2>3
          DEF Change, InStudio, Typed, PageTyped, ListTyped, shellVars
<1>5. CASE DuplicateProfile
  <2>1. /\ working' \in Profile /\ disk' \in Disk /\ faults' \in 0..MaxFaults
        /\ \/ list' \in Lists(disk') /\ selected' = EntryOf(list', working') /\ original' = NoId
           \/ original' = Original /\ UNCHANGED <<list, selected>>
        /\ intact' \in BOOLEAN
    BY <1>5, Duplicated
  <2>2. ListTyped' /\ selected' \in Id
    <3>1. CASE list' \in Lists(disk') /\ selected' = EntryOf(list', working')
      BY <2>1, <3>1, ListShape, EntryIsId DEF ListTyped
    <3>2. CASE UNCHANGED <<list, selected>>
      BY <1>1, <3>2 DEF ListTyped, Typed, PageTyped
    <3> QED BY <2>1, <3>1, <3>2
  <2>3. UNCHANGED <<open, pending, theme, edits, preview>>
    BY <1>5 DEF DuplicateProfile, InStudio, shellVars
  <2>4. Flags'
    BY <2>1, <2>3, Zenon DEF Flags
  <2>5. original' \in Id \cup {NoId}
    BY <1>1, <2>1 DEF Original, Typed, PageTyped, Profile
  <2> QED BY <1>1, <2>1, <2>2, <2>3, <2>4, <2>5 DEF Typed, PageTyped
<1>6. CASE DeleteProfile
  <2>1. disk' \in Disk /\ faults' \in 0..MaxFaults
    <3>1. CASE disk' = WithFile(disk, working.id, NoFile) /\ UNCHANGED faults
      BY <1>1, <3>1, WithFileShape DEF Profile
    <3>2. CASE UNCHANGED disk /\ Charge(FALSE)
      BY <1>1, <3>2, Charged
    <3> QED BY <1>6, <3>1, <3>2 DEF DeleteProfile
  <2>2. working' \in Profile /\ list' \in Lists(disk') /\ selected' = EntryOf(list', working')
    BY <1>6, <2>1, ActivesShape DEF DeleteProfile
  <2>3. ListTyped' /\ selected' \in Id
    BY <2>1, <2>2, ListShape, EntryIsId DEF ListTyped
  <2>4. preview' \in Style
    BY <1>6, <2>2 DEF DeleteProfile, RefreshPreview, Profile
  <2>5. Flags'
    BY <1>6, Zenon DEF DeleteProfile, InStudio, Flags, shellVars
  <2> QED BY <1>1, <1>6, <2>1, <2>2, <2>3, <2>4, <2>5
          DEF DeleteProfile, InStudio, Typed, PageTyped, shellVars
<1>7. CASE ReloadFiles
  <2>1. ListTyped' /\ selected' \in Id /\ preview' \in Style
    BY <1>1, <1>7, ListShape, EntryIsId DEF ReloadFiles, ListTyped, Profile
  <2>2. Flags'
    BY <1>7, Zenon DEF ReloadFiles, InStudio, Flags, shellVars
  <2> QED BY <1>1, <1>7, <2>1, <2>2 DEF ReloadFiles, InStudio, Typed, PageTyped, shellVars
<1>8. CASE ApplyProfile
  <2>1. /\ disk' \in Disk /\ faults' \in 0..MaxFaults /\ theme' \in Profile
    BY <1>1, <1>8, Applied
  <2>2. intact' \in BOOLEAN /\ pending' \in BOOLEAN
    BY <1>8, Applied, Zenon DEF Flags
  <2>3. UNCHANGED <<open, edits, list, working, selected, preview, original>>
    BY <1>8, Zenon DEF ApplyProfile, InStudio
  <2>4. Flags'
    BY <2>2, <2>3, Zenon DEF Flags
  <2> QED BY <1>1, <2>1, <2>3, <2>4 DEF Typed, PageTyped, ListTyped
<1>9. CASE RebuildUi
  <2>1. Flags'
    BY <1>9, Zenon DEF RebuildUi, PageGone, Flags
  <2> QED BY <1>1, <1>9, <2>1, GoneTyped DEF RebuildUi, Typed
<1>10. CASE Restart
  BY <1>1, <1>10, StartedTyped DEF Restart
<1>11. CASE CrashWriting
  <2>1. faults' \in 0..MaxFaults
    BY <1>11, Charged DEF CrashWriting
  <2> QED BY <1>11, <2>1, CrashedDisk, StartedTyped
<1>12. ASSUME NEW n \in Id, EditedByHand(n) PROVE Flags' /\ Typed'
  <2>1. PICK content \in {[id |-> n, style |-> s] : s \in Style \cup WildStyle}
                           \cup {DefaultProfile} : disk' = WithFile(disk, n, content)
    BY <1>12 DEF EditedByHand
  <2>2. content \in Written
    BY <2>1, ProfileFiles DEF Written
  <2>3. disk' \in Disk
    BY <1>1, <2>1, <2>2, WithFileShape
  <2>4. edits' \in 0..MaxEdits
    BY <1>1, <1>12 DEF EditedByHand
  <2>5. Flags'
    BY <1>12, Zenon DEF EditedByHand, Flags, studioVars, shellVars
  <2> QED BY <1>1, <1>12, <2>3, <2>4, <2>5
          DEF EditedByHand, Typed, PageTyped, ListTyped, studioVars, shellVars
<1>13. CASE UNCHANGED vars
  <2>1. Flags'
    BY <1>13, Zenon DEF vars, studioVars, shellVars, Flags
  <2> QED BY <1>13, <2>1 DEF vars, studioVars, shellVars, Typed, PageTyped, ListTyped
<1> QED BY <1>2, <1>3, <1>4, <1>5, <1>6, <1>7, <1>8, <1>9, <1>10, <1>11, <1>12, <1>13 DEF Next

(* The page never holds a style or an id that the files could not have     *)
(* given it within the limits of load_file, whatever was written, torn or  *)
(* edited by hand (theme_profile.cpp 106-146).                             *)
THEOREM AlwaysTyped == Spec => []TypeOK
BY InitTyped, TypedStep, TypesAre, PTL DEF Spec

-----------------------------------------------------------------------------
(* The theme and the disk.                                                 *)

\* As long as nothing touched the file or the name of the theme shown, they
\* are what shows it.  Other files may be torn or misnamed meanwhile.
ThemeKept ==
  intact => /\ theme = ShownBy(disk)
            /\ disk.file[ActiveId(disk)] # NoFile => theme.id = ActiveId(disk)

LEMMA KeptElsewhere ==
  ASSUME Typed, ThemeKept, intact, theme' = theme, disk' \in Disk, disk'.active = disk.active,
         disk'.file[ActiveId(disk)] = disk.file[ActiveId(disk)]
  PROVE  ThemeKept'
<1>1. ActiveId(disk') = ActiveId(disk) /\ ShownBy(disk') = ShownBy(disk)
  BY ShownDepends DEF Typed
<1> QED BY <1>1 DEF ThemeKept

LEMMA StartedKept ==
  ASSUME NEW d \in Disk, StartFrom(d)
  PROVE  ThemeKept'
<1> SUFFICES ASSUME intact'
             PROVE  theme' = ShownBy(d) /\ (d.file[ActiveId(d)] # NoFile => theme'.id = ActiveId(d))
  BY DEF ThemeKept, StartFrom
<1>1. Clean(d)
  BY Zenon DEF StartFrom
<1>2. theme' \in Actives(d)
  BY DEF StartFrom
<1> QED BY <1>1, <1>2, CleanActives

LEMMA ThemeKeptStep == Typed /\ ThemeKept /\ Typed' /\ [Next]_vars => ThemeKept'
<1> SUFFICES ASSUME Typed, ThemeKept, Typed', [Next]_vars PROVE ThemeKept'
  OBVIOUS
<1>1. working \in Profile /\ disk \in Disk /\ disk' \in Disk
  BY DEF Typed, PageTyped
<1>2. CASE UNCHANGED <<disk, theme, intact>>
  BY <1>2 DEF ThemeKept
<1>3. CASE DuplicateProfile
  <2> SUFFICES ASSUME intact' PROVE ThemeKept'
    BY Zenon DEF ThemeKept
  <2>1. /\ intact /\ working' \in Profile /\ working'.id # ActiveId(disk)
        /\ disk' = WithFile(disk, working'.id, working')
    BY <1>3, Duplicated
  <2>2. working'.id \in Id /\ working' \in Written /\ ActiveId(disk) \in Id
    BY <1>1, <2>1, ProfileFiles, ActiveIsId DEF Profile
  <2>3. disk'.active = disk.active /\ disk'.file[ActiveId(disk)] = disk.file[ActiveId(disk)]
    BY <1>1, <2>1, <2>2, WithFileShape
  <2>4. theme' = theme
    BY <1>3 DEF DuplicateProfile, shellVars
  <2> QED BY <1>1, <2>1, <2>3, <2>4, KeptElsewhere
<1>4. CASE DeleteProfile
  <2> SUFFICES ASSUME intact' PROVE ThemeKept'
    BY Zenon DEF ThemeKept
  <2>1. intact /\ working.id # ActiveId(disk)
    BY <1>4, Zenon DEF DeleteProfile
  <2>2. disk' \in {disk, WithFile(disk, working.id, NoFile)} /\ theme' = theme
    BY <1>4 DEF DeleteProfile, shellVars
  <2>3. working.id \in Id /\ ActiveId(disk) \in Id
    BY <1>1, ActiveIsId DEF Profile
  <2>4. disk'.active = disk.active /\ disk'.file[ActiveId(disk)] = disk.file[ActiveId(disk)]
    BY <1>1, <2>1, <2>2, <2>3, WithFileShape
  <2> QED BY <1>1, <2>1, <2>2, <2>4, KeptElsewhere
<1>5. CASE ApplyProfile
  <2> SUFFICES ASSUME intact' PROVE ThemeKept'
    BY Zenon DEF ThemeKept
  <2>1. theme' = working /\ disk'.active = working.id /\ disk'.file[working.id] = working
    BY <1>5, Applied, Zenon
  <2>2. working # NoFile /\ Load(working) = working /\ working.id \in Id
    BY <1>1, ProfileFiles, LoadShape DEF Profile
  <2>3. ActiveId(disk') = working.id
    BY <2>1, <2>2 DEF ActiveId
  <2>4. ShownBy(disk') = working
    BY <2>1, <2>2, <2>3 DEF ShownBy
  <2> QED BY <2>1, <2>3, <2>4 DEF ThemeKept
<1>6. CASE Restart
  BY <1>1, <1>6, StartedKept DEF Restart
<1>7. CASE CrashWriting
  BY <1>7, CrashedDisk, StartedKept
<1>8. ASSUME NEW n \in Id, EditedByHand(n) PROVE ThemeKept'
  <2> SUFFICES ASSUME intact' PROVE ThemeKept'
    BY Zenon DEF ThemeKept
  <2>1. intact /\ n # ActiveId(disk)
    BY <1>8, Zenon DEF EditedByHand
  <2>2. PICK content \in {[id |-> n, style |-> s] : s \in Style \cup WildStyle}
                           \cup {DefaultProfile} : disk' = WithFile(disk, n, content)
    BY <1>8 DEF EditedByHand
  <2>3. content \in Written
    BY <2>2, ProfileFiles DEF Written
  <2>4. disk'.active = disk.active /\ disk'.file[ActiveId(disk)] = disk.file[ActiveId(disk)]
    <3>1. ActiveId(disk) \in Id /\ disk' = WithFile(disk, n, content)
      BY <1>1, <2>2, ActiveIsId
    <3>2. WithFile(disk, n, content).active = disk.active
      BY <1>1, <2>3, WithFileShape
    <3>3. \A m \in Id : m # n => WithFile(disk, n, content).file[m] = disk.file[m]
      BY <1>1, <2>3, WithFileShape
    <3> QED BY <2>1, <3>1, <3>2, <3>3, Zenon
  <2>5. theme' = theme
    BY <1>8 DEF EditedByHand, shellVars
  <2> QED BY <1>1, <2>1, <2>4, <2>5, KeptElsewhere
<1> QED BY <1>2, <1>3, <1>4, <1>5, <1>6, <1>7, <1>8
        DEF Next, OpenSettings, SelectProfile, Change, ReloadFiles, RebuildUi, shellVars, vars

LEMMA ThemeKeptInit == Init => ThemeKept
<1> SUFFICES ASSUME Init PROVE ThemeKept
  OBVIOUS
<1>1. /\ disk.active = NoId /\ theme = DefaultProfile
      /\ \A n \in Id : disk.file[n] = NoFile
  BY DEF Init
<1>2. ActiveId(disk) = Neon /\ disk.file[Neon] = NoFile
  BY <1>1 DEF ActiveId
<1>3. ShownBy(disk) = DefaultProfile
  BY <1>2 DEF ShownBy, DefaultProfile
<1> QED BY <1>1, <1>2, <1>3 DEF ThemeKept

(* The theme shown is the one a restart would show, whatever profiles were *)
(* selected, edited, copied, deleted or torn since, unless its own was:    *)
(* applying a theme saves all of it and names it, and nothing else does    *)
(* (theme_profile.cpp 225, app_shell.cpp 709).                             *)
THEOREM RestartAlwaysKeepsTheme == Spec => []RestartKeepsTheme
<1>1. Init => Flags /\ Typed /\ ThemeKept
  BY InitTyped, ThemeKeptInit
<1>2. Flags /\ Typed /\ ThemeKept /\ [Next]_vars => (Flags /\ Typed /\ ThemeKept)'
  BY TypedStep, ThemeKeptStep, Zenon
<1>3. Typed /\ ThemeKept => RestartKeepsTheme
  <2> SUFFICES ASSUME Typed, ThemeKept, intact, Clean(disk) PROVE Actives(disk) = {theme}
    BY Zenon DEF RestartKeepsTheme
  <2>1. theme = ShownBy(disk)
    BY Zenon DEF ThemeKept
  <2> QED BY <2>1, CleanActives DEF Typed
<1> QED BY <1>1, <1>2, <1>3, PTL DEF Spec

-----------------------------------------------------------------------------
(* The dropdown.                                                           *)

\* What the dropdown shows of an open page.
Named ==
  /\ original = NoId /\ working.id \in DOMAIN list => selected = working.id
  /\ original \in DOMAIN list => selected = original

\* The options were built anew.
LEMMA NamedAnew ==
  ASSUME Typed', original' = NoId, selected' = EntryOf(list', working')
  PROVE  Named'
<1>1. NoId \notin DOMAIN list'
  BY DEF Typed, ListTyped
<1> QED BY <1>1 DEF Named, EntryOf

LEMMA DropdownStep ==
  Flags /\ Typed /\ Typed' /\ DropdownNamesProfile /\ [Next]_vars => DropdownNamesProfile'
<1> SUFFICES ASSUME Flags, Typed, Typed', DropdownNamesProfile, [Next]_vars, open'
             PROVE  preview' = working'.style /\ Named'
  BY Zenon DEF DropdownNamesProfile, Named
<1>1. CASE OpenSettings \/ DeleteProfile
  BY <1>1, NamedAnew DEF OpenSettings, DeleteProfile, RefreshPreview
<1>2. ASSUME NEW i \in Id, SelectProfile(i)
      PROVE  preview' = working'.style /\ Named'
  <2>1. selected' = i /\ working' = [id |-> i, style |-> list[i]] /\ original' = NoId
    BY <1>2 DEF SelectProfile
  <2>2. NoId \notin DOMAIN list'
    BY DEF Typed, ListTyped
  <2> QED BY <1>2, <2>1, <2>2 DEF SelectProfile, RefreshPreview, Named
<1>3. ASSUME open, UNCHANGED <<list, selected, original>>, working'.id = working.id,
             preview' = working'.style
      PROVE  preview' = working'.style /\ Named'
  BY <1>3, Zenon DEF DropdownNamesProfile, Named
<1>4. ASSUME NEW s \in Style, Change(s)
      PROVE  preview' = working'.style /\ Named'
  <2>1. working'.id = working.id
    BY <1>4 DEF Change, Typed, PageTyped, Profile
  <2>2. open /\ UNCHANGED <<list, selected, original>> /\ preview' = working'.style
    BY <1>4, Zenon DEF Change, InStudio, RefreshPreview
  <2> QED BY <1>3, <2>1, <2>2, Zenon
<1>5. CASE DuplicateProfile
  <2>1. preview' = working'.style
    BY <1>5, Duplicated DEF DuplicateProfile, InStudio, DropdownNamesProfile
  <2>2. CASE selected' = EntryOf(list', working') /\ original' = NoId
    BY <2>1, <2>2, NamedAnew
  <2>3. CASE original' = Original /\ UNCHANGED <<list, selected>>
    <3>1. Named
      BY <1>5, Zenon DEF DuplicateProfile, InStudio, DropdownNamesProfile, Named
    <3>2. working.id # NoId
      BY DEF Typed, PageTyped, Profile
    <3>3. original' # NoId
      BY <2>3, <3>2 DEF Original
    <3>4. Original \in DOMAIN list => selected = Original
      BY <3>1, Zenon DEF Original, Named
    <3> QED BY <2>1, <2>3, <3>3, <3>4 DEF Named
  <2> QED BY <1>5, <2>2, <2>3, Duplicated, Zenon
<1>6. CASE ReloadFiles
  <2>1. selected' = EntryOf(list', working') /\ preview' = working'.style /\ original' = NoId
    BY <1>6 DEF ReloadFiles
  <2> QED BY <2>1, NamedAnew
<1>7. CASE ApplyProfile \/ (\E n \in Id : EditedByHand(n)) \/ UNCHANGED vars
  <2>1. UNCHANGED <<open, list, working, selected, preview, original>>
    BY <1>7, Zenon DEF ApplyProfile, InStudio, EditedByHand, vars, studioVars
  <2> QED BY <2>1, Zenon DEF DropdownNamesProfile, Named
<1>8. CASE RebuildUi \/ Restart \/ CrashWriting
  BY <1>8, Zenon DEF RebuildUi, Restart, CrashWriting, StartFrom, PageGone
<1> QED BY <1>1, <1>2, <1>4, <1>5, <1>6, <1>7, <1>8, Zenon DEF Next

(* The preview shows what APPLY PROFILE would save, and the dropdown names *)
(* the profile it would be saved as, if that one is in the list; after a   *)
(* DUPLICATE that could not save, it names the profile the working copy    *)
(* was made from instead.  For any profiles                                *)
(* (screen_settings.cpp 486, 507, 621-640).                                *)
THEOREM DropdownAlwaysNamesProfile == Spec => []DropdownNamesProfile
<1>1. Init => DropdownNamesProfile
  BY Zenon DEF Init, NoPage, DropdownNamesProfile
<1>2. Flags /\ Typed /\ DropdownNamesProfile /\ [Next]_vars
        => (Flags /\ Typed /\ DropdownNamesProfile)'
  BY TypedStep, DropdownStep, Zenon
<1> QED BY InitTyped, <1>1, <1>2, PTL DEF Spec
=============================================================================
