------------------------------ MODULE SetupProofs ------------------------------
(***************************************************************************)
(* What holds of setup for any number of runs, edits and failures.         *)
(***************************************************************************)
EXTENDS Setup, FiniteSetTheorems, TLAPS

USE DEF files, history

LEMMA CardinalityOfSetups == Cardinality(Setups) \in Nat
  BY SetupAssumption, FS_CardinalityType

\* The merge keeps the foreign settings, and leaves one entry where there was none.
LEMMA MergeHook ==
  ASSUME NEW c \in Settings
  PROVE  /\ mergeHook(c) \in Settings
         /\ mergeHook(c).edits = c.edits
         /\ mergeHook(c).ok = c.ok
         /\ mergeHook(c).hooks > 0
         /\ c.hooks <= 1 => mergeHook(c).hooks <= 1
         /\ mergeHook(c) = c => c.hooks > 0
  BY DEF mergeHook, Settings

LEMMA EmptyType == Empty \in Settings
  BY DEF Empty, Settings

LEMMA TypeInit == Init => TypeOK
  <1> SUFFICES ASSUME Init PROVE TypeOK
    OBVIOUS
  <1>1. 0 \in Inodes /\ 1 \in Inodes
    BY CardinalityOfSetups DEF Inodes
  <1> QED BY <1>1, EmptyType, SetupAssumption DEF Init, TypeOK, Step, Skills, NoFile

\* The other edits of a file's content.
LEMMA EditsOf ==
  ASSUME NEW c \in Settings
  PROVE  /\ [c EXCEPT !.ok = FALSE] \in Settings
         /\ [c EXCEPT !.ok = FALSE].edits = c.edits
         /\ [c EXCEPT !.ok = FALSE].hooks = c.hooks
         /\ [c EXCEPT !.ok = ~@] \in Settings
         /\ [c EXCEPT !.ok = ~@].edits = c.edits
         /\ [c EXCEPT !.ok = ~@].hooks = c.hooks
         /\ [c EXCEPT !.hooks = 0] \in Settings
         /\ [c EXCEPT !.hooks = 0].edits = c.edits
         /\ [c EXCEPT !.hooks = 0].ok = c.ok
         /\ [c EXCEPT !.hooks = 0].hooks = 0
  BY DEF Settings

LEMMA AddedSetting ==
  ASSUME NEW c \in Settings, NEW n \in Nat
  PROVE  /\ [c EXCEPT !.edits = @ \union {n}] \in Settings
         /\ [c EXCEPT !.edits = @ \union {n}].edits = c.edits \union {n}
         /\ [c EXCEPT !.edits = @ \union {n}].ok = c.ok
         /\ [c EXCEPT !.edits = @ \union {n}].hooks = c.hooks
  BY DEF Settings

LEMMA Overwrite ==
  ASSUME NEW old, NEW new \in Settings, NEW c \in overwrite(old, new)
  PROVE  /\ c \in Settings
         /\ c.hooks = new.hooks
         /\ old = Empty => c = new
  <1>1. c = new \/ c = [new EXCEPT !.ok = FALSE]
    BY DEF overwrite
  <1>2. old = Empty => c = new
    BY DEF overwrite
  <1> QED BY <1>1, <1>2, EditsOf

LEMMA SettingsType == TypeOK => settings \in Settings /\ name["settings"] \in Inodes
  BY DEF TypeOK, settings

LEMMA TypeStep == TypeOK /\ [Next]_vars => TypeOK'
  <1> SUFFICES ASSUME TypeOK, [Next]_vars PROVE TypeOK'
    OBVIOUS
  <1> USE SetupAssumption DEF TypeOK, Step, Goto
  <1>1. ASSUME NEW s \in Setups, Refuse(s) PROVE TypeOK'
    BY <1>1 DEF Refuse
  <1>2. ASSUME NEW s \in Setups, install(s) PROVE TypeOK'
    BY <1>2 DEF install, running
  <1>3. ASSUME NEW s \in Setups, ReadSkill(s) PROVE TypeOK'
    BY <1>3 DEF ReadSkill, afterSkill
  <1>4. ASSUME NEW s \in Setups, OpenSkill(s) PROVE TypeOK'
    BY <1>4 DEF OpenSkill, Skills
  <1>5. ASSUME NEW s \in Setups, WriteSkill(s) PROVE TypeOK'
    BY <1>5 DEF WriteSkill, afterSkill, Skills
  <1>6. ASSUME NEW s \in Setups, ReadSettings(s) PROVE TypeOK'
    <2>1. mergeHook(settings) \in Settings
      BY SettingsType, MergeHook
    <2> QED BY <1>6, <2>1 DEF ReadSettings
  <1>7. ASSUME NEW s \in Setups, OpenTmp(s) PROVE TypeOK'
    <2>1. PICK i \in Inodes :
            /\ name' = [name EXCEPT !["tmp"] = i]
            /\ file' = [file EXCEPT ![s] = i]
            /\ disk' = [disk EXCEPT ![i] = Empty]
            /\ i # name["settings"]
      BY <1>7 DEF OpenTmp, free
    <2>2. /\ name' \in [{"settings", "tmp"} -> Inodes]
          /\ name'["settings"] = name["settings"] /\ name'["tmp"] = i
      BY <2>1
    <2>3. disk' \in [Inodes -> Settings] /\ file' \in [Setups -> Inodes]
      BY <2>1, EmptyType
    <2> QED BY <1>7, <2>1, <2>2, <2>3 DEF OpenTmp
  <1>8. ASSUME NEW s \in Setups, WriteTmp(s) PROVE TypeOK'
    <2>1. PICK c \in overwrite(disk[file[s]], merged[s]) : disk' = [disk EXCEPT ![file[s]] = c]
      BY <1>8 DEF WriteTmp
    <2>2. merged[s] \in Settings
      OBVIOUS
    <2>3. c \in Settings
      BY <2>1, <2>2, Overwrite
    <2> QED BY <1>8, <2>1, <2>3 DEF WriteTmp
  <1>9. ASSUME NEW s \in Setups, Rename(s) PROVE TypeOK'
    <2>1. CASE name["tmp"] = NoFile
      BY <1>9, <2>1 DEF Rename
    <2>2. CASE name["tmp"] # NoFile
      <3>1. /\ name' = [n \in {"settings", "tmp"} |-> IF n = "settings" THEN name["tmp"] ELSE NoFile]
            /\ pc' = [pc EXCEPT ![s] = "done"]
        BY <1>9, <2>2 DEF Rename
      <3>2. NoFile \in Inodes
        BY CardinalityOfSetups DEF NoFile, Inodes
      <3> QED BY <1>9, <2>2, <3>1, <3>2 DEF Rename
    <2> QED BY <2>1, <2>2
  <1>10. ASSUME NEW s \in Setups, Fail(s) PROVE TypeOK'
    <2>1. [disk[file[s]] EXCEPT !.ok = FALSE] \in Settings
      BY EditsOf
    <2>2. disk' \in [Inodes -> Settings]
      BY <1>10, <2>1 DEF Fail
    <2> QED BY <1>10, <2>2 DEF Fail, Skills
  <1>11. ASSUME NEW c \in Settings, Rewrite(c) PROVE disk' \in [Inodes -> Settings]
    BY <1>11, SettingsType DEF Rewrite
  <1>12. CASE AddSetting
    <2>1. [settings EXCEPT !.edits = @ \union {made + 1}] \in Settings
      <3>1. made + 1 \in Nat
        OBVIOUS
      <3> QED BY <3>1, SettingsType, AddedSetting
    <2> QED BY <1>11, <1>12, <2>1 DEF AddSetting
  <1>13. CASE Undo
    <2>1. [settings EXCEPT !.hooks = 0] \in Settings /\ [settings EXCEPT !.ok = ~@] \in Settings
      BY SettingsType, EditsOf
    <2>2. disk' \in [Inodes -> Settings]
      BY <1>11, <1>13, <2>1 DEF Undo
    <2> QED BY <1>13, <2>2 DEF Undo, running, Skills
  <1>14. CASE UNCHANGED vars
    BY <1>14 DEF vars
  <1> QED BY <1>1, <1>2, <1>3, <1>4, <1>5, <1>6, <1>7, <1>8, <1>9, <1>10, <1>12, <1>13, <1>14
          DEF Next, Run

(***************************************************************************)
(* Every run, the two files and what is in them keep their types, and      *)
(* settings.json and the tmp file are never one file.                      *)
(***************************************************************************)
THEOREM TypeCorrect == Spec => []TypeOK
  BY TypeInit, TypeStep, PTL DEF Spec

------------------------------------------------------------------------------
(***************************************************************************)
(* At most one hook: in every file there is or ever will be.               *)
(***************************************************************************)
HooksInv ==
  /\ \A i \in Inodes : disk[i].hooks <= 1
  /\ \A s \in Setups : merged[s].hooks <= 1

LEMMA HooksInit == Init => HooksInv
  BY DEF Init, HooksInv, Empty

\* A step that changes at most the content of one file, to something with at most one hook.
LEMMA OneFile ==
  ASSUME TypeOK, HooksInv, NEW i \in Inodes, NEW c \in Settings, c.hooks <= 1,
         disk' = disk \/ disk' = [disk EXCEPT ![i] = c], UNCHANGED merged
  PROVE  HooksInv'
  BY DEF HooksInv, TypeOK

LEMMA HooksStep == TypeOK /\ HooksInv /\ [Next]_vars => HooksInv'
  <1> SUFFICES ASSUME TypeOK, HooksInv, [Next]_vars PROVE HooksInv'
    OBVIOUS
  <1>1. settings \in Settings /\ name["settings"] \in Inodes /\ settings.hooks <= 1
    BY SettingsType DEF HooksInv, settings
  <1>2. CASE UNCHANGED <<disk, merged>>
    BY <1>2 DEF HooksInv
  <1>3. ASSUME NEW s \in Setups, ReadSettings(s) PROVE HooksInv'
    <2>1. mergeHook(settings).hooks <= 1
      BY <1>1, MergeHook
    <2> QED BY <1>3, <2>1 DEF ReadSettings, HooksInv, TypeOK
  <1>4. ASSUME NEW s \in Setups, OpenTmp(s) PROVE HooksInv'
    <2>1. PICK i \in Inodes : disk' = [disk EXCEPT ![i] = Empty]
      BY <1>4 DEF OpenTmp
    <2>2. Empty.hooks <= 1
      BY DEF Empty
    <2> QED BY <1>4, <2>1, <2>2, EmptyType, OneFile DEF OpenTmp
  <1>5. ASSUME NEW s \in Setups, WriteTmp(s) PROVE HooksInv'
    <2>1. PICK c \in overwrite(disk[file[s]], merged[s]) : disk' = [disk EXCEPT ![file[s]] = c]
      BY <1>5 DEF WriteTmp
    <2>2. merged[s] \in Settings /\ file[s] \in Inodes /\ merged[s].hooks <= 1
      BY DEF TypeOK, HooksInv
    <2>3. c \in Settings /\ c.hooks <= 1
      BY <2>1, <2>2, Overwrite
    <2> QED BY <1>5, <2>1, <2>2, <2>3, OneFile DEF WriteTmp
  <1>6. ASSUME NEW s \in Setups, Fail(s) PROVE HooksInv'
    <2>1. file[s] \in Inodes /\ disk[file[s]] \in Settings /\ disk[file[s]].hooks <= 1
      BY DEF TypeOK, HooksInv
    <2> DEFINE c == [disk[file[s]] EXCEPT !.ok = FALSE]
    <2>2. c \in Settings /\ c.hooks <= 1
      BY <2>1, EditsOf
    <2>3. disk' = disk \/ disk' = [disk EXCEPT ![file[s]] = c]
      BY <1>6 DEF Fail
    <2>4. UNCHANGED merged
      BY <1>6 DEF Fail
    <2> HIDE DEF c
    <2> QED BY <2>1, <2>2, <2>3, <2>4, OneFile
  <1>7. ASSUME NEW c \in Settings, c.hooks <= 1, Rewrite(c), UNCHANGED merged PROVE HooksInv'
    BY <1>1, <1>7, OneFile DEF Rewrite
  <1>8. CASE AddSetting
    <2> DEFINE c == [settings EXCEPT !.edits = @ \union {made + 1}]
    <2>1. made + 1 \in Nat
      BY SetupAssumption DEF TypeOK
    <2>2. c \in Settings /\ c.hooks <= 1
      BY <1>1, <2>1, AddedSetting
    <2>3. Rewrite(c) /\ UNCHANGED merged
      BY <1>8 DEF AddSetting
    <2> HIDE DEF c
    <2> QED BY <1>7, <2>2, <2>3
  <1>9. CASE Undo
    <2> DEFINE c == [settings EXCEPT !.hooks = 0]
               d == [settings EXCEPT !.ok = ~@]
    <2>1. c \in Settings /\ c.hooks <= 1
      <3>1. c \in Settings /\ c.hooks = 0
        BY <1>1, EditsOf
      <3> HIDE DEF c
      <3> QED BY <3>1
    <2>3. d \in Settings /\ d.hooks <= 1
      BY <1>1, EditsOf
    <2>2. UNCHANGED merged /\ (Rewrite(c) \/ Rewrite(d) \/ UNCHANGED disk)
      BY <1>9 DEF Undo
    <2> HIDE DEF c, d
    <2> QED BY <1>2, <1>7, <2>1, <2>2, <2>3
  <1> QED
    BY <1>2, <1>3, <1>4, <1>5, <1>6, <1>8, <1>9
       DEF Next, Run, vars, Refuse, install, ReadSkill, OpenSkill, WriteSkill, Rename

(***************************************************************************)
(* Settings never have the hook twice, whatever runs overlap and fail.     *)
(***************************************************************************)
THEOREM NeverTwoHooks == Spec => []OneHook
  <1>1. TypeOK /\ HooksInv => OneHook
    BY SettingsType DEF HooksInv, OneHook, settings
  <1> QED BY TypeInit, TypeStep, HooksInit, HooksStep, <1>1, PTL DEF Spec

------------------------------------------------------------------------------
(***************************************************************************)
(* A run that nobody overlaps: the tmp file is its own, what it is about   *)
(* to write holds every setting that was there when it read the file, and  *)
(* what it has read was in order.                                          *)
(***************************************************************************)
Holds(s) ==
  /\ before[s] <= made
  /\ pc[s] \in {"tmpOpen", "tmpWrite", "rename"} =>
       /\ \A n \in settings.edits : n <= before[s] => n \in merged[s].edits
       /\ merged[s].ok /\ merged[s].hooks > 0
  /\ pc[s] = "tmpWrite" => name["tmp"] = file[s] /\ file[s] # NoFile /\ disk[file[s]] = Empty
  /\ pc[s] = "rename" => name["tmp"] # NoFile /\ disk[name["tmp"]] = merged[s]

Undisturbed(s) ==
  /\ pc[s] # "idle"
  /\ s \in running => running \subseteq {s}
  /\ Holds(s)

AloneInv == \A s \in alone : Undisturbed(s)

\* What a run has read lies in the past, also of a run that has yet to read.
ReadInv == \A s \in Setups : before[s] <= made

LEMMA ReadStep == TypeOK /\ ReadInv /\ [Next]_vars => ReadInv'
  <1> SUFFICES ASSUME TypeOK, ReadInv, [Next]_vars PROVE ReadInv'
    OBVIOUS
  <1>1. made \in Nat /\ \A s \in Setups : before[s] \in Nat
    BY SetupAssumption DEF TypeOK
  <1>2. CASE made' \in {made, made + 1} /\ UNCHANGED before
    BY <1>1, <1>2 DEF ReadInv
  <1>3. ASSUME NEW s \in Setups, ReadSettings(s) PROVE ReadInv'
    BY <1>1, <1>3 DEF ReadSettings, ReadInv, TypeOK
  <1> QED
    BY <1>2, <1>3 DEF Next, Run, vars, Refuse, install, ReadSkill, OpenSkill, WriteSkill,
                      OpenTmp, WriteTmp, Rename, Fail, AddSetting, Undo

LEMMA AloneInit == Init => ReadInv /\ AloneInv
  BY SetupAssumption DEF Init, ReadInv, AloneInv

\* A step of one run leaves the others' facts alone: those that ran alone have ended.
LEMMA OtherRuns ==
  ASSUME TypeOK, AloneInv, NEW s \in Setups, NEW to, to # "idle",
         pc' = [pc EXCEPT ![s] = to],
         \/ pc[s] \notin {"idle", "done", "failed"} /\ alone' = alone
         \/ alone' \subseteq (alone \ running) \union {s},
         \A t \in Setups \ {s} : before'[t] = before[t],
         made' = made, s \in alone' => Undisturbed(s)'
  PROVE  AloneInv'
  <1> SUFFICES ASSUME NEW t \in alone' PROVE Undisturbed(t)'
    BY DEF AloneInv
  <1>1. CASE t = s
    BY <1>1
  <1>2. CASE t # s
    <2>1. t \in alone /\ t \in Setups /\ Undisturbed(t)
      BY <1>2 DEF AloneInv, TypeOK
    <2>2. t \notin running
      BY <1>2, <2>1 DEF running, Undisturbed
    <2>3. pc[t] \in {"done", "failed"} /\ pc'[t] = pc[t]
      BY <1>2, <2>1, <2>2 DEF running, Undisturbed, TypeOK
    <2>4. t \notin running'
      BY <2>3 DEF running
    <2> QED BY <1>2, <2>1, <2>3, <2>4 DEF Undisturbed, Holds
  <1> QED BY <1>1, <1>2

LEMMA OwnStep ==
  ASSUME TypeOK, AloneInv, NEW s \in running, NEW to, to # "idle",
         pc' = [pc EXCEPT ![s] = to], UNCHANGED <<alone, made>>,
         \A t \in Setups \ {s} : before'[t] = before[t],
         s \in alone => Holds(s)'
  PROVE  AloneInv'
  <1>1. s \in Setups /\ pc[s] \notin {"idle", "done", "failed"} /\ running' \subseteq running
    BY DEF running, TypeOK
  <1>2. ASSUME s \in alone PROVE Undisturbed(s)'
    <2>1. running \subseteq {s}
      BY <1>2 DEF AloneInv, Undisturbed
    <2> QED BY <1>1, <1>2, <2>1 DEF Undisturbed, TypeOK
  <1> QED BY <1>1, <1>2, OtherRuns

\* The same for an edit of settings.json by others, or of the Skill.
LEMMA ForeignEdit ==
  ASSUME TypeOK, AloneInv, UNCHANGED <<pc, merged, file, name, before, alone>>,
         made' \in {made, made + 1},
         \A i \in Inodes : i # name["settings"] => disk'[i] = disk[i],
         \A n \in settings'.edits : n \in settings.edits \/ n = made + 1
  PROVE  AloneInv'
  <1> SUFFICES ASSUME NEW s \in alone PROVE Undisturbed(s)'
    BY DEF AloneInv
  <1>1. Undisturbed(s) /\ s \in Setups
    BY DEF AloneInv, TypeOK
  <1>2. before[s] \in Nat /\ made \in Nat /\ before'[s] = before[s] /\ before[s] < made + 1
    BY <1>1, SetupAssumption DEF TypeOK, Undisturbed, Holds
  <1>3. running' = running
    BY DEF running
  <1>4. pc[s] \in {"tmpWrite", "rename"} => disk'[name["tmp"]] = disk[name["tmp"]]
    BY <1>1 DEF TypeOK
  <1>5. ASSUME NEW n \in settings'.edits, n <= before[s], pc[s] \in {"tmpOpen", "tmpWrite", "rename"}
        PROVE  n \in merged[s].edits
    <2>1. n # made + 1
      BY <1>2, <1>5
    <2> QED BY <1>1, <1>5, <2>1 DEF Undisturbed, Holds
  <1> QED BY <1>1, <1>2, <1>3, <1>4, <1>5 DEF Undisturbed, Holds

LEMMA AloneStep == TypeOK /\ ReadInv /\ AloneInv /\ [Next]_vars => AloneInv'
  <1> SUFFICES ASSUME TypeOK, ReadInv, AloneInv, [Next]_vars PROVE AloneInv'
    OBVIOUS
  <1> USE DEF Goto
  <1>1. ASSUME NEW s \in Setups, Refuse(s) PROVE AloneInv'
    <2>1. s \notin alone /\ s \notin running /\ running' = running
      BY <1>1 DEF AloneInv, Undisturbed, Refuse, running, TypeOK
    <2>2. UNCHANGED <<merged, file, name, disk, made, before, alone, settings>>
      BY <1>1 DEF Refuse, settings
    <2>3. \A t \in Setups \ {s} : pc'[t] = pc[t]
      BY <1>1 DEF Refuse, TypeOK
    <2> QED BY <2>1, <2>2, <2>3 DEF AloneInv, Undisturbed, Holds, TypeOK
  <1>2. ASSUME NEW s \in Setups, install(s) PROVE AloneInv'
    <2>1. pc[s] = "idle" /\ s \notin alone
      BY <1>2 DEF install, AloneInv, Undisturbed
    <2>2. ASSUME s \in alone' PROVE Undisturbed(s)'
      <3>1. running = {}
        BY <1>2, <2>1, <2>2 DEF install
      <3>2. running' \subseteq {s}
        BY <1>2, <3>1 DEF install, running, TypeOK
      <3>3. pc'[s] \in {"hookRead", "skillRead"} /\ before'[s] <= made'
        BY <1>2 DEF install, ReadInv, TypeOK
      <3> QED BY <3>2, <3>3 DEF Undisturbed, Holds
    <2>3. alone' \subseteq (alone \ running) \union {s}
      BY <1>2, <2>1 DEF install
    <2>4. PICK to \in {"hookRead", "skillRead"} : pc' = [pc EXCEPT ![s] = to]
      BY <1>2 DEF install
    <2> QED BY <1>2, <2>2, <2>3, <2>4, OtherRuns DEF install
  <1>3. ASSUME NEW s \in Setups, ReadSkill(s) \/ OpenSkill(s) \/ WriteSkill(s) PROVE AloneInv'
    <2>1. PICK to \in {"skillOpen", "skillWrite", "done", "hookRead"} : pc' = [pc EXCEPT ![s] = to]
      BY <1>3 DEF ReadSkill, OpenSkill, WriteSkill, afterSkill
    <2>2. s \in running /\ UNCHANGED <<before, made, alone>>
      BY <1>3 DEF ReadSkill, OpenSkill, WriteSkill, running
    <2>3. s \in alone => Holds(s)'
      BY <2>1, <2>2 DEF AloneInv, Undisturbed, Holds, TypeOK
    <2> QED BY <2>1, <2>2, <2>3, OwnStep
  <1>6. ASSUME NEW s \in Setups, ReadSettings(s) PROVE AloneInv'
    <2>1. PICK to \in {"failed", "tmpOpen", "done"} : pc' = [pc EXCEPT ![s] = to]
      BY <1>6 DEF ReadSettings
    <2>2. /\ merged'[s] = mergeHook(settings) /\ before'[s] = made
          /\ pc'[s] = "tmpOpen" => settings.ok
          /\ settings' = settings
      BY <1>6 DEF ReadSettings, TypeOK, settings
    <2>3. /\ mergeHook(settings).edits = settings.edits
          /\ mergeHook(settings).ok = settings.ok
          /\ mergeHook(settings).hooks > 0
      BY SettingsType, MergeHook
    <2>4. made' = made /\ made \in Nat /\ pc'[s] = to /\ s \in running
      BY <1>6, <2>1, SetupAssumption DEF ReadSettings, TypeOK, running
    <2>5. Holds(s)'
      BY <2>1, <2>2, <2>3, <2>4 DEF Holds
    <2> QED BY <1>6, <2>1, <2>4, <2>5, OwnStep DEF ReadSettings, TypeOK
  <1>7. ASSUME NEW s \in Setups, OpenTmp(s) PROVE AloneInv'
    <2>1. PICK i \in Inodes :
            /\ name' = [name EXCEPT !["tmp"] = i]
            /\ file' = [file EXCEPT ![s] = i]
            /\ disk' = [disk EXCEPT ![i] = Empty]
            /\ i # name["settings"] /\ i # NoFile
      BY <1>7 DEF OpenTmp, free, TypeOK
    <2>2. settings' = settings
      BY <2>1 DEF TypeOK, settings
    <2>3. pc' = [pc EXCEPT ![s] = "tmpWrite"] /\ pc[s] = "tmpOpen" /\ s \in running
      BY <1>7 DEF OpenTmp, running
    <2>4. s \in alone => Holds(s)'
      BY <1>7, <2>1, <2>2, <2>3 DEF OpenTmp, AloneInv, Undisturbed, Holds, TypeOK
    <2> QED BY <1>7, <2>3, <2>4, OwnStep DEF OpenTmp
  <1>8. ASSUME NEW s \in Setups, WriteTmp(s) PROVE AloneInv'
    <2>1. PICK c \in overwrite(disk[file[s]], merged[s]) : disk' = [disk EXCEPT ![file[s]] = c]
      BY <1>8 DEF WriteTmp
    <2>2. pc' = [pc EXCEPT ![s] = "rename"] /\ pc[s] = "tmpWrite" /\ s \in running
      BY <1>8 DEF WriteTmp, running
    <2>3. ASSUME s \in alone PROVE Holds(s)'
      <3>1. Holds(s)
        BY <2>3 DEF AloneInv, Undisturbed
      <3>2. name["tmp"] = file[s] /\ file[s] # NoFile /\ disk[file[s]] = Empty
        BY <2>2, <3>1 DEF Holds
      <3>3. c = merged[s]
        BY <2>1, <3>2, Overwrite DEF TypeOK
      <3>4. settings' = settings
        BY <1>8, <2>1, <3>2 DEF WriteTmp, settings, TypeOK
      <3>5. disk'[name["tmp"]] = merged[s]
        BY <2>1, <3>2, <3>3 DEF TypeOK
      <3> QED BY <1>8, <2>2, <3>1, <3>2, <3>4, <3>5 DEF WriteTmp, Holds, TypeOK
    <2> QED BY <1>8, <2>2, <2>3, OwnStep DEF WriteTmp
  <1>9. ASSUME NEW s \in Setups, Rename(s) \/ Fail(s) PROVE AloneInv'
    <2>1. PICK to \in {"failed", "done"} : pc' = [pc EXCEPT ![s] = to]
      BY <1>9 DEF Rename, Fail
    <2>2. s \in running /\ UNCHANGED <<before, made, alone>>
      BY <1>9 DEF Rename, Fail, running
    <2>3. s \in alone => Holds(s)'
      BY <2>1, <2>2 DEF AloneInv, Undisturbed, Holds, TypeOK
    <2> QED BY <2>1, <2>2, <2>3, OwnStep
  <1>11. CASE AddSetting
    <2>1. made + 1 \in Nat /\ settings \in Settings
      BY SettingsType, SetupAssumption DEF TypeOK
    <2> DEFINE c == [settings EXCEPT !.edits = @ \union {made + 1}]
    <2>2. c.edits = settings.edits \union {made + 1}
      BY <2>1, AddedSetting
    <2>3. disk' = [disk EXCEPT ![name["settings"]] = c] /\ UNCHANGED name
      BY <1>11 DEF AddSetting, Rewrite
    <2> HIDE DEF c
    <2>4. settings' = c
      BY <2>3, SettingsType DEF settings, TypeOK
    <2> QED BY <1>11, <2>2, <2>3, <2>4, ForeignEdit DEF AddSetting, TypeOK
  <1>12. CASE Undo
    <2> DEFINE c == [settings EXCEPT !.hooks = 0]
               d == [settings EXCEPT !.ok = ~@]
    <2>1. c.edits = settings.edits
      BY SettingsType, EditsOf
    <2>2. d.edits = settings.edits
      BY SettingsType, EditsOf
    <2>3. UNCHANGED name /\ \/ disk' = [disk EXCEPT ![name["settings"]] = c]
                             \/ disk' = [disk EXCEPT ![name["settings"]] = d]
                             \/ disk' = disk
      BY <1>12 DEF Undo, Rewrite
    <2> HIDE DEF c, d
    <2>4. settings' \in {c, d, settings}
      BY <2>3, SettingsType DEF settings, TypeOK
    <2> QED BY <1>12, <2>1, <2>2, <2>3, <2>4, ForeignEdit DEF Undo, TypeOK
  <1>13. CASE UNCHANGED vars
    BY <1>13 DEF vars, AloneInv, Undisturbed, Holds, running, settings
  <1> QED BY <1>1, <1>2, <1>3, <1>6, <1>7, <1>8, <1>9, <1>11, <1>12, <1>13 DEF Next, Run

\* What a run does to settings.json: nothing, until it renames what it has merged.
LEMMA OwnFile ==
  ASSUME TypeOK, AloneInv, NEW s \in alone, s \in Setups, Run(s) \/ Fail(s)
  PROVE  \/ settings' = settings
         \/ /\ Rename(s) /\ settings' = merged[s] /\ merged[s].ok /\ merged[s].hooks > 0
            /\ \A n \in settings.edits : n <= before[s] => n \in merged[s].edits
  <1>1. Holds(s)
    BY DEF AloneInv, Undisturbed
  <1>2. CASE UNCHANGED <<name, disk>>
    BY <1>2 DEF settings
  <1>3. CASE OpenTmp(s)
    <2>1. PICK i \in Inodes :
            /\ i # name["settings"]
            /\ name' = [name EXCEPT !["tmp"] = i]
            /\ disk' = [disk EXCEPT ![i] = Empty]
      BY <1>3 DEF OpenTmp, free, TypeOK
    <2> QED BY <2>1 DEF settings, TypeOK
  <1>4. CASE WriteTmp(s) \/ (Fail(s) /\ pc[s] = "tmpWrite")
    <2>1. file[s] = name["tmp"]
      BY <1>1, <1>4 DEF Holds, WriteTmp
    <2>2. \A i \in Inodes : i # file[s] => disk'[i] = disk[i]
      BY <1>4 DEF WriteTmp, Fail, TypeOK
    <2>3. UNCHANGED name
      BY <1>4 DEF WriteTmp, Fail
    <2> QED BY <2>1, <2>2, <2>3 DEF settings, TypeOK
  <1>5. CASE Rename(s)
    <2>1. pc[s] = "rename" /\ name["tmp"] # NoFile /\ disk[name["tmp"]] = merged[s]
      BY <1>1, <1>5 DEF Rename, Holds
    <2>2. settings' = merged[s]
      BY <1>5, <2>1 DEF Rename, settings
    <2> QED BY <1>1, <1>5, <2>1, <2>2 DEF Holds
  <1>6. CASE Fail(s) /\ pc[s] # "tmpWrite"
    BY <1>2, <1>6 DEF Fail
  <1> QED BY <1>2, <1>3, <1>4, <1>5, <1>6
          DEF Run, Refuse, install, ReadSkill, OpenSkill, WriteSkill, ReadSettings

\* A step of setup is a step of a run that is under way.
LEMMA Running ==
  ASSUME TypeOK, NEW s \in Setups, Run(s) \/ Fail(s)
  PROVE  s \in running \/ UNCHANGED <<name, disk>>
  BY DEF Run, Refuse, install, ReadSkill, OpenSkill, WriteSkill, ReadSettings, OpenTmp,
         WriteTmp, Rename, Fail, running

\* What an edit by others keeps.
LEMMA ByHand ==
  ASSUME TypeOK, AddSetting \/ Undo
  PROVE  /\ settings.edits \subseteq settings'.edits
         /\ AddSetting => settings'.ok = settings.ok
  <1>1. ASSUME NEW c, Rewrite(c), UNCHANGED name PROVE settings' = c
    BY <1>1, SettingsType DEF Rewrite, settings, TypeOK
  <1>2. CASE AddSetting
    <2>1. made + 1 \in Nat
      BY SetupAssumption DEF TypeOK
    <2> DEFINE c == [settings EXCEPT !.edits = @ \union {made + 1}]
    <2>2. c.edits = settings.edits \union {made + 1} /\ c.ok = settings.ok
      BY <2>1, SettingsType, AddedSetting
    <2>3. Rewrite(c) /\ UNCHANGED name
      BY <1>2 DEF AddSetting
    <2> HIDE DEF c
    <2> QED BY <1>1, <2>2, <2>3
  <1>3. CASE Undo
    <2> DEFINE c == [settings EXCEPT !.hooks = 0]
               d == [settings EXCEPT !.ok = ~@]
    <2>1. c.edits = settings.edits
      BY SettingsType, EditsOf
    <2>2. d.edits = settings.edits
      BY SettingsType, EditsOf
    <2>3. UNCHANGED name /\ (Rewrite(c) \/ Rewrite(d) \/ UNCHANGED disk)
      BY <1>3 DEF Undo
    <2> HIDE DEF c, d
    <2>4. settings' \in {c, d, settings}
      BY <1>1, <2>3 DEF settings
    <2> QED BY <1>2, <1>3, <2>1, <2>2, <2>4
  <1> QED BY <1>2, <1>3

LEMMA Survive ==
  TypeOK /\ AloneInv /\ [Next]_vars =>
    \A n \in settings.edits \ settings'.edits :
       \E s \in running : s \notin alone \/ n > before[s]
  <1> SUFFICES ASSUME TypeOK, AloneInv, [Next]_vars, NEW n \in settings.edits, n \notin settings'.edits
               PROVE  \E s \in running : s \notin alone \/ n > before[s]
    OBVIOUS
  <1>1. n \in Nat
    BY SettingsType DEF Settings
  <1>2. PICK s \in Setups : Run(s) \/ Fail(s)
    <2>1. CASE UNCHANGED vars
      BY <2>1 DEF vars, settings
    <2> QED BY <2>1, ByHand DEF Next
  <1>3. s \in running
    BY <1>2, Running DEF settings
  <1>4. CASE s \in alone
    <2>1. ~(n <= before[s])
      BY <1>2, <1>4, OwnFile
    <2>2. before[s] \in Nat
      BY DEF TypeOK
    <2> QED BY <1>1, <1>3, <2>1, <2>2
  <1> QED BY <1>3, <1>4

(***************************************************************************)
(* No foreign setting is lost but to runs that overlap, or to one that     *)
(* read the file before the setting was made.                              *)
(***************************************************************************)
THEOREM NoEditIsLost == Spec => EditsSurvive
  BY TypeInit, TypeStep, AloneInit, ReadStep, AloneStep, Survive, PTL DEF Spec, EditsSurvive

LEMMA Uncorrupted ==
  TypeOK /\ AloneInv /\ [Next]_vars =>
    (settings.ok /\ ~settings'.ok => Undo \/ \E s \in running : s \notin alone)
  <1> SUFFICES ASSUME TypeOK, AloneInv, [Next]_vars, settings.ok, ~settings'.ok, ~Undo
               PROVE  \E s \in running : s \notin alone
    OBVIOUS
  <1>1. PICK s \in Setups : Run(s) \/ Fail(s)
    <2>1. CASE UNCHANGED vars
      BY <2>1 DEF vars, settings
    <2> QED BY <2>1, ByHand DEF Next
  <1>2. s \in running
    BY <1>1, Running DEF settings
  <1>3. s \notin alone
    BY <1>1, OwnFile
  <1> QED BY <1>2, <1>3

(***************************************************************************)
(* Alone, neither a failure nor a crash at any step corrupts the file.     *)
(***************************************************************************)
THEOREM NeverCorrupted == Spec => NeverCorruptedAlone
  BY TypeInit, TypeStep, AloneInit, ReadStep, AloneStep, Uncorrupted, PTL
     DEF Spec, NeverCorruptedAlone

------------------------------------------------------------------------------
(***************************************************************************)
(* The Skill is this version's from the moment a run goes on to the hook.  *)
(***************************************************************************)
Wired(s) ==
  /\ pc[s] = "skillWrite" => skill = "empty"
  /\ pc[s] \in {"hookRead", "tmpOpen", "tmpWrite", "rename"} /\ scope[s] # "hook-only"
       => skill = markdown[s]

WiredInv == \A s \in alone \ meddled : Wired(s)

LEMMA WiredInit == Init => WiredInv
  BY DEF Init, WiredInv

LEMMA WiredOwn ==
  ASSUME TypeOK, WiredInv, NEW s \in Setups, Run(s) \/ Fail(s), s \in alone' \ meddled'
  PROVE  Wired(s)'
  <1>1. s \in alone \ meddled => Wired(s)
    BY DEF WiredInv
  <1>2. CASE Refuse(s) \/ Rename(s) \/ Fail(s)
    BY <1>2 DEF Refuse, Rename, Fail, Goto, Wired, TypeOK
  <1>3. CASE install(s)
    BY <1>3 DEF install, Goto, Wired, TypeOK
  <1>4. CASE ReadSkill(s)
    BY <1>1, <1>4 DEF ReadSkill, afterSkill, Goto, Wired, TypeOK
  <1>5. CASE OpenSkill(s)
    BY <1>5 DEF OpenSkill, Goto, Wired, TypeOK
  <1>6. CASE WriteSkill(s)
    BY <1>1, <1>6 DEF WriteSkill, afterSkill, Goto, Wired, TypeOK
  <1>7. CASE ReadSettings(s) \/ OpenTmp(s) \/ WriteTmp(s)
    <2>1. /\ pc[s] \in {"hookRead", "tmpOpen", "tmpWrite"} /\ pc'[s] # "skillWrite"
          /\ UNCHANGED <<skill, alone, meddled>>
      BY <1>7 DEF ReadSettings, OpenTmp, WriteTmp, Goto, TypeOK
    <2> QED BY <1>1, <2>1 DEF Wired
  <1> QED BY <1>2, <1>3, <1>4, <1>5, <1>6, <1>7 DEF Run

LEMMA WiredStep == TypeOK /\ AloneInv /\ WiredInv /\ [Next]_vars => WiredInv'
  <1> SUFFICES ASSUME TypeOK, AloneInv, WiredInv, [Next]_vars, NEW t \in alone' \ meddled'
               PROVE  Wired(t)'
    BY DEF WiredInv
  <1>1. CASE UNCHANGED vars
    BY <1>1 DEF vars, WiredInv, Wired
  <1>2. CASE AddSetting
    BY <1>2 DEF AddSetting, WiredInv, Wired
  <1>3. CASE Undo
    <2>1. t \in alone /\ t \in Setups /\ t \notin running /\ pc' = pc
      BY <1>3 DEF Undo, TypeOK
    <2> QED BY <2>1 DEF running, Wired
  <1>4. ASSUME NEW s \in Setups, Run(s) \/ Fail(s) PROVE Wired(t)'
    <2>1. CASE t = s
      BY <1>4, <2>1, WiredOwn
    <2>2. CASE t # s
      <3>1. /\ t \in alone /\ t \in Setups /\ t \notin meddled /\ pc'[t] = pc[t]
            /\ alone' # alone => install(s)
        BY <1>4, <2>2 DEF Run, Fail, Refuse, install, ReadSkill, OpenSkill, WriteSkill,
             ReadSettings, OpenTmp, WriteTmp, Rename, Goto, TypeOK
      <3>2. CASE t \notin running
        BY <3>1, <3>2 DEF running, Wired
      <3>3. CASE t \in running
        <4>1. s \notin running
          BY <2>2, <3>1, <3>3 DEF AloneInv, Undisturbed
        <4>2. ~install(s)
          BY <2>2, <3>3 DEF install
        <4>3. Refuse(s)
          BY <1>4, <4>1, <4>2 DEF Run, Fail, ReadSkill, OpenSkill, WriteSkill,
               ReadSettings, OpenTmp, WriteTmp, Rename, running
        <4>4. Wired(t)
          BY <3>1 DEF WiredInv
        <4> QED BY <3>1, <4>3, <4>4 DEF Refuse, Wired
      <3> QED BY <3>2, <3>3
    <2> QED BY <2>1, <2>2
  <1> QED BY <1>1, <1>2, <1>3, <1>4 DEF Next

LEMMA Done ==
  TypeOK /\ HooksInv /\ AloneInv /\ WiredInv /\ [Next]_vars =>
    \A s \in alone \ meddled :
      pc[s] # "done" /\ pc'[s] = "done"
        => /\ scope[s] # "hook-only" => skill' = markdown[s]
           /\ scope[s] # "skill-only" => settings'.hooks = 1 /\ settings'.ok
  <1> SUFFICES ASSUME TypeOK, HooksInv, AloneInv, WiredInv, [Next]_vars,
                      NEW s \in alone \ meddled, pc[s] # "done", pc'[s] = "done"
               PROVE  /\ scope[s] # "hook-only" => skill' = markdown[s]
                      /\ scope[s] # "skill-only" => settings'.hooks = 1 /\ settings'.ok
    OBVIOUS
  <1>1. s \in Setups /\ Wired(s) /\ scope[s] \in Scope
    BY SetupAssumption DEF TypeOK, WiredInv
  <1>2. Run(s)
    <2>1. ASSUME NEW t \in Setups, t # s, Run(t) \/ Fail(t) PROVE pc'[s] = pc[s]
      BY <1>1, <2>1 DEF Run, Fail, Refuse, install, ReadSkill, OpenSkill, WriteSkill,
           ReadSettings, OpenTmp, WriteTmp, Rename, Goto, TypeOK
    <2>2. ~Fail(s)
      BY <1>1 DEF Fail, Goto, TypeOK
    <2> QED BY <2>1, <2>2 DEF Next, AddSetting, Undo, vars
  <1>3. CASE ReadSkill(s) \/ WriteSkill(s)
    BY <1>1, <1>3 DEF ReadSkill, WriteSkill, afterSkill, Goto, Wired, TypeOK
  <1>4. CASE ReadSettings(s)
    <2>1. settings.ok /\ mergeHook(settings) = settings /\ UNCHANGED <<skill, settings>>
      BY <1>1, <1>4 DEF ReadSettings, Goto, TypeOK, settings
    <2>2. settings.hooks > 0 /\ settings.hooks <= 1 /\ settings.hooks \in Nat
      BY <2>1, SettingsType, MergeHook DEF HooksInv, settings, Settings
    <2>3. settings.hooks = 1
      BY <2>2
    <2> QED BY <1>1, <1>4, <2>1, <2>3 DEF ReadSettings, Wired
  <1>5. CASE Rename(s)
    <2>1. /\ pc[s] = "rename" /\ name["tmp"] # NoFile /\ UNCHANGED skill
          /\ settings' = disk[name["tmp"]]
      BY <1>1, <1>5 DEF Rename, Goto, TypeOK, settings
    <2>2. settings' = merged[s] /\ merged[s].ok /\ merged[s].hooks > 0
      BY <2>1 DEF AloneInv, Undisturbed, Holds
    <2>3. merged[s].hooks \in Nat /\ merged[s].hooks <= 1
      BY <1>1 DEF TypeOK, Settings, HooksInv
    <2>4. merged[s].hooks = 1
      BY <2>2, <2>3
    <2> QED BY <1>1, <2>1, <2>2, <2>4 DEF Wired
  <1> QED BY <1>1, <1>2, <1>3, <1>4, <1>5
          DEF Run, Refuse, install, OpenSkill, OpenTmp, WriteTmp, Goto, TypeOK

(***************************************************************************)
(* A run that reports success has wired what it was asked to.              *)
(***************************************************************************)
THEOREM DoneIsWired == Spec => DoneMeansWired
  BY TypeInit, TypeStep, HooksInit, HooksStep, AloneInit, ReadStep, AloneStep,
     WiredInit, WiredStep, Done, PTL DEF Spec, DoneMeansWired
==============================================================================
