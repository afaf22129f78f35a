--------------------------------- MODULE Setup ---------------------------------
(***************************************************************************)
(* `intervu setup`: it writes the Skill and merges a SessionStart hook     *)
(* into settings.json of one .claude directory.  The Skill is written in   *)
(* place; settings.json is read, merged, written to settings.json.tmp and  *)
(* renamed, without a lock and under one fixed tmp name.  Several setups   *)
(* may run at once (two shells, two versions of intervu), any of them may  *)
(* fail or be killed, and the human and the harness edit the same files.   *)
(*                                                                         *)
(* A name stands for an inode: a write goes to the file that was opened,   *)
(* whatever its name is by then.                                           *)
(***************************************************************************)
EXTENDS Naturals, FiniteSets

CONSTANTS
  Setups,       \* the runs of setup
  scope,        \* [Setups -> Scope]: which halves a run wires
  markdown,     \* [Setups -> Versions]: the Skill baked into its binary
  MaxEdits,     \* bound: edits of the files by others
  MaxFailures   \* bound: runs that fail on their own or are killed

Scope == {"both", "skill-only", "hook-only"}

Versions == {"old", "new"}

ASSUME SetupAssumption ==
  /\ IsFiniteSet(Setups)
  /\ scope \in [Setups -> Scope]
  /\ markdown \in [Setups -> Versions]
  /\ MaxEdits \in Nat /\ MaxFailures \in Nat

VARIABLES
  pc,         \* [Setups -> Step]
  merged,     \* [Setups -> Settings]: what a run is about to write
  file,       \* [Setups -> Inodes]: the file it opened as settings.json.tmp
  skill,      \* SKILL.md
  name,       \* [{"settings", "tmp"} -> Inodes]: settings.json and settings.json.tmp
  disk,       \* [Inodes -> Settings]
  made,       \* the foreign settings made so far: 1..made
  failures,   \* runs that failed on their own or were killed
  before,     \* history: [Setups -> Nat]: how many of them there were when a run read the file
  alone,      \* history: runs that no other run has overlapped
  meddled     \* history: runs during which others undid what setup wires

files   == <<skill, name, disk>>
history == <<before, alone, meddled>>
vars == <<pc, merged, file, skill, name, disk, made, failures, before, alone, meddled>>

Step == {"idle", "skillRead", "skillOpen", "skillWrite",
         "hookRead", "tmpOpen", "tmpWrite", "rename", "done", "failed"}

running == {s \in Setups : pc[s] \notin {"idle", "done", "failed"}}

\* The foreign settings in the file, how many SessionStart entries run intervu, and whether
\* it can be decoded.  A missing, an empty and a "{}" file are the same to every reader.
Settings == [edits : SUBSET Nat, hooks : Nat, ok : BOOLEAN]

Empty == [edits |-> {}, hooks |-> 0, ok |-> TRUE]

NoFile == 0

Inodes == 0..(Cardinality(Setups) + 1)

Skills == Versions \union {"none", "empty", "torn", "drifted"}

settings == disk[name["settings"]]

(***************************************************************************)
(* Types, and: settings.json and the tmp file are two files.               *)
(***************************************************************************)
TypeOK ==
  /\ pc \in [Setups -> Step]
  /\ merged \in [Setups -> Settings]
  /\ file \in [Setups -> Inodes]
  /\ skill \in Skills
  /\ name \in [{"settings", "tmp"} -> Inodes]
  /\ disk \in [Inodes -> Settings]
  /\ made \in 0..MaxEdits /\ failures \in 0..MaxFailures
  /\ before \in [Setups -> Nat]
  /\ alone \subseteq Setups /\ meddled \subseteq Setups
  /\ name["settings"] # NoFile /\ name["tmp"] # name["settings"]

\* Before the first run somebody may have settings and an older Skill.
Init ==
  /\ pc = [s \in Setups |-> "idle"]
  /\ merged = [s \in Setups |-> Empty]
  /\ file = [s \in Setups |-> NoFile]
  /\ skill \in {"none", "drifted"}
  /\ name = [n \in {"settings", "tmp"} |-> IF n = "settings" THEN 1 ELSE NoFile]
  /\ disk = [i \in Inodes |-> Empty]
  /\ made = 0 /\ failures = 0
  /\ before = [s \in Setups |-> 0]
  /\ alone = {} /\ meddled = {}

------------------------------------------------------------------------------
Goto(s, step) == pc' = [pc EXCEPT ![s] = step]

\* After the Skill comes the hook, unless it is out of scope.
afterSkill(s) == IF scope[s] = "skill-only" THEN "done" ELSE "hookRead"

\* intervu is not on the PATH, there is no home, or the flags contradict each other.
Refuse(s) ==
  /\ pc[s] = "idle"
  /\ Goto(s, "failed")
  /\ UNCHANGED <<merged, file, made, failures, files, history>>

install(s) ==
  /\ pc[s] = "idle"
  /\ Goto(s, IF scope[s] = "hook-only" THEN "hookRead" ELSE "skillRead")
  /\ alone' = IF running = {} THEN alone \union {s} ELSE alone \ running
  /\ UNCHANGED <<merged, file, made, failures, files, before, meddled>>

------------------------------------------------------------------------------
(***************************************************************************)
(* The Skill.  A file is truncated and then written; where another writer  *)
(* was in between, the longer of two contents sticks out.                  *)
(***************************************************************************)
\* Mutant: a file that is there is never rewritten.
ReadSkill_IfExists(s) ==
  /\ pc[s] = "skillRead"
  /\ Goto(s, IF skill # "none" THEN afterSkill(s) ELSE "skillOpen")
  /\ UNCHANGED <<merged, file, made, failures, files, history>>

ReadSkill(s) ==
  /\ pc[s] = "skillRead"
  /\ Goto(s, IF skill = markdown[s] THEN afterSkill(s) ELSE "skillOpen")
  /\ UNCHANGED <<merged, file, made, failures, files, history>>

OpenSkill(s) ==
  /\ pc[s] = "skillOpen"
  /\ Goto(s, "skillWrite")
  /\ skill' = "empty"
  /\ UNCHANGED <<merged, file, name, disk, made, failures, history>>

WriteSkill(s) ==
  /\ pc[s] = "skillWrite"
  /\ Goto(s, afterSkill(s))
  /\ skill' \in (IF skill \in {"empty", markdown[s]} THEN {markdown[s]} ELSE {markdown[s], "torn"})
  /\ UNCHANGED <<merged, file, name, disk, made, failures, history>>

------------------------------------------------------------------------------
(***************************************************************************)
(* The hook.                                                               *)
(***************************************************************************)
\* Mutants: the group is appended whatever there is; the rest of the file is not kept.
mergeHook_Appends(c) == [c EXCEPT !.hooks = @ + 1]
mergeHook_Alone(c)   == IF c.hooks > 0 THEN c ELSE [Empty EXCEPT !.hooks = 1]

mergeHook(c) == IF c.hooks > 0 THEN c ELSE [c EXCEPT !.hooks = 1]

\* A file that cannot be decoded is refused, one that has the hook is left alone.
ReadSettings(s) ==
  /\ pc[s] = "hookRead"
  /\ LET changed == mergeHook(settings) # settings
     IN  Goto(s, IF ~settings.ok THEN "failed" ELSE IF changed THEN "tmpOpen" ELSE "done")
  /\ merged' = [merged EXCEPT ![s] = mergeHook(settings)]
  /\ before' = [before EXCEPT ![s] = made]
  /\ UNCHANGED <<file, made, failures, files, alone, meddled>>

\* Inodes that no name and no open file holds.
free == {i \in Inodes \ {NoFile} : i # name["settings"] /\ i # name["tmp"]
                                     /\ \A s \in running : i # file[s]}

\* Mutant: settings.json itself is opened.
OpenTmp_InPlace(s) ==
  /\ pc[s] = "tmpOpen"
  /\ Goto(s, "tmpWrite")
  /\ file' = [file EXCEPT ![s] = name["settings"]]
  /\ disk' = [disk EXCEPT ![name["settings"]] = Empty]
  /\ UNCHANGED <<merged, skill, name, made, failures, history>>

\* open(O_CREAT | O_TRUNC) of settings.json.tmp.
OpenTmp(s) ==
  /\ pc[s] = "tmpOpen"
  /\ Goto(s, "tmpWrite")
  /\ \E i \in Inodes :
       /\ IF name["tmp"] # NoFile THEN i = name["tmp"] ELSE i \in free /\ \A f \in free : i <= f
       /\ name' = [name EXCEPT !["tmp"] = i]
       /\ file' = [file EXCEPT ![s] = i]
       /\ disk' = [disk EXCEPT ![i] = Empty]
  /\ UNCHANGED <<merged, skill, made, failures, history>>

\* What a write over a file makes of it, when others may have written to it since.
overwrite(old, new) == IF old \in {Empty, new} THEN {new} ELSE {new, [new EXCEPT !.ok = FALSE]}

WriteTmp(s) ==
  /\ pc[s] = "tmpWrite"
  /\ Goto(s, "rename")
  /\ \E c \in overwrite(disk[file[s]], merged[s]) : disk' = [disk EXCEPT ![file[s]] = c]
  /\ UNCHANGED <<merged, file, skill, name, made, failures, history>>

\* Mutant: the file is linked in place of renamed.
Rename_Links(s) ==
  /\ pc[s] = "rename" /\ name["tmp"] # NoFile
  /\ Goto(s, "done")
  /\ name' = [name EXCEPT !["settings"] = name["tmp"]]
  /\ UNCHANGED <<merged, file, skill, disk, made, failures, history>>

\* Whatever file has the tmp name becomes settings.json; without one the rename fails.
Rename(s) ==
  /\ pc[s] = "rename"
  /\ IF name["tmp"] = NoFile
       THEN Goto(s, "failed") /\ UNCHANGED name
       ELSE /\ Goto(s, "done")
            /\ name' = [n \in {"settings", "tmp"} |-> IF n = "settings" THEN name["tmp"] ELSE NoFile]
  /\ UNCHANGED <<merged, file, skill, disk, made, failures, history>>

\* A read, a directory, a write or a rename fails, or the process is killed, perhaps with
\* half of a write done.
Fail(s) ==
  /\ s \in running /\ failures < MaxFailures
  /\ failures' = failures + 1
  /\ Goto(s, "failed")
  /\ \/ UNCHANGED files
     \/ pc[s] = "skillWrite" /\ skill' = "torn" /\ UNCHANGED <<name, disk>>
     \/ pc[s] = "tmpWrite" /\ disk' = [disk EXCEPT ![file[s]].ok = FALSE] /\ UNCHANGED <<skill, name>>
  /\ UNCHANGED <<merged, file, made, history>>

------------------------------------------------------------------------------
(***************************************************************************)
(* Others edit the files: a setting is added; intervu's hook is taken out, *)
(* the file is left malformed or mended by hand, the Skill is edited.      *)
(***************************************************************************)
Rewrite(c) == disk' = [disk EXCEPT ![name["settings"]] = c]

AddSetting ==
  /\ settings.ok /\ made < MaxEdits
  /\ made' = made + 1
  /\ Rewrite([settings EXCEPT !.edits = @ \union {made + 1}])
  /\ UNCHANGED <<pc, merged, file, skill, name, failures, history>>

Undo ==
  /\ made < MaxEdits
  /\ made' = made + 1
  /\ \/ settings.hooks > 0 /\ Rewrite([settings EXCEPT !.hooks = 0]) /\ UNCHANGED skill
     \/ Rewrite([settings EXCEPT !.ok = ~@]) /\ UNCHANGED skill
     \/ skill' = "drifted" /\ UNCHANGED disk
  /\ meddled' = meddled \union running
  /\ UNCHANGED <<pc, merged, file, name, failures, before, alone>>

------------------------------------------------------------------------------
Run(s) ==
  \/ Refuse(s) \/ install(s)
  \/ ReadSkill(s) \/ OpenSkill(s) \/ WriteSkill(s)
  \/ ReadSettings(s) \/ OpenTmp(s) \/ WriteTmp(s) \/ Rename(s)

Next ==
  \/ \E s \in Setups : Run(s) \/ Fail(s)
  \/ AddSetting \/ Undo

Spec == Init /\ [][Next]_vars

------------------------------------------------------------------------------
(***************************************************************************)
(* Properties.                                                             *)
(***************************************************************************)
\* However many runs there are, in parallel, after failures and on top of each other, the
\* settings never have the hook twice (ClaudeSettings.ts mergeHook).
OneHook == settings.hooks <= 1

\* A run that no other run overlaps takes no foreign setting away but one that was made
\* after it read the file: there is no lock, and what it renames is what it read.
EditsSurvive ==
  [][\A n \in settings.edits \ settings'.edits :
       \E s \in running : s \notin alone \/ n > before[s]]_vars

\* A file that could be decoded is made malformed only by hand or by runs that overlap on the
\* one tmp file: alone, neither a failing write nor a crash nor what an earlier run left
\* behind corrupts it (Setup.ts:129 "so a crash mid-write never corrupts the user's config").
NeverCorruptedAlone ==
  [][settings.ok /\ ~settings'.ok => Undo \/ \E s \in running : s \notin alone]_vars

\* A run that reports success has wired what it was asked for, whatever earlier runs left half
\* done, if it ran alone and nobody undid it meanwhile.
DoneMeansWired ==
  [][\A s \in alone \ meddled :
       pc[s] # "done" /\ pc'[s] = "done"
         => /\ scope[s] # "hook-only" => skill' = markdown[s]
            /\ scope[s] # "skill-only" => settings'.hooks = 1 /\ settings'.ok]_vars

==============================================================================
