----------------------------- MODULE ConfigFile -----------------------------
(***************************************************************************)
(* config.yaml: how the loader of internal/config takes it in and how the   *)
(* tool registry puts it back (internal/tools/lifecycle.go, SaveToConfig): *)
(* the file is renamed to config.yaml.backup and a new one is written.     *)
(***************************************************************************)
EXTENDS Integers, FiniteSets

CONSTANTS
  Saver,     \* callers of the tool manager
  Tool,      \* names of tools
  MaxStamp   \* bound on the modification times

ASSUME ConfigAssumption ==
  /\ IsFiniteSet(Saver) /\ IsFiniteSet(Tool)
  /\ MaxStamp \in Nat \ {0}

VARIABLES
  file,     \* what config.yaml holds
  backup,   \* config.yaml.backup
  stamped,  \* what the copies config.yaml.backup.<time> hold
  mtime,    \* modification time of config.yaml
  saving,   \* SaveToConfig of each caller: [stage, cfg, name]
  overlapped  \* history: two saves ran at once

configVars == <<file, backup, stamped, mtime, saving, overlapped>>

\* A configuration: the user's own part and the list of tools.  A `sparse' one
\* leaves sections and values out, `custom' is the same one with them filled in,
\* `invalid' parses but does not pass Validate, `torn' does not parse.
UserPart == {"sparse", "custom", "edited", "defaults", "invalid"}
Config == [user : UserPart, tools : SUBSET Tool]
Absent == [user |-> "absent", tools |-> {}]
Torn == [user |-> "torn", tools |-> {}]
Loadable(f) == f \in Config /\ f.user # "invalid"

\* applyNewConfigDefaults: what is left out, or zero, gets its value.
WithDefaults(f) == IF f.user = "sparse" THEN [f EXCEPT !.user = "custom"] ELSE f

\* Load never fails: without a file that parses and validates it gives
\* DefaultConfig, which Validate would refuse.
DefaultConfig == [user |-> "defaults", tools |-> {}]
Load(f) == IF Loadable(f) THEN WithDefaults(f) ELSE DefaultConfig

NoSave == [stage |-> "none", cfg |-> DefaultConfig, name |-> "none"]
Saves(w) == saving[w].stage # "none"

ConfigInit ==
  /\ file = [user |-> "sparse", tools |-> {}]
  /\ backup = Absent /\ stamped = {}
  /\ mtime = 1
  /\ saving = [w \in Saver |-> NoSave]
  /\ overlapped = FALSE

\* A save has loaded the file and is still to move it away.
LoadedBefore == \E w \in Saver : saving[w].stage = "backup"

\* An open file keeps its inode when the name moves.
Moved(s, from, to) ==
  [w \in Saver |-> IF s[w].name = to THEN [s[w] EXCEPT !.name = "gone"]
                   ELSE IF s[w].name = from THEN [s[w] EXCEPT !.name = to] ELSE s[w]]
Touch == mtime' = mtime + 1
-----------------------------------------------------------------------------
(* SaveToConfig, after the manager's call has changed the registry          *)

StartSave(w) ==
  /\ saving' = [saving EXCEPT ![w] = [stage |-> "load", cfg |-> DefaultConfig, name |-> "none"]]
  /\ overlapped' = (overlapped \/ \E v \in Saver \ {w} : Saves(v))

\* Faulty variant: the tools go into the configuration the manager was made with.
LoadForSaveOnce(w, tools) ==
  /\ saving[w].stage = "load"
  /\ saving' = [saving EXCEPT ![w] =
       [stage |-> "backup", cfg |-> [user |-> "custom", tools |-> tools], name |-> "none"]]
  /\ UNCHANGED <<file, backup, stamped, mtime, overlapped>>

\* The manager loads the configuration again, the registry's tools go into it;
\* from here to the rename the file may change, and what is written in is lost.
LoadForSave(w, tools) ==
  /\ saving[w].stage = "load"
  /\ saving' = [saving EXCEPT ![w] =
       [stage |-> "backup", cfg |-> [Load(file) EXCEPT !.tools = tools], name |-> "none"]]
  /\ UNCHANGED <<file, backup, stamped, mtime, overlapped>>

\* A file that is there is renamed to the one backup name.
Backup(w) ==
  /\ saving[w].stage = "backup"
  /\ IF file = Absent
     THEN /\ saving' = [saving EXCEPT ![w].stage = "create"]
          /\ UNCHANGED <<file, backup>>
     ELSE /\ file' = Absent /\ backup' = file
          /\ saving' = [Moved(saving, "file", "backup") EXCEPT ![w].stage = "create"]
  /\ UNCHANGED <<stamped, mtime, overlapped>>

Create(w) ==
  /\ saving[w].stage = "create" /\ mtime < MaxStamp
  /\ file' = Torn /\ Touch
  /\ saving' = [saving EXCEPT ![w].stage = "write", ![w].name = "file"]
  /\ UNCHANGED <<backup, stamped, overlapped>>

\* The text goes to wherever the inode is named by now, and over what another
\* writer of the same inode has put there, which may be longer.
Outcomes(w) == IF \E v \in Saver \ {w} : saving[v].name = saving[w].name
               THEN {saving[w].cfg, Torn} ELSE {saving[w].cfg}
Write(w) ==
  /\ saving[w].stage = "write" /\ mtime < MaxStamp
  /\ \E c \in Outcomes(w) :
       CASE saving[w].name = "file" -> file' = c /\ Touch /\ UNCHANGED backup
         [] saving[w].name = "backup" -> backup' = c /\ UNCHANGED <<file, mtime>>
         [] OTHER -> UNCHANGED <<file, backup, mtime>>
  /\ saving' = [saving EXCEPT ![w] = NoSave]
  /\ UNCHANGED <<stamped, overlapped>>

SaveStep(w) == Backup(w) \/ Create(w) \/ Write(w)

\* backupConfig of RemoveTool: the file moves away under a name of its own.
MoveAway ==
  IF file = Absent THEN UNCHANGED <<file, stamped>>
  ELSE stamped' = stamped \cup {file} /\ file' = Absent

\* The user edits the file in place.
UserEdits(u) ==
  /\ file \in Config /\ file.user # u /\ mtime < MaxStamp
  /\ file' = [file EXCEPT !.user = u] /\ Touch
  /\ UNCHANGED <<backup, stamped, saving, overlapped>>
=============================================================================
