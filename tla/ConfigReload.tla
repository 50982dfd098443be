---------------------------- MODULE ConfigReload ----------------------------
(***************************************************************************)
(* internal/config/reloader.go over the file the tool registry writes: once *)
(* a second the modification time is compared, a newer file is loaded and   *)
(* the callbacks are run, all under the reloader's lock.                   *)
(***************************************************************************)
EXTENDS ToolRegistry

CONSTANT Beside   \* what may run beside the savers, one of them in a behaviour

ASSUME BesideAssumption == Beside \subseteq {"monitor", "user", "reload"}

VARIABLES
  running,      \* "new", "running" or "stopped"
  ticked,       \* a tick whose os.Stat is done: its modification time, or 0
  lastModTime,  \* r.lastModTime
  part,         \* what runs beside the savers: the monitor and crashes, the user and crashes,
                \* or the user and the reloader
  applied       \* the configuration the callbacks last applied

reloadVars == <<running, ticked, lastModTime, applied, part>>
vars == <<configVars, registryVars, reloadVars>>

Init ==
  /\ ConfigInit /\ RegistryInit
  /\ running = "new" /\ ticked = 0 /\ lastModTime = 0
  /\ applied = Load(file)
  /\ part \in Beside

\* Start takes the time of the file; without a file it is an error.
Start ==
  /\ part = "reload" /\ running = "new" /\ file # Absent
  /\ running' = "running"
  /\ lastModTime' = mtime
  /\ UNCHANGED <<configVars, registryVars, ticked, applied, part>>

\* A tick: os.Stat, outside the lock; an absent file ends it.
Tick ==
  /\ running = "running" /\ ticked = 0 /\ file # Absent
  /\ mtime > lastModTime
  /\ ticked' = mtime
  /\ UNCHANGED <<configVars, registryVars, running, lastModTime, applied, part>>

\* Faulty variant: the time is taken again after the load, and before it the
\* configuration.
ReloadLate ==
  /\ ticked # 0
  /\ applied' = Load(file)
  /\ lastModTime' = MaxStamp
  /\ ticked' = 0
  /\ UNCHANGED <<configVars, registryVars, running, part>>

\* The rest of checkAndReload: the file as it is by now is loaded, whatever that
\* gives; when a callback fails the time is not taken and the next tick tries
\* again.
Reload ==
  /\ ticked # 0
  /\ \E ok \in BOOLEAN :
       /\ applied' = IF ok THEN Load(file) ELSE applied
       /\ lastModTime' = IF ok THEN ticked ELSE lastModTime
  /\ ticked' = 0
  /\ UNCHANGED <<configVars, registryVars, running, part>>

\* ReloadNow leaves the modification time alone.
ReloadNow ==
  /\ part = "reload"
  /\ \E ok \in BOOLEAN : applied' = IF ok THEN Load(file) ELSE applied
  /\ UNCHANGED <<configVars, registryVars, running, ticked, lastModTime, part>>

\* Stop ends the goroutine between ticks.
Stop ==
  /\ running = "running" /\ ticked = 0
  /\ running' = "stopped"
  /\ UNCHANGED <<configVars, registryVars, ticked, lastModTime, applied, part>>

Reloading == Start \/ Tick \/ Reload \/ ReloadNow \/ Stop

\* A configuration the user makes invalid is not loaded, so the next save
\* starts from the defaults; a save that has loaded the file writes over the edit.
Edit ==
  \E u \in {"edited", "invalid"} :
    /\ UserEdits(u)
    /\ owed' = IF u = "invalid" \/ LoadedBefore THEN "none" ELSE u
    /\ UNCHANGED <<tools, meta, checking, checked, auditLog, crashes>>

Next ==
  \/ ManagerStep /\ UNCHANGED reloadVars
  \/ part = "monitor" /\ MonitorStep /\ UNCHANGED reloadVars
  \/ part # "reload" /\ Crash /\ UNCHANGED reloadVars
  \/ part # "monitor" /\ Edit /\ UNCHANGED reloadVars
  \/ Reloading
Fairness ==
  /\ WF_vars(Tick)
  /\ SF_vars(Reload /\ lastModTime' = ticked)
Spec == Init /\ [][Next]_vars /\ Fairness

\* The callbacks have what the file says, or the time of the file gives the next
\* tick reason to load it.  (Without a file there is nothing to load.)
UpToDate == file = Absent \/ applied = Load(file) \/ mtime > lastModTime

\* No change is missed: only Start takes the time of a file that has not been
\* loaded.  A reload that read a newer file than the time it notes, a callback
\* that failed, a save or an edit between the two leave a reason to load again.
NoChangeMissed == [][UpToDate /\ ~Start => UpToDate']_vars

\* A change of the file after Start arrives: unless the reloader is stopped or
\* the file stays away, the callbacks end up with what the file says, although
\* the file moves between the look at its time and the load, and a callback may
\* fail (not for ever).  What is written before Start and not loaded does not.
ChangeArrives ==
  /\ <>[](running = "running" /\ file # Absent)
  /\ <>(running = "running" /\ mtime > lastModTime)
  => <>[](applied = Load(file))
=============================================================================
