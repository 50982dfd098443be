---------------------------- MODULE ToolRegistry ----------------------------
(***************************************************************************)
(* internal/tools: the registry of tools (lifecycle.go), the manager that   *)
(* saves it after each change (manager.go), and the monitor, which takes a  *)
(* copy of the pointers under the lock and checks the tools without it.    *)
(***************************************************************************)
EXTENDS ConfigFile, Sequences, Functions

CONSTANTS
  Handle,      \* identities of ToolMetadata objects
  MaxErrors,   \* ConsecutiveErrors is counted up to here
  MaxAudit,    \* entries the audit log keeps
  MaxCrashes   \* bound on the crashes

ASSUME RegistryAssumption ==
  /\ IsFiniteSet(Handle) /\ Cardinality(Tool) <= Cardinality(Handle)
  /\ MaxErrors \in Nat \ {0} /\ MaxAudit \in Nat \ {0} /\ MaxCrashes \in Nat

VARIABLES
  tools,      \* tr.tools: name -> handle
  meta,       \* what each handle in use points to: [kind, path, health, errors]
  checking,   \* handles the monitor has still to check, by name
  checked,    \* the check it has made and not yet written: [handle, name, ok]
  auditLog,   \* [action, name]
  owed,       \* history: the user's part the configuration should have, or "none"
  crashes     \* history: [count, cut]: one cut a save off, or the restart found no configuration

registryVars == <<tools, meta, checking, checked, auditLog, owed, crashes>>

Kinds == {"cli", "mcp", "rest", "database"}   \* "binary" is like "database"
NoMap == [n \in {} |-> 0]
NoCheck == [handle |-> "none", name |-> "none", ok |-> FALSE]
Entry(a, n) == [action |-> a, name |-> n]

\* logAudit keeps the last entries.
Logged(log, e) ==
  LET l == Append(log, e) IN
  IF Len(l) > MaxAudit THEN SubSeq(l, Len(l) - MaxAudit + 1, Len(l)) ELSE l

\* validateTool: each kind but the last two needs its path, socket or URL.
Validates(kind, path) == kind \in {"database", "binary"} \/ path

\* healthCheck: the file of a CLI tool may come and go; a kind that is taken
\* for valid and has no check is always unhealthy.
HealthOutcomes(m) ==
  IF m.kind \in {"database", "binary"} \/ ~m.path THEN {FALSE}
  ELSE IF m.kind = "cli" THEN BOOLEAN ELSE {TRUE}

Tried(m, ok) ==
  [m EXCEPT !.health = IF ok THEN "healthy" ELSE "unhealthy",
            !.errors = IF ~ok THEN (IF m.errors < MaxErrors THEN m.errors + 1 ELSE m.errors)
                       ELSE 0]

Unused == {h \in Handle : h \notin DOMAIN meta}
\* A handle nobody holds is collected.
Held(t, c, k) == Range(t) \cup {x.handle : x \in c} \cup {k.handle}
Collected(f, S) == [h \in DOMAIN f \cap S |-> f[h]]

RegistryInit ==
  /\ tools = NoMap /\ meta = NoMap
  /\ checking = {} /\ checked = NoCheck
  /\ auditLog = <<>>
  /\ owed = "custom" /\ crashes = [count |-> 0, cut |-> FALSE]
-----------------------------------------------------------------------------
(* The manager's operations: the registry changes under its lock, then the  *)
(* configuration is saved step by step                                      *)

\* RegisterTool: no such name yet, valid, checked, added.
RegisterTool(w, n, kind, path) ==
  /\ ~Saves(w)
  /\ n \notin DOMAIN tools /\ Validates(kind, path) /\ Unused # {}
  /\ LET h == CHOOSE x \in Unused : TRUE
         fresh == [kind |-> kind, path |-> path, health |-> "unknown", errors |-> 0]
     IN /\ \E ok \in HealthOutcomes(fresh) :
             meta' = [x \in DOMAIN meta \cup {h} |->
                        IF x = h THEN Tried(fresh, ok) ELSE meta[x]]
        /\ tools' = [m \in DOMAIN tools \cup {n} |-> IF m = n THEN h ELSE tools[m]]
  /\ auditLog' = Logged(auditLog, Entry("registered", n))
  /\ StartSave(w)
  /\ UNCHANGED <<file, backup, stamped, mtime, checking, checked, owed, crashes>>

\* UpdateTool gives a tool a path, or settings, which are not modelled.  The tool
\* is changed before it is validated: one that was loaded, and so has no path, is
\* refused without, and what was changed in it is neither logged nor saved.
UpdateTool(w, n, path) ==
  /\ ~Saves(w)
  /\ n \in DOMAIN tools
  /\ LET m == meta[tools[n]] IN
     /\ meta' = [meta EXCEPT ![tools[n]].path = m.path \/ path]
     /\ IF Validates(m.kind, m.path \/ path)
        THEN auditLog' = Logged(auditLog, Entry("updated", n)) /\ StartSave(w)
        ELSE UNCHANGED <<auditLog, saving, overlapped>>
  /\ UNCHANGED <<file, backup, stamped, mtime, tools, checking, checked, owed, crashes>>

\* Faulty variant: the tool leaves the registry, the log keeps silent.
RemoveSilently(w, n) ==
  /\ ~Saves(w) /\ n \in DOMAIN tools
  /\ MoveAway
  /\ tools' = [m \in DOMAIN tools \ {n} |-> tools[m]]
  /\ meta' = Collected(meta, Held(tools', checking, checked))
  /\ owed' = "none"
  /\ StartSave(w)
  /\ UNCHANGED <<backup, mtime, checking, checked, auditLog, crashes>>

\* RemoveTool moves config.yaml away before the manager loads it.
RemoveTool(w, n) ==
  /\ ~Saves(w) /\ n \in DOMAIN tools
  /\ MoveAway
  /\ tools' = [m \in DOMAIN tools \ {n} |-> tools[m]]
  /\ meta' = Collected(meta, Held(tools', checking, checked))
  /\ auditLog' = Logged(auditLog, Entry("removed", n))
  /\ owed' = "none"
  /\ StartSave(w)
  /\ UNCHANGED <<backup, mtime, checking, checked, crashes>>

Save(w) ==
  /\ LoadForSave(w, DOMAIN tools) \/ SaveStep(w)
  /\ UNCHANGED registryVars
-----------------------------------------------------------------------------
(* performHealthChecks                                                      *)

StartChecks ==
  /\ checking = {} /\ checked = NoCheck /\ tools # NoMap
  /\ checking' = {[handle |-> tools[n], name |-> n] : n \in DOMAIN tools}
  /\ UNCHANGED <<configVars, tools, meta, checked, auditLog, owed, crashes>>

\* healthCheck runs without the lock.
CheckOne ==
  /\ checked = NoCheck
  /\ \E c \in checking : \E ok \in HealthOutcomes(meta[c.handle]) :
       /\ checking' = checking \ {c}
       /\ checked' = [handle |-> c.handle, name |-> c.name, ok |-> ok]
  /\ UNCHANGED <<configVars, tools, meta, auditLog, owed, crashes>>

\* The result goes to the object the pointer is of, in the registry or not.
WriteCheck ==
  /\ checked # NoCheck
  /\ meta' = Collected([meta EXCEPT ![checked.handle] = Tried(@, checked.ok)],
                       Held(tools, checking, NoCheck))
  /\ auditLog' = Logged(auditLog,
                        Entry(IF checked.ok THEN "health_check" ELSE "error", checked.name))
  /\ checked' = NoCheck
  /\ UNCHANGED <<configVars, tools, checking, owed, crashes>>
-----------------------------------------------------------------------------
\* The process dies and comes back: LoadFromConfig takes the tools of the
\* configuration, whose paths were never written down.
Crash ==
  /\ crashes.count < MaxCrashes
  /\ crashes' = [count |-> crashes.count + 1,
                 cut |-> crashes.cut \/ ~Loadable(file) \/ \E w \in Saver : Saves(w)]
  /\ saving' = [w \in Saver |-> NoSave]
  /\ LET names == Load(file).tools
         given == CHOOSE f \in [names -> Handle] : IsInjective(f)
     IN /\ tools' = given
        /\ meta' = [h \in Range(given) |->
                      [kind |-> "cli", path |-> FALSE, health |-> "", errors |-> 0]]
  /\ checking' = {} /\ checked' = NoCheck /\ auditLog' = <<>>
  /\ UNCHANGED <<file, backup, stamped, mtime, overlapped, owed>>

ManagerStep ==
  \/ \E w \in Saver, n \in Tool :
       \/ \E kind \in {"cli", "database"} : RegisterTool(w, n, kind, kind = "cli")
       \/ \E path \in BOOLEAN : UpdateTool(w, n, path)
       \/ RemoveTool(w, n)
  \/ \E w \in Saver : Save(w)
MonitorStep == StartChecks \/ CheckOne \/ WriteCheck
-----------------------------------------------------------------------------
(* What must hold                                                          *)

RegistryTypeOK ==
  /\ mtime \in 1..MaxStamp
  /\ file \in Config \cup {Absent, Torn} /\ backup \in Config \cup {Absent, Torn}
  /\ DOMAIN tools \subseteq Tool /\ Range(tools) \subseteq DOMAIN meta
  /\ IsInjective(tools)
  /\ Len(auditLog) <= MaxAudit

\* The health of a tool and its count of errors tell the same story, over
\* checks that end while the tool is updated, removed or registered again.
HealthAgrees ==
  \A n \in DOMAIN tools : LET m == meta[tools[n]] IN
    m.health = "healthy" <=> (m.errors = 0 /\ m.health # "")

\* The audit log can be replayed: the last entry about the coming and going of a
\* tool says whether the registry has it, although the monitor logs about tools
\* that are gone.
AuditAgrees ==
  \A n \in Tool :
    LET about == {i \in 1..Len(auditLog) :
                    auditLog[i].name = n /\ auditLog[i].action \in {"registered", "removed"}}
    IN about # {} =>
         LET last == CHOOSE i \in about : \A j \in about : j <= i
         IN (n \in DOMAIN tools) <=> (auditLog[last].action = "registered")

\* With one save at a time and none cut off, the configuration lists the tools of
\* the registry between the saves, and its user's part is what the user wrote last,
\* over edits and saves in any order.  Nothing is owed to the user after a removal
\* has moved the file away, when it was made invalid, or when it was edited after a
\* save had loaded it: the next content the user writes is.
SavedWhenQuiet ==
  ~overlapped /\ ~crashes.cut /\ (\A w \in Saver : ~Saves(w)) =>
    /\ file.tools = DOMAIN tools
    /\ owed # "none" => WithDefaults(file).user = owed

\* At every step of a save some name has a whole configuration, so a first
\* crash costs the last save at most.  (The save after it renames the torn file
\* over the backup.)
WholeCopyExists ==
  ~overlapped /\ ~crashes.cut => \E c \in {file, backup} \cup stamped : c \in Config

\* The registry's own books agree, and the configuration it saves is safe.
RegistryAgrees == RegistryTypeOK /\ HealthAgrees /\ AuditAgrees
ConfigSafe == SavedWhenQuiet /\ WholeCopyExists
=============================================================================
