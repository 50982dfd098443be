------------------------- MODULE ConfigReloadProofs -------------------------
(***************************************************************************)
(* Proofs about the tool registry and the configuration it saves, beside a *)
(* monitor, a reloader, a user who edits the file, and crashes: for any    *)
(* tools, callers of the manager, bounds of the log and of the errors.     *)
(***************************************************************************)
EXTENDS ConfigReload, FiniteSetTheorems, SequenceTheorems, WellFoundedInduction, TLAPS

-----------------------------------------------------------------------------
(* The registry: what the tools point to, and what the log says of them    *)

Comings == {"registered", "removed"}
AuditEntry == [action : Comings \cup {"updated", "health_check", "error"}, name : Tool \cup {"none"}]
Meta == [kind : {"cli", "database"}, path : BOOLEAN, health : {"", "unknown", "healthy", "unhealthy"},
         errors : Nat]

\* HealthAgrees, of one object.
Consistent(m) == m.health = "healthy" <=> (m.errors = 0 /\ m.health # "")

ToolsOK ==
  /\ DOMAIN tools \subseteq Tool /\ tools \in [DOMAIN tools -> DOMAIN meta] /\ IsInjective(tools)
  /\ DOMAIN meta \subseteq Handle

MetaOK ==
  /\ meta \in [DOMAIN meta -> Meta]
  /\ \A h \in DOMAIN meta : Consistent(meta[h])

\* The last entry about the coming and going of a tool tells the truth about a registry
\* that has these names.
LastTellsTruth(log, names) ==
  \A n \in Tool, k \in 1..Len(log) :
    /\ log[k].name = n /\ log[k].action \in Comings
    /\ \A p \in 1..Len(log) : p > k => ~(log[p].name = n /\ log[p].action \in Comings)
    => (n \in names <=> log[k].action = "registered")

LogOK ==
  /\ auditLog \in Seq(AuditEntry) /\ Len(auditLog) <= MaxAudit
  /\ LastTellsTruth(auditLog, DOMAIN tools)

ChecksOK ==
  /\ \A c \in checking : c.name \in Tool
  /\ checked.name \in Tool \cup {"none"} /\ checked.ok \in BOOLEAN

RegistryInv == ToolsOK /\ MetaOK /\ LogOK /\ ChecksOK
-----------------------------------------------------------------------------
(* What the operators do                                                   *)

\* A check, and a path, leave what is said of the health consistent.
LEMMA TriedIsConsistent ==
  ASSUME NEW m \in Meta, NEW ok \in BOOLEAN
  PROVE  Tried(m, ok) \in Meta /\ Consistent(Tried(m, ok))
<1> DEFINE count == IF ~ok THEN (IF m.errors < MaxErrors THEN m.errors + 1 ELSE m.errors) ELSE 0
           word == IF ok THEN "healthy" ELSE "unhealthy"
           r == [m EXCEPT !.health = word]
<1>1. m.errors \in Nat /\ MaxErrors \in Nat \ {0}
  BY RegistryAssumption DEF Meta
<1>2. count \in Nat /\ (ok <=> count = 0)
  BY <1>1
<1>3. word \in {"healthy", "unhealthy"} /\ (ok <=> word = "healthy")
  OBVIOUS
<1> HIDE DEF count, word
<1>4. r \in Meta /\ r.health = word
  BY <1>3 DEF Meta
<1>5. Tried(m, ok) = [r EXCEPT !.errors = count]
  BY Zenon DEF Tried, count, word
<1> HIDE DEF r
<1>6. Tried(m, ok) \in Meta /\ Tried(m, ok).errors = count /\ Tried(m, ok).health = word
  BY <1>2, <1>4, <1>5 DEF Meta
<1>7. word # ""
  BY <1>3
<1> QED
  BY <1>2, <1>3, <1>6, <1>7 DEF Consistent

LEMMA PathIsConsistent ==
  ASSUME NEW m \in Meta, Consistent(m), NEW path \in BOOLEAN
  PROVE  [m EXCEPT !.path = path] \in Meta /\ Consistent([m EXCEPT !.path = path])
BY DEF Meta, Consistent

LEMMA FreshIsConsistent ==
  ASSUME NEW kind \in {"cli", "database"}, NEW path \in BOOLEAN
  PROVE  [kind |-> kind, path |-> path, health |-> "unknown", errors |-> 0] \in Meta
BY DEF Meta

LEMMA OutcomesAreTruths == \A m : HealthOutcomes(m) \subseteq BOOLEAN
BY DEF HealthOutcomes

\* The log ends with the new entry, before it stands what stood there, if need be without
\* the oldest entry.
LEMMA LoggedIs ==
  ASSUME NEW log \in Seq(AuditEntry), Len(log) <= MaxAudit, NEW e \in AuditEntry
  PROVE  /\ Logged(log, e) \in Seq(AuditEntry)
         /\ Len(Logged(log, e)) \in 1..MaxAudit /\ Logged(log, e)[Len(Logged(log, e))] = e
         /\ \E d \in {0, 1} : /\ Len(Logged(log, e)) = Len(log) + 1 - d
                              /\ \A k \in 1..(Len(Logged(log, e)) - 1) :
                                   k + d \in 1..Len(log) /\ Logged(log, e)[k] = log[k + d]
<1> DEFINE l == Append(log, e)
           n == Len(log)
           r == SubSeq(l, Len(l) - MaxAudit + 1, Len(l))
<1>1. n \in Nat /\ n <= MaxAudit /\ MaxAudit \in Nat \ {0}
  BY LenProperties, RegistryAssumption
<1>2. l \in Seq(AuditEntry) /\ Len(l) = n + 1 /\ l[n + 1] = e /\ \A k \in 1..n : l[k] = log[k]
  BY AppendProperties
<1>3. Logged(log, e) = IF n + 1 > MaxAudit THEN r ELSE l
  BY <1>2 DEF Logged
<1>4. CASE ~(n + 1 > MaxAudit)
  <2>1. Logged(log, e) = l
    BY <1>3, <1>4
  <2> HIDE DEF l, n
  <2>2. Len(l) \in 1..MaxAudit /\ l[Len(l)] = e /\ Len(l) = n + 1 - 0
    BY <1>1, <1>2, <1>4
  <2>3. \A k \in 1..(Len(l) - 1) : k + 0 \in 1..n /\ l[k] = log[k + 0]
    BY <1>1, <1>2
  <2> QED
    BY <1>2, <2>1, <2>2, <2>3 DEF n
<1>5. CASE n + 1 > MaxAudit
  <2>1. n = MaxAudit /\ Logged(log, e) = r
    <3> HIDE DEF n, r
    <3> QED
      BY <1>1, <1>3, <1>5
  <2>2. \A k \in 2..(n + 1) : l[k] \in AuditEntry
    BY <1>1, <1>2, LenProperties
  <2>3. r = SubSeq(l, 2, n + 1)
    BY <1>1, <1>2, <2>1
  <2> HIDE DEF l, n, r
  <2>4. r \in Seq(AuditEntry) /\ Len(r) = n /\ \A k \in 1..n : r[k] = l[k + 1]
    <3>1. 2 \in Int /\ n + 1 \in Int /\ 2 <= n + 1 /\ (n + 1) - 2 + 1 = n
      BY <1>1, <2>1
    <3>2. r \in Seq(AuditEntry) /\ Len(r) = (n + 1) - 2 + 1
          /\ \A k \in 1..((n + 1) - 2 + 1) : r[k] = l[2 + k - 1]
      BY <2>2, <2>3, <3>1, SubSeqProperties
    <3>3. \A k \in 1..n : 2 + k - 1 = k + 1
      BY <1>1
    <3> QED
      BY <3>1, <3>2, <3>3
  <2>5. Len(r) \in 1..MaxAudit /\ r[Len(r)] = e /\ Len(r) = n + 1 - 1
    BY <1>1, <1>2, <2>1, <2>4
  <2>6. \A k \in 1..(Len(r) - 1) : k + 1 \in 1..n /\ r[k] = log[k + 1]
    BY <1>1, <1>2, <2>4
  <2> QED
    BY <2>1, <2>4, <2>5, <2>6 DEF n
<1> QED
  BY <1>4, <1>5

\* A new entry keeps the log truthful when it says what the registry does; one about
\* anything else does when nothing comes or goes.
LEMMA LogStaysTruthful ==
  ASSUME NEW log \in Seq(AuditEntry), Len(log) <= MaxAudit, NEW e \in AuditEntry, NEW names, NEW new,
         LastTellsTruth(log, names),
         e.action \in Comings => (e.name \in new <=> e.action = "registered"),
         \A n \in Tool : (e.action \in Comings /\ n = e.name) \/ (n \in new <=> n \in names)
  PROVE  LastTellsTruth(Logged(log, e), new)
<1> DEFINE r == Logged(log, e)
<1>1. PICK d \in {0, 1} : /\ Len(r) = Len(log) + 1 - d
                          /\ \A k \in 1..(Len(r) - 1) : k + d \in 1..Len(log) /\ r[k] = log[k + d]
  BY LoggedIs
<1>2. r \in Seq(AuditEntry) /\ Len(r) \in 1..MaxAudit /\ r[Len(r)] = e /\ Len(r) \in Nat /\ Len(log) \in Nat
  BY LoggedIs, LenProperties, RegistryAssumption
<1> HIDE DEF r
<1> SUFFICES ASSUME NEW n \in Tool, NEW k \in 1..Len(r), r[k].name = n, r[k].action \in Comings,
                    \A p \in 1..Len(r) : p > k => ~(r[p].name = n /\ r[p].action \in Comings)
             PROVE  n \in new <=> r[k].action = "registered"
  BY DEF LastTellsTruth, r
<1>3. CASE k = Len(r)
  BY <1>2, <1>3
<1>4. CASE k # Len(r)
  <2>1. k \in 1..(Len(r) - 1) /\ Len(r) \in 1..Len(r) /\ Len(r) > k
    BY <1>2, <1>4
  <2>2. k + d \in 1..Len(log) /\ r[k] = log[k + d]
    BY <1>1, <2>1
  <2>3. ASSUME NEW p \in 1..Len(log), p > k + d PROVE ~(log[p].name = n /\ log[p].action \in Comings)
    <3>1. p - d \in 1..(Len(r) - 1) /\ p - d > k /\ (p - d) + d = p /\ p - d \in 1..Len(r)
      BY <1>1, <1>2, <2>1, <2>3
    <3>2. r[p - d] = log[p]
      BY <1>1, <3>1
    <3> QED
      BY <3>1, <3>2
  <2>4. n \in names <=> log[k + d].action = "registered"
    BY <2>2, <2>3 DEF LastTellsTruth
  <2>5. ~(e.name = n /\ e.action \in Comings)
    BY <1>2, <2>1
  <2> QED
    BY <2>2, <2>4, <2>5
<1> QED
  BY <1>3, <1>4
-----------------------------------------------------------------------------
(* The operations on the registry                                          *)

LEMMA RegistryInitInv == Init => RegistryInv
<1> SUFFICES ASSUME Init PROVE RegistryInv
  OBVIOUS
<1>1. /\ DOMAIN tools = {} /\ tools \in [{} -> {}] /\ DOMAIN meta = {} /\ meta \in [{} -> Meta]
      /\ checking = {} /\ checked = [handle |-> "none", name |-> "none", ok |-> FALSE] /\ auditLog = <<>>
  BY DEF Init, RegistryInit, NoMap, NoCheck
<1>2. ToolsOK /\ MetaOK
  BY <1>1 DEF ToolsOK, MetaOK, IsInjective
<1>3. LogOK /\ ChecksOK
  BY <1>1, RegistryAssumption DEF LogOK, ChecksOK, LastTellsTruth
<1> QED
  BY <1>2, <1>3 DEF RegistryInv

LEMMA RegisterStep ==
  ASSUME RegistryInv, NEW w \in Saver, NEW n \in Tool, NEW kind \in {"cli", "database"}, NEW path \in BOOLEAN,
         RegisterTool(w, n, kind, path)
  PROVE  RegistryInv'
<1> DEFINE h == CHOOSE x \in Unused : TRUE
           fresh == [kind |-> kind, path |-> path, health |-> "unknown", errors |-> 0]
           e == Entry("registered", n)
<1>1. PICK ok \in HealthOutcomes(fresh) :
        meta' = [x \in DOMAIN meta \cup {h} |-> IF x = h THEN Tried(fresh, ok) ELSE meta[x]]
  BY Zenon DEF RegisterTool
<1>2. /\ n \notin DOMAIN tools /\ h \in Unused
      /\ tools' = [m \in DOMAIN tools \cup {n} |-> IF m = n THEN h ELSE tools[m]]
      /\ auditLog' = Logged(auditLog, e) /\ UNCHANGED <<checking, checked>>
  BY DEF RegisterTool
<1>3. ToolsOK /\ MetaOK /\ LogOK /\ ChecksOK
  BY DEF RegistryInv
<1>4. Tried(fresh, ok) \in Meta /\ Consistent(Tried(fresh, ok))
  BY FreshIsConsistent, OutcomesAreTruths, TriedIsConsistent
<1>5. h \in Handle /\ h \notin DOMAIN meta
  BY <1>2 DEF Unused
<1> HIDE DEF h, fresh
<1>6. ToolsOK'
  <2>1. DOMAIN tools' = DOMAIN tools \cup {n} /\ DOMAIN meta' = DOMAIN meta \cup {h}
    BY <1>1, <1>2
  <2>2. \A m \in DOMAIN tools' : tools'[m] = IF m = n THEN h ELSE tools[m]
    BY <1>2
  <2>3. \A m \in DOMAIN tools : tools[m] \in DOMAIN meta
    BY <1>3 DEF ToolsOK
  <2>4. tools' \in [DOMAIN tools' -> DOMAIN meta']
    BY <1>2, <2>1, <2>2, <2>3
  <2>5. IsInjective(tools')
    BY <1>3, <1>5, <2>1, <2>2, <2>3 DEF ToolsOK, IsInjective
  <2> QED
    BY <1>3, <1>5, <2>1, <2>4, <2>5 DEF ToolsOK
<1>7. MetaOK'
  <2>1. DOMAIN meta' = DOMAIN meta \cup {h}
    BY <1>1
  <2>2. \A x \in DOMAIN meta' : meta'[x] = IF x = h THEN Tried(fresh, ok) ELSE meta[x]
    BY <1>1
  <2>3. \A x \in DOMAIN meta : meta[x] \in Meta /\ Consistent(meta[x])
    BY <1>3 DEF MetaOK
  <2>4. \A x \in DOMAIN meta' : meta'[x] \in Meta /\ Consistent(meta'[x])
    BY <1>4, <2>1, <2>2, <2>3
  <2>5. meta' = [x \in DOMAIN meta' |-> meta'[x]]
    BY <1>1
  <2>6. meta' \in [DOMAIN meta' -> Meta]
    BY <2>4, <2>5
  <2> QED
    BY <2>4, <2>6 DEF MetaOK, Consistent
<1>8. LogOK'
  <2>1. e \in AuditEntry /\ e.action = "registered" /\ e.name = n
    BY DEF Entry, AuditEntry, Comings
  <2>2. n \in DOMAIN tools' /\ \A m \in Tool : m = n \/ (m \in DOMAIN tools' <=> m \in DOMAIN tools)
    BY <1>2
  <2> HIDE DEF e
  <2>3. LastTellsTruth(auditLog', DOMAIN tools')
    BY <1>2, <1>3, <2>1, <2>2, LogStaysTruthful DEF LogOK, Comings
  <2>4. auditLog' \in Seq(AuditEntry) /\ Len(auditLog') \in 1..MaxAudit
    BY <1>2, <1>3, <2>1, LoggedIs DEF LogOK
  <2> QED
    BY <2>3, <2>4 DEF LogOK, LastTellsTruth
<1>9. ChecksOK'
  BY <1>2, <1>3 DEF ChecksOK
<1> QED
  BY <1>6, <1>7, <1>8, <1>9 DEF RegistryInv

LEMMA UpdateStep ==
  ASSUME RegistryInv, NEW w \in Saver, NEW n \in Tool, NEW path \in BOOLEAN, UpdateTool(w, n, path)
  PROVE  RegistryInv'
<1> DEFINE h == tools[n]
           given == meta[h].path \/ path
           e == Entry("updated", n)
<1>1. /\ n \in DOMAIN tools /\ meta' = [meta EXCEPT ![h].path = given]
      /\ auditLog' = Logged(auditLog, e) \/ auditLog' = auditLog
      /\ UNCHANGED <<tools, checking, checked>>
  BY DEF UpdateTool
<1>2. ToolsOK /\ MetaOK /\ LogOK /\ ChecksOK
  BY DEF RegistryInv
<1>3. h \in DOMAIN meta
  BY <1>1, <1>2 DEF ToolsOK
<1> HIDE DEF h, given
<1>4. DOMAIN meta' = DOMAIN meta
      /\ \A x \in DOMAIN meta : meta'[x] = IF x = h THEN [meta[h] EXCEPT !.path = given] ELSE meta[x]
  BY <1>1, <1>2, <1>3 DEF MetaOK
<1>5. ToolsOK'
  BY <1>1, <1>2, <1>4 DEF ToolsOK
<1>6. MetaOK'
  <2>1. \A x \in DOMAIN meta : meta[x] \in Meta /\ Consistent(meta[x])
    BY <1>2 DEF MetaOK
  <2>2. \A x \in DOMAIN meta' : meta'[x] \in Meta /\ Consistent(meta'[x])
    <3>1. given \in BOOLEAN
      BY DEF given
    <3> QED
      BY <1>3, <1>4, <2>1, <3>1, PathIsConsistent
  <2>3. meta' = [x \in DOMAIN meta' |-> meta'[x]]
    BY <1>1, <1>2 DEF MetaOK
  <2>4. meta' \in [DOMAIN meta' -> Meta]
    BY <2>2, <2>3
  <2> QED
    BY <2>2, <2>4 DEF MetaOK, Consistent
<1>7. LogOK'
  <2>1. e \in AuditEntry /\ e.action = "updated" /\ e.action \notin Comings
    BY DEF Entry, AuditEntry, Comings
  <2> HIDE DEF e
  <2>2. CASE auditLog' = Logged(auditLog, e)
    <3>1. LastTellsTruth(auditLog', DOMAIN tools)
      BY <1>1, <1>2, <2>1, <2>2, LogStaysTruthful DEF LogOK
    <3>2. auditLog' \in Seq(AuditEntry) /\ Len(auditLog') \in 1..MaxAudit
      BY <1>1, <1>2, <2>1, <2>2, LoggedIs DEF LogOK
    <3> QED
      BY <1>1, <3>1, <3>2 DEF LogOK, LastTellsTruth
  <2>3. CASE auditLog' = auditLog
    BY <1>1, <1>2, <2>3 DEF LogOK, LastTellsTruth
  <2> QED
    BY <1>1, <2>2, <2>3
<1>8. ChecksOK'
  BY <1>1, <1>2 DEF ChecksOK
<1> QED
  BY <1>5, <1>6, <1>7, <1>8 DEF RegistryInv

\* Collecting what nobody holds leaves the others as they are.
LEMMA CollectedIs ==
  ASSUME MetaOK, NEW S
  PROVE  /\ DOMAIN Collected(meta, S) = DOMAIN meta \cap S
         /\ Collected(meta, S) \in [DOMAIN meta \cap S -> Meta]
         /\ \A h \in DOMAIN meta \cap S : Collected(meta, S)[h] = meta[h]
BY DEF Collected, MetaOK

LEMMA RemoveStep ==
  ASSUME RegistryInv, NEW w \in Saver, NEW n \in Tool, RemoveTool(w, n)
  PROVE  RegistryInv'
<1> DEFINE e == Entry("removed", n)
           S == Held(tools', checking, checked)
<1>1. /\ n \in DOMAIN tools /\ tools' = [m \in DOMAIN tools \ {n} |-> tools[m]]
      /\ meta' = Collected(meta, S)
      /\ auditLog' = Logged(auditLog, e) /\ UNCHANGED <<checking, checked>>
  BY DEF RemoveTool
<1>2. ToolsOK /\ MetaOK /\ LogOK /\ ChecksOK
  BY DEF RegistryInv
<1>3. DOMAIN tools' = DOMAIN tools \ {n} /\ \A m \in DOMAIN tools' : tools'[m] = tools[m] /\ tools'[m] \in S
  BY <1>1 DEF Held, Range
<1> HIDE DEF S
<1>4. DOMAIN meta' = DOMAIN meta \cap S /\ meta' \in [DOMAIN meta' -> Meta]
      /\ \A h \in DOMAIN meta' : meta'[h] = meta[h]
  BY <1>1, <1>2, CollectedIs
<1>5. ToolsOK'
  <2>1. \A m \in DOMAIN tools' : tools'[m] \in DOMAIN meta'
    BY <1>2, <1>3, <1>4 DEF ToolsOK
  <2>2. tools' \in [DOMAIN tools' -> DOMAIN meta']
    BY <1>1, <1>3, <2>1
  <2> QED
    BY <1>2, <1>3, <1>4, <2>2 DEF ToolsOK, IsInjective
<1>6. MetaOK'
  BY <1>2, <1>4 DEF MetaOK, Consistent
<1>7. LogOK'
  <2>1. e \in AuditEntry /\ e.action = "removed" /\ e.name = n
    BY DEF Entry, AuditEntry, Comings
  <2>2. n \notin DOMAIN tools' /\ \A m \in Tool : m = n \/ (m \in DOMAIN tools' <=> m \in DOMAIN tools)
    BY <1>3
  <2> HIDE DEF e
  <2>3. LastTellsTruth(auditLog', DOMAIN tools')
    BY <1>1, <1>2, <2>1, <2>2, LogStaysTruthful DEF LogOK, Comings
  <2>4. auditLog' \in Seq(AuditEntry) /\ Len(auditLog') \in 1..MaxAudit
    BY <1>1, <1>2, <2>1, LoggedIs DEF LogOK
  <2> QED
    BY <2>3, <2>4 DEF LogOK, LastTellsTruth
<1>8. ChecksOK'
  BY <1>1, <1>2 DEF ChecksOK
<1> QED
  BY <1>5, <1>6, <1>7, <1>8 DEF RegistryInv

\* The result of a check goes to the object it was made of, whatever became of the tool.
LEMMA WriteCheckStep ==
  ASSUME RegistryInv, WriteCheck
  PROVE  RegistryInv'
<1> DEFINE h == checked.handle
           ok == checked.ok
           next == [meta EXCEPT ![h] = Tried(@, ok)]
           S == Held(tools, checking, NoCheck)
           e == Entry(IF ok THEN "health_check" ELSE "error", checked.name)
<1>1. /\ meta' = Collected(next, S) /\ auditLog' = Logged(auditLog, e) /\ checked' = NoCheck
      /\ UNCHANGED <<tools, checking>>
  BY DEF WriteCheck
<1>2. ToolsOK /\ MetaOK /\ LogOK /\ ChecksOK
  BY DEF RegistryInv
<1>3. \A m \in DOMAIN tools : tools[m] \in S
  BY DEF Held, Range
<1>4. ok \in BOOLEAN
  BY <1>2 DEF ChecksOK
<1>5. e \in AuditEntry /\ e.action \notin Comings
  BY <1>2, <1>4 DEF Entry, AuditEntry, Comings, ChecksOK
<1> HIDE DEF S, h, ok, e
<1>6. DOMAIN next = DOMAIN meta
      /\ \A x \in DOMAIN meta : next[x] = IF x = h THEN Tried(meta[h], ok) ELSE meta[x]
  BY <1>2 DEF MetaOK
<1>7. \A x \in DOMAIN meta : next[x] \in Meta /\ Consistent(next[x])
  BY <1>2, <1>4, <1>6, TriedIsConsistent DEF MetaOK
<1> HIDE DEF next
<1>8. DOMAIN meta' = DOMAIN meta \cap S /\ meta' \in [DOMAIN meta' -> Meta]
      /\ \A x \in DOMAIN meta' : meta'[x] = next[x]
  BY <1>1, <1>6, <1>7 DEF Collected
<1>9. ToolsOK'
  <2>1. \A m \in DOMAIN tools : tools[m] \in DOMAIN meta'
    BY <1>2, <1>3, <1>8 DEF ToolsOK
  <2>2. tools \in [DOMAIN tools -> DOMAIN meta']
    BY <1>2, <2>1 DEF ToolsOK
  <2> QED
    BY <1>1, <1>2, <1>8, <2>2 DEF ToolsOK
<1>10. MetaOK'
  BY <1>6, <1>7, <1>8 DEF MetaOK, Consistent
<1>11. LogOK'
  <2>1. LastTellsTruth(auditLog', DOMAIN tools)
    BY <1>1, <1>2, <1>5, LogStaysTruthful DEF LogOK
  <2>2. auditLog' \in Seq(AuditEntry) /\ Len(auditLog') \in 1..MaxAudit
    BY <1>1, <1>2, <1>5, LoggedIs DEF LogOK
  <2> QED
    BY <1>1, <2>1, <2>2 DEF LogOK, LastTellsTruth
<1>12. ChecksOK'
  BY <1>1, <1>2 DEF ChecksOK, NoCheck
<1> QED
  BY <1>9, <1>10, <1>11, <1>12 DEF RegistryInv

LEMMA CheckStep ==
  ASSUME RegistryInv, StartChecks \/ CheckOne
  PROVE  RegistryInv'
<1>1. UNCHANGED <<tools, meta, auditLog>>
  BY DEF StartChecks, CheckOne
<1>2. ToolsOK /\ MetaOK /\ LogOK /\ ChecksOK
  BY DEF RegistryInv
<1>3. ToolsOK' /\ MetaOK' /\ LogOK'
  BY <1>1, <1>2 DEF ToolsOK, MetaOK, LogOK, LastTellsTruth, Consistent
<1>4. ChecksOK'
  <2>1. CASE StartChecks
    BY <1>2, <2>1 DEF StartChecks, ChecksOK, ToolsOK
  <2>2. CASE CheckOne
    BY <1>2, <2>2, OutcomesAreTruths DEF CheckOne, ChecksOK
  <2> QED
    BY <2>1, <2>2
<1> QED
  BY <1>3, <1>4 DEF RegistryInv

\* There are handles enough for the tools of any configuration.
LEMMA HandlesSuffice ==
  ASSUME NEW names \in SUBSET Tool
  PROVE  \E f \in [names -> Handle] : IsInjective(f)
<1> DEFINE p == Cardinality(names)
           q == Cardinality(Handle)
<1>1. IsFiniteSet(names) /\ p \in Nat /\ q \in Nat /\ p <= q
  BY ConfigAssumption, RegistryAssumption, FS_Subset, FS_CardinalityType
<1>2. PICK g \in [1..p -> names] : \A x \in names : \E k \in 1..p : g[k] = x
  BY <1>1, FS_CardinalityType DEF ExistsBijection, Bijection, Surjection
<1>3. PICK f \in [1..q -> Handle] : \A k, m \in 1..q : f[k] = f[m] => k = m
  BY <1>1, FS_CardinalityType, RegistryAssumption DEF ExistsBijection, Bijection, Injection, IsInjective
<1> HIDE DEF p, q
<1> DEFINE place(x) == CHOOSE k \in 1..p : g[k] = x
           given == [x \in names |-> f[place(x)]]
<1>4. ASSUME NEW x \in names PROVE place(x) \in 1..p /\ g[place(x)] = x /\ place(x) \in 1..q
  <2>1. place(x) \in 1..p /\ g[place(x)] = x
    BY <1>2
  <2> QED
    BY <1>1, <2>1
<1> HIDE DEF place
<1>5. given \in [names -> Handle]
  BY <1>3, <1>4
<1>6. IsInjective(given)
  BY <1>3, <1>4 DEF IsInjective
<1> QED
  BY <1>5, <1>6

LEMMA LoadIs ==
  ASSUME file \in Config \cup {Absent, Torn}
  PROVE  /\ Load(file) \in Config /\ Load(file).user # "invalid"
         /\ Loadable(file) => Load(file).tools = file.tools
         /\ Loadable(file) => Load(file).user = WithDefaults(file).user
         /\ WithDefaults(Load(file)).user = Load(file).user
<1>1. DefaultConfig \in Config /\ DefaultConfig.user = "defaults"
  BY DEF DefaultConfig, Config, UserPart
<1>2. CASE Loadable(file)
  <2>1. Load(file) = WithDefaults(file) /\ file \in Config /\ file.user # "invalid"
    BY <1>2 DEF Load, Loadable
  <2>2. CASE file.user = "sparse"
    BY <1>2, <2>1, <2>2 DEF WithDefaults, Config, UserPart
  <2>3. CASE file.user # "sparse"
    BY <2>1, <2>3 DEF WithDefaults
  <2> QED
    BY <1>2, <2>2, <2>3
<1>3. CASE ~Loadable(file)
  BY <1>1, <1>3 DEF Load, WithDefaults
<1> QED
  BY <1>2, <1>3

LEMMA CrashStep ==
  ASSUME RegistryInv, file \in Config \cup {Absent, Torn}, Crash
  PROVE  RegistryInv' /\ DOMAIN tools' = Load(file).tools
<1> DEFINE names == Load(file).tools
           given == CHOOSE f \in [names -> Handle] : IsInjective(f)
<1>1. names \in SUBSET Tool
  BY LoadIs DEF Config
<1> HIDE DEF names
<1>2. given \in [names -> Handle] /\ IsInjective(given)
  BY <1>1, HandlesSuffice
<1>3. /\ tools' = given
      /\ meta' = [h \in Range(given) |-> [kind |-> "cli", path |-> FALSE, health |-> "", errors |-> 0]]
      /\ checking' = {} /\ checked' = NoCheck /\ auditLog' = <<>>
  BY DEF Crash, names
<1> HIDE DEF given
<1>4. DOMAIN meta' = Range(given) /\ Range(given) \subseteq Handle /\ DOMAIN given = names
  BY <1>2, <1>3 DEF Range
<1>5. ToolsOK'
  <2>1. given \in [names -> Range(given)]
    BY <1>2 DEF Range
  <2> QED
    BY <1>1, <1>2, <1>3, <1>4, <2>1 DEF ToolsOK
<1>6. MetaOK'
  <2> DEFINE m == [kind |-> "cli", path |-> FALSE, health |-> "", errors |-> 0]
  <2>1. m \in Meta /\ Consistent(m)
    BY DEF Meta, Consistent
  <2> HIDE DEF m
  <2>2. meta' \in [DOMAIN meta' -> Meta] /\ \A h \in DOMAIN meta' : meta'[h] = m
    BY <1>3, <2>1 DEF m
  <2> QED
    BY <2>1, <2>2 DEF MetaOK, Consistent
<1>7. LogOK' /\ ChecksOK'
  <2>1. auditLog' \in Seq(AuditEntry) /\ Len(auditLog') = 0
    <3>1. auditLog' = <<>>
      BY <1>3
    <3>2. <<>> \in Seq(AuditEntry) /\ Len(<<>>) = 0
      BY EmptySeq
    <3> QED
      BY <3>1, <3>2, Zenon
  <2>2. LastTellsTruth(auditLog', DOMAIN tools')
    BY <2>1 DEF LastTellsTruth
  <2>3. LogOK'
    BY <2>1, <2>2, RegistryAssumption DEF LogOK, LastTellsTruth
  <2>4. checking' = {} /\ checked'.name = "none" /\ checked'.ok = FALSE
    BY <1>3 DEF NoCheck
  <2>5. ChecksOK'
    BY <2>4 DEF ChecksOK
  <2> QED
    BY <2>3, <2>5
<1> QED
  BY <1>3, <1>4, <1>5, <1>6, <1>7 DEF RegistryInv, names

LEMMA RegistryKept ==
  ASSUME RegistryInv, UNCHANGED <<tools, meta, checking, checked, auditLog>>
  PROVE  RegistryInv'
BY DEF RegistryInv, ToolsOK, MetaOK, LogOK, ChecksOK, LastTellsTruth, Consistent
-----------------------------------------------------------------------------
(* The configuration: what it holds between the saves and along one        *)

Stages == {"none", "load", "backup", "create", "write"}
Names == {"none", "file", "backup", "gone"}
Saving == [stage : Stages, cfg : Config, name : Names]

ConfigTypeOK ==
  /\ file \in Config \cup {Absent, Torn} /\ backup \in Config \cup {Absent, Torn}
  /\ mtime \in 1..MaxStamp
  /\ saving \in [Saver -> Saving]

\* Only a save that writes has the file open.
NamesOK == \A w \in Saver : saving[w].stage # "write" => saving[w].name = "none"

OneSave == ~overlapped => \A v, w \in Saver : Saves(v) /\ Saves(w) => v = w

OldCopy == \E c \in stamped : c \in Config

\* The configuration loads and has the user's part it should have.
Pays(f, u) == Loadable(f) /\ WithDefaults(f).user = u

\* Between the saves the file lists the tools of the registry, and has the user's part in it.
FileRight ==
  /\ file \in Config /\ file.tools = DOMAIN tools
  /\ owed # "none" => Pays(file, owed)

\* What a save has in hand is right, and some other file is whole while it has the one open.
SaveRight(w) ==
  /\ saving[w].stage = "load" /\ owed # "none" => Pays(file, owed)
  /\ saving[w].stage \in {"backup", "create", "write"} =>
       /\ saving[w].cfg.tools = DOMAIN tools
       /\ owed # "none" => Pays(saving[w].cfg, owed)
  /\ saving[w].stage = "write" => saving[w].name = "file"
  /\ saving[w].stage \in {"load", "backup"} => file \in Config \/ OldCopy
  /\ saving[w].stage \in {"create", "write"} => file \notin Config /\ (backup \in Config \/ OldCopy)

LEMMA NotThere == Absent \notin Config /\ Torn \notin Config
BY DEF Absent, Torn, Config, UserPart

Safe ==
  ~overlapped /\ ~crashes.cut =>
    /\ (\A w \in Saver : ~Saves(w)) => FileRight
    /\ \A w \in Saver : Saves(w) => SaveRight(w)

ConfigInv == ConfigTypeOK /\ NamesOK /\ OneSave /\ Safe

LEMMA ConfigInitInv == Init => ConfigInv
<1> SUFFICES ASSUME Init PROVE ConfigInv
  OBVIOUS
<1>1. /\ file = [user |-> "sparse", tools |-> {}] /\ backup = Absent /\ mtime = 1
      /\ saving = [w \in Saver |-> NoSave] /\ overlapped = FALSE /\ DOMAIN tools = {}
  BY DEF Init, ConfigInit, RegistryInit, NoMap
<1>2. NoSave \in Saving /\ NoSave.stage = "none" /\ NoSave.name = "none"
  BY DEF NoSave, Saving, Stages, Names, DefaultConfig, Config, UserPart
<1>3. \A w \in Saver : saving[w] = NoSave
  BY <1>1
<1>4. file \in Config
  BY <1>1 DEF Config, UserPart
<1>5. ConfigTypeOK
  BY <1>1, <1>2, <1>4, ConfigAssumption DEF ConfigTypeOK
<1>6. NamesOK /\ OneSave
  BY <1>2, <1>3 DEF NamesOK, OneSave, Saves
<1>7. FileRight
  <2>1. file.tools = DOMAIN tools /\ owed = "custom" /\ file.user = "sparse"
    BY <1>1 DEF Init, RegistryInit
  <2>2. Pays(file, owed)
    BY <1>4, <2>1 DEF Pays, Loadable, WithDefaults, Config
  <2> QED
    BY <1>4, <2>1, <2>2 DEF FileRight
<1>8. Safe
  BY <1>2, <1>3, <1>7 DEF Safe, Saves
<1> QED
  BY <1>5, <1>6, <1>8 DEF ConfigInv

\* The savers when w starts a save, or takes a step of its own.
LEMMA StartIs ==
  ASSUME ConfigInv, NEW w \in Saver, ~Saves(w), StartSave(w)
  PROVE  /\ saving' \in [Saver -> Saving] /\ saving'[w].stage = "load" /\ saving'[w].name = "none"
         /\ \A v \in Saver \ {w} : saving'[v] = saving[v]
         /\ NamesOK' /\ OneSave'
         /\ ~overlapped' => ~overlapped /\ \A v \in Saver : ~Saves(v)
<1> DEFINE s == [stage |-> "load", cfg |-> DefaultConfig, name |-> "none"]
<1>1. saving' = [saving EXCEPT ![w] = s] /\ overlapped' = (overlapped \/ \E v \in Saver \ {w} : Saves(v))
  BY DEF StartSave
<1>2. s \in Saving /\ s.stage = "load" /\ s.name = "none"
  BY DEF Saving, Stages, Names, DefaultConfig, Config, UserPart
<1>3. saving \in [Saver -> Saving] /\ NamesOK
  BY DEF ConfigInv, ConfigTypeOK
<1> HIDE DEF s
<1>4. saving' \in [Saver -> Saving] /\ saving'[w] = s /\ \A v \in Saver \ {w} : saving'[v] = saving[v]
  BY <1>1, <1>2, <1>3
<1>5. ~overlapped' => ~overlapped /\ \A v \in Saver : ~Saves(v)
  BY <1>1
<1>6. NamesOK'
  BY <1>2, <1>3, <1>4 DEF NamesOK
<1>7. OneSave'
  BY <1>4, <1>5 DEF OneSave, Saves
<1> QED
  BY <1>2, <1>4, <1>5, <1>6, <1>7

\* Registering and updating leave the files alone until the save loads them.
LEMMA StartKeeps ==
  ASSUME ConfigInv, NEW w \in Saver, ~Saves(w), StartSave(w),
         UNCHANGED <<file, backup, stamped, mtime, owed, crashes>>
  PROVE  ConfigInv'
<1>1. ConfigTypeOK'
  BY StartIs DEF ConfigInv, ConfigTypeOK
<1>2. Safe'
  <2> SUFFICES ASSUME ~overlapped', ~crashes.cut PROVE /\ \E v \in Saver : Saves(v)'
                                                      /\ \A v \in Saver : Saves(v)' => SaveRight(v)'
    BY DEF Safe
  <2>1. FileRight
    BY StartIs DEF ConfigInv, Safe
  <2>2. Saves(w)' /\ \A v \in Saver : Saves(v)' => v = w
    BY StartIs DEF Saves
  <2>3. SaveRight(w)'
    BY <2>1, StartIs DEF SaveRight, FileRight, Loadable, OldCopy
  <2> QED
    BY <2>2, <2>3
<1> QED
  BY <1>1, <1>2, StartIs DEF ConfigInv

\* A removal moves the file away: a whole copy stays under the time's name.
LEMMA RemoveKeeps ==
  ASSUME ConfigInv, NEW w \in Saver, ~Saves(w), MoveAway, owed' = "none", StartSave(w),
         UNCHANGED <<backup, mtime, crashes>>
  PROVE  ConfigInv'
<1>0. file' \in {file, Absent} /\ (file' = file \/ file \in stamped') /\ stamped \subseteq stamped'
  BY DEF MoveAway
<1>1. ConfigTypeOK'
  BY <1>0, StartIs DEF ConfigInv, ConfigTypeOK
<1>2. Safe'
  <2> SUFFICES ASSUME ~overlapped', ~crashes.cut PROVE /\ \E v \in Saver : Saves(v)'
                                                      /\ \A v \in Saver : Saves(v)' => SaveRight(v)'
    BY DEF Safe
  <2>1. FileRight
    BY StartIs DEF ConfigInv, Safe
  <2>2. Saves(w)' /\ \A v \in Saver : Saves(v)' => v = w
    BY StartIs DEF Saves
  <2>3. file' \in Config \/ OldCopy'
    BY <1>0, <2>1 DEF FileRight, OldCopy
  <2>4. SaveRight(w)'
    BY <2>3, StartIs DEF SaveRight
  <2> QED
    BY <2>2, <2>4
<1> QED
  BY <1>1, <1>2, StartIs DEF ConfigInv

\* When a saver moves on by itself, with the others' stages and names as they were, the typing
\* and the count of savers stay right; and while saves do not overlap nobody else saves.
LEMMA StepIs ==
  ASSUME ConfigInv, NEW w \in Saver, Saves(w), NEW r \in Saving, r.stage # "write" => r.name = "none",
         saving' = [saving EXCEPT ![w] = r], UNCHANGED overlapped
  PROVE  /\ saving' \in [Saver -> Saving] /\ saving'[w] = r
         /\ NamesOK' /\ OneSave'
         /\ ~overlapped => \A v \in Saver : Saves(v)' => v = w
<1>1. saving \in [Saver -> Saving] /\ NamesOK /\ OneSave
  BY DEF ConfigInv, ConfigTypeOK
<1>2. saving' \in [Saver -> Saving] /\ saving'[w] = r /\ \A v \in Saver \ {w} : saving'[v] = saving[v]
  BY <1>1
<1>3. NamesOK'
  BY <1>1, <1>2 DEF NamesOK
<1>4. OneSave'
  BY <1>1, <1>2 DEF OneSave, Saves
<1>5. ~overlapped => \A v \in Saver : Saves(v)' => v = w
  BY <1>1, <1>2 DEF OneSave, Saves
<1> QED
  BY <1>2, <1>3, <1>4, <1>5

LEMMA LoadKeeps ==
  ASSUME ConfigInv, DOMAIN tools \subseteq Tool, NEW w \in Saver, LoadForSave(w, DOMAIN tools),
         UNCHANGED registryVars
  PROVE  ConfigInv'
<1> DEFINE c == [Load(file) EXCEPT !.tools = DOMAIN tools]
           r == [stage |-> "backup", cfg |-> c, name |-> "none"]
<1>1. /\ saving[w].stage = "load" /\ saving' = [saving EXCEPT ![w] = r]
      /\ UNCHANGED <<file, backup, stamped, mtime, overlapped, tools, owed, crashes>>
  BY DEF LoadForSave, registryVars
<1>2. file \in Config \cup {Absent, Torn}
  BY DEF ConfigInv, ConfigTypeOK
<1>3. c \in Config /\ c.tools = DOMAIN tools /\ c.user = Load(file).user
  BY <1>2, LoadIs DEF Config
<1> HIDE DEF c
<1>4. r \in Saving /\ r.stage = "backup" /\ r.name = "none" /\ r.cfg = c
  BY <1>3 DEF Saving, Stages, Names
<1> HIDE DEF r
<1>5. Saves(w) /\ UNCHANGED overlapped
  BY <1>1 DEF Saves
<1>6. /\ saving' \in [Saver -> Saving] /\ saving'[w] = r /\ NamesOK' /\ OneSave'
      /\ ~overlapped => \A v \in Saver : Saves(v)' => v = w
  BY <1>1, <1>4, <1>5, StepIs
<1>7. ConfigTypeOK'
  BY <1>1, <1>6 DEF ConfigInv, ConfigTypeOK
<1>8. Safe'
  <2> SUFFICES ASSUME ~overlapped, ~crashes.cut PROVE Saves(w)' /\ SaveRight(w)'
    BY <1>1, <1>6 DEF Safe
  <2>1. SaveRight(w)
    BY <1>5 DEF ConfigInv, Safe
  <2>2. owed # "none" => Pays(file, owed)
    BY <1>1, <2>1 DEF SaveRight
  <2>3. ASSUME owed # "none" PROVE Pays(c, owed)
    <3>1. Loadable(file) /\ Load(file).user = owed /\ WithDefaults(Load(file)).user = owed
      BY <1>2, <2>2, <2>3, LoadIs DEF Pays
    <3>2. Loadable(c)
      BY <1>2, <1>3, LoadIs DEF Loadable
    <3>3. c.user # "sparse"
      BY <1>3, <3>1 DEF WithDefaults, Load, Loadable, Config
    <3>4. WithDefaults(c) = c
      BY <3>3 DEF WithDefaults
    <3> QED
      BY <1>3, <3>1, <3>2, <3>4 DEF Pays
  <2>4. owed' = owed /\ file' = file /\ DOMAIN tools' = DOMAIN tools /\ OldCopy' = OldCopy
    BY <1>1 DEF OldCopy
  <2>5. file \in Config \/ OldCopy
    BY <1>1, <2>1 DEF SaveRight
  <2> QED
    BY <1>3, <1>4, <1>6, <2>3, <2>4, <2>5 DEF SaveRight, Saves
<1> QED
  BY <1>6, <1>7, <1>8 DEF ConfigInv

\* A rename changes only the names of the open files, and those only of the writers.
LEMMA MovedIs ==
  ASSUME saving \in [Saver -> Saving]
  PROVE  /\ Moved(saving, "file", "backup") \in [Saver -> Saving]
         /\ \A v \in Saver : /\ Moved(saving, "file", "backup")[v].stage = saving[v].stage
                             /\ Moved(saving, "file", "backup")[v].cfg = saving[v].cfg
                             /\ saving[v].name = "none" => Moved(saving, "file", "backup")[v].name = "none"
<1> DEFINE new(v) == IF saving[v].name = "backup" THEN [saving[v] EXCEPT !.name = "gone"]
                     ELSE IF saving[v].name = "file" THEN [saving[v] EXCEPT !.name = "backup"] ELSE saving[v]
<1>1. ASSUME NEW s \in Saving, NEW x \in Names
      PROVE  [s EXCEPT !.name = x] \in Saving /\ [s EXCEPT !.name = x].stage = s.stage
             /\ [s EXCEPT !.name = x].cfg = s.cfg
  BY DEF Saving
<1>2. ASSUME NEW v \in Saver
      PROVE  /\ new(v) \in Saving /\ new(v).stage = saving[v].stage /\ new(v).cfg = saving[v].cfg
             /\ saving[v].name = "none" => new(v) = saving[v]
  <2>1. saving[v] \in Saving /\ "gone" \in Names /\ "backup" \in Names
    BY DEF Names
  <2>2. CASE saving[v].name = "backup"
    BY <1>1, <2>1, <2>2
  <2>3. CASE saving[v].name = "file"
    BY <1>1, <2>1, <2>3
  <2>4. CASE saving[v].name # "backup" /\ saving[v].name # "file"
    BY <2>1, <2>4
  <2> QED
    BY <2>2, <2>3, <2>4
<1>3. Moved(saving, "file", "backup") = [v \in Saver |-> new(v)]
  BY Zenon DEF Moved
<1> HIDE DEF new
<1> QED
  BY <1>2, <1>3

LEMMA BackupKeeps ==
  ASSUME ConfigInv, NEW w \in Saver, Backup(w), UNCHANGED registryVars
  PROVE  ConfigInv'
<1>1. /\ saving[w].stage = "backup" /\ Saves(w) /\ UNCHANGED <<stamped, mtime, overlapped>>
      /\ DOMAIN tools' = DOMAIN tools /\ owed' = owed /\ crashes' = crashes
  BY DEF Backup, Saves, registryVars
<1>2. saving \in [Saver -> Saving] /\ NamesOK /\ OneSave
  BY DEF ConfigInv, ConfigTypeOK
<1>3. PICK s \in {saving, Moved(saving, "file", "backup")} : saving' = [s EXCEPT ![w].stage = "create"]
  BY Zenon DEF Backup
<1>4. /\ s \in [Saver -> Saving]
      /\ \A v \in Saver : /\ s[v].stage = saving[v].stage /\ s[v].cfg = saving[v].cfg
                          /\ saving[v].name = "none" => s[v].name = "none"
  BY <1>2, <1>3, MovedIs
<1>5. ASSUME NEW x \in Saving
      PROVE  [x EXCEPT !.stage = "create"] \in Saving /\ [x EXCEPT !.stage = "create"].name = x.name
             /\ [x EXCEPT !.stage = "create"].cfg = x.cfg /\ [x EXCEPT !.stage = "create"].stage = "create"
  BY DEF Saving, Stages
<1> DEFINE r == [s[w] EXCEPT !.stage = "create"]
<1>6. r \in Saving /\ r.name = "none" /\ r.cfg = saving[w].cfg /\ r.stage = "create"
  BY <1>1, <1>2, <1>4, <1>5 DEF NamesOK
<1>7. saving' = [s EXCEPT ![w] = r]
  BY <1>3
<1> HIDE DEF r
<1>8. saving' \in [Saver -> Saving] /\ saving'[w] = r /\ \A v \in Saver \ {w} : saving'[v] = s[v]
  BY <1>4, <1>6, <1>7
<1>9. NamesOK'
  BY <1>2, <1>4, <1>6, <1>8 DEF NamesOK
<1>10. OneSave'
  BY <1>1, <1>2, <1>4, <1>8 DEF OneSave, Saves
<1>11. (file' = file /\ backup' = backup /\ file = Absent) \/ (file' = Absent /\ backup' = file)
  BY DEF Backup
<1>12. ConfigTypeOK'
  BY <1>1, <1>8, <1>11 DEF ConfigInv, ConfigTypeOK
<1>13. Safe'
  <2> SUFFICES ASSUME ~overlapped, ~crashes.cut
               PROVE  Saves(w)' /\ SaveRight(w)' /\ \A v \in Saver : Saves(v)' => v = w
    BY <1>1 DEF Safe
  <2>1. Saves(w)' /\ \A v \in Saver : Saves(v)' => v = w
    BY <1>1, <1>2, <1>4, <1>6, <1>8 DEF OneSave, Saves
  <2>2. SaveRight(w)
    BY <1>1 DEF ConfigInv, Safe
  <2>4. backup' \in Config \/ OldCopy'
    BY <1>1, <1>11, <2>2, NotThere DEF SaveRight, OldCopy
  <2>5. SaveRight(w)'
    BY <1>1, <1>6, <1>8, <1>11, <2>2, <2>4, NotThere DEF SaveRight
  <2> QED
    BY <2>1, <2>5
<1> QED
  BY <1>9, <1>10, <1>12, <1>13 DEF ConfigInv

LEMMA CreateKeeps ==
  ASSUME ConfigInv, NEW w \in Saver, Create(w), UNCHANGED registryVars
  PROVE  ConfigInv'
<1> DEFINE s == [saving[w] EXCEPT !.stage = "write"]
           r == [s EXCEPT !.name = "file"]
<1>1. /\ saving[w].stage = "create" /\ Saves(w) /\ UNCHANGED <<backup, stamped, overlapped>>
      /\ DOMAIN tools' = DOMAIN tools /\ owed' = owed /\ crashes' = crashes
      /\ file' = Torn /\ mtime' = mtime + 1 /\ mtime < MaxStamp
  BY DEF Create, Touch, Saves, registryVars
<1>2. saving \in [Saver -> Saving] /\ mtime \in 1..MaxStamp /\ MaxStamp \in Nat
  BY ConfigAssumption DEF ConfigInv, ConfigTypeOK
<1>3. s \in Saving /\ s.cfg = saving[w].cfg /\ s.stage = "write"
  BY <1>2 DEF Saving, Stages
<1>4. saving' = [saving EXCEPT ![w] = r]
  BY Zenon DEF Create
<1> HIDE DEF s
<1>5. r \in Saving /\ r.cfg = saving[w].cfg /\ r.stage = "write" /\ r.name = "file"
  BY <1>3 DEF Saving, Names
<1> HIDE DEF r
<1>6. /\ saving' \in [Saver -> Saving] /\ saving'[w] = r /\ NamesOK' /\ OneSave'
      /\ ~overlapped => \A v \in Saver : Saves(v)' => v = w
  BY <1>1, <1>4, <1>5, StepIs
<1>7. ConfigTypeOK'
  BY <1>1, <1>2, <1>6 DEF ConfigInv, ConfigTypeOK
<1>8. Safe'
  <2> SUFFICES ASSUME ~overlapped, ~crashes.cut PROVE Saves(w)' /\ SaveRight(w)'
    BY <1>1, <1>6 DEF Safe
  <2>1. SaveRight(w)
    BY <1>1 DEF ConfigInv, Safe
  <2> QED
    BY <1>1, <1>5, <1>6, <2>1, NotThere DEF SaveRight, OldCopy, Saves
<1> QED
  BY <1>6, <1>7, <1>8 DEF ConfigInv

\* The text of a save that nothing overlaps goes to the file it created.
LEMMA WriteKeeps ==
  ASSUME ConfigInv, NEW w \in Saver, Write(w), UNCHANGED registryVars
  PROVE  ConfigInv'
<1>1. /\ saving[w].stage = "write" /\ Saves(w) /\ UNCHANGED <<stamped, overlapped>>
      /\ DOMAIN tools' = DOMAIN tools /\ owed' = owed /\ crashes' = crashes
      /\ saving' = [saving EXCEPT ![w] = NoSave] /\ mtime < MaxStamp
  BY DEF Write, Saves, registryVars
<1>2. saving \in [Saver -> Saving] /\ mtime \in 1..MaxStamp /\ MaxStamp \in Nat /\ NamesOK /\ OneSave
  BY ConfigAssumption DEF ConfigInv, ConfigTypeOK
<1>3. PICK c \in Outcomes(w) :
        \/ saving[w].name = "file" /\ file' = c /\ mtime' = mtime + 1 /\ UNCHANGED backup
        \/ saving[w].name = "backup" /\ backup' = c /\ UNCHANGED <<file, mtime>>
        \/ saving[w].name # "file" /\ UNCHANGED <<file, backup, mtime>>
  BY DEF Write, Touch
<1>4. c \in {saving[w].cfg, Torn} /\ saving[w].cfg \in Config
  BY <1>2, <1>3 DEF Outcomes, Saving
<1>5. NoSave \in Saving /\ NoSave.stage = "none" /\ NoSave.name = "none"
  BY DEF NoSave, Saving, Stages, Names, DefaultConfig, Config, UserPart
<1>6. /\ saving' \in [Saver -> Saving] /\ saving'[w] = NoSave /\ NamesOK' /\ OneSave'
      /\ ~overlapped => \A v \in Saver : Saves(v)' => v = w
  BY <1>1, <1>5, StepIs
<1>7. ConfigTypeOK'
  <2>1. file' \in Config \cup {Absent, Torn} /\ backup' \in Config \cup {Absent, Torn}
    BY <1>3, <1>4 DEF ConfigInv, ConfigTypeOK
  <2>2. mtime' \in 1..MaxStamp
    BY <1>1, <1>2, <1>3
  <2> QED
    BY <1>6, <2>1, <2>2 DEF ConfigTypeOK
<1>8. Safe'
  <2> SUFFICES ASSUME ~overlapped, ~crashes.cut PROVE FileRight' /\ \A v \in Saver : ~Saves(v)'
    BY <1>1 DEF Safe
  <2>1. SaveRight(w)
    BY <1>1 DEF ConfigInv, Safe
  <2>2. \A v \in Saver \ {w} : saving[v].name = "none"
    BY <1>1, <1>2 DEF OneSave, NamesOK, Saves
  <2>3. saving[w].name = "file"
    BY <1>1, <2>1 DEF SaveRight
  <2>4. c = saving[w].cfg
    BY <1>3, <2>2, <2>3 DEF Outcomes
  <2>5. file' = saving[w].cfg
    BY <1>3, <2>3, <2>4
  <2>6. FileRight'
    BY <1>1, <1>4, <2>1, <2>5 DEF FileRight, SaveRight
  <2> QED
    BY <1>5, <1>6, <2>6 DEF Saves
<1> QED
  BY <1>6, <1>7, <1>8 DEF ConfigInv
-----------------------------------------------------------------------------
(* The others: the user, a crash, the monitor and the reloader             *)

\* An edit is owed to the user, unless it cannot be loaded or falls between the load of a save
\* and its rename; later in the save there is no file to edit, and earlier it will be loaded.
LEMMA EditKeeps ==
  ASSUME ConfigInv, Edit
  PROVE  ConfigInv'
<1>1. PICK u \in {"edited", "invalid"} :
        UserEdits(u) /\ owed' = IF u = "invalid" \/ LoadedBefore THEN "none" ELSE u
  BY DEF Edit
<1>2. /\ file \in Config /\ mtime < MaxStamp /\ mtime' = mtime + 1 /\ file' = [file EXCEPT !.user = u]
      /\ UNCHANGED <<backup, stamped, saving, overlapped, tools, crashes>>
  BY <1>1 DEF Edit, UserEdits, Touch
<1>3. file' \in Config /\ file'.user = u /\ file'.tools = file.tools
  BY <1>2 DEF Config, UserPart
<1>4. owed' # "none" => Pays(file', owed') /\ ~LoadedBefore
  BY <1>1, <1>3 DEF Pays, Loadable, WithDefaults
<1>5. ConfigTypeOK'
  BY <1>2, <1>3, ConfigAssumption DEF ConfigInv, ConfigTypeOK
<1>6. NamesOK' /\ OneSave'
  BY <1>2 DEF ConfigInv, NamesOK, OneSave, Saves
<1>7. Safe'
  <2> SUFFICES ASSUME ~overlapped, ~crashes.cut
               PROVE  /\ (\A v \in Saver : ~Saves(v)) => FileRight'
                      /\ \A v \in Saver : Saves(v) => SaveRight(v)'
    BY <1>2 DEF Safe, Saves
  <2>1. (\A v \in Saver : ~Saves(v)) => FileRight'
    BY <1>4, <1>2, <1>3 DEF ConfigInv, Safe, FileRight
  <2>2. ASSUME NEW v \in Saver, Saves(v) PROVE SaveRight(v)'
    <3>1. SaveRight(v)
      BY <2>2 DEF ConfigInv, Safe
    <3>2. saving[v].stage # "backup" \/ owed' = "none"
      BY <1>4 DEF LoadedBefore
    <3>3. file \in Config
      BY <1>2
    <3> QED
      BY <1>4, <1>2, <1>3, <3>1, <3>2 DEF SaveRight, OldCopy
  <2> QED
    BY <2>1, <2>2
<1> QED
  BY <1>5, <1>6, <1>7 DEF ConfigInv

\* A restart that cut nothing off, and found a configuration, has the tools it lists.
LEMMA CrashKeeps ==
  ASSUME RegistryInv, ConfigInv, Crash
  PROVE  ConfigInv'
<1>1. /\ crashes' = [count |-> crashes.count + 1,
                     cut |-> crashes.cut \/ ~Loadable(file) \/ \E w \in Saver : Saves(w)]
      /\ saving' = [w \in Saver |-> NoSave]
      /\ UNCHANGED <<file, backup, stamped, mtime, overlapped, owed>>
  BY DEF Crash
<1>2. ConfigTypeOK
  BY DEF ConfigInv
<1>3. NoSave \in Saving /\ NoSave.stage = "none" /\ NoSave.name = "none"
  BY DEF NoSave, Saving, Stages, Names, DefaultConfig, Config, UserPart
<1>4. saving' \in [Saver -> Saving] /\ \A w \in Saver : saving'[w] = NoSave
  BY <1>1, <1>3
<1>5. ConfigTypeOK' /\ NamesOK' /\ OneSave'
  BY <1>1, <1>2, <1>3, <1>4 DEF ConfigTypeOK, NamesOK, OneSave, Saves
<1>6. Safe'
  <2> SUFFICES ASSUME ~overlapped, ~(crashes.cut)' PROVE FileRight'
    BY <1>1, <1>3, <1>4 DEF Safe, Saves
  <2>1. ~crashes.cut /\ Loadable(file) /\ \A w \in Saver : ~Saves(w)
    BY <1>1
  <2>2. FileRight
    BY <2>1 DEF ConfigInv, Safe
  <2>3. DOMAIN tools' = Load(file).tools
    BY <1>2, CrashStep DEF ConfigTypeOK
  <2>4. Load(file).tools = file.tools
    BY <1>2, <2>1, LoadIs DEF ConfigTypeOK
  <2> QED
    BY <1>1, <2>2, <2>3, <2>4 DEF FileRight
<1> QED
  BY <1>5, <1>6 DEF ConfigInv

LEMMA ConfigKept ==
  ASSUME ConfigInv, UNCHANGED <<configVars, tools, owed, crashes>>
  PROVE  ConfigInv'
<1>1. UNCHANGED <<file, backup, stamped, mtime, saving, overlapped, tools, owed, crashes>>
  BY DEF configVars
<1>2. ConfigTypeOK' /\ NamesOK' /\ OneSave'
  BY <1>1 DEF ConfigInv, ConfigTypeOK, NamesOK, OneSave, Saves
<1>3. Safe'
  BY <1>1 DEF ConfigInv, Safe, FileRight, SaveRight, Saves, OldCopy
<1> QED
  BY <1>2, <1>3 DEF ConfigInv
-----------------------------------------------------------------------------
(* Every step, and what follows                                            *)

LEMMA ManagerKeeps ==
  ASSUME RegistryInv, ConfigInv, ManagerStep
  PROVE  RegistryInv' /\ ConfigInv'
<1>1. ASSUME NEW w \in Saver, NEW n \in Tool, NEW kind \in {"cli", "database"},
             RegisterTool(w, n, kind, kind = "cli")
      PROVE  RegistryInv' /\ ConfigInv'
  <2>1. (kind = "cli") \in BOOLEAN
    OBVIOUS
  <2>2. RegistryInv'
    BY <1>1, <2>1, RegisterStep, Zenon
  <2>3. /\ ~Saves(w) /\ StartSave(w) /\ UNCHANGED <<file, backup, stamped, mtime, owed, crashes>>
    BY <1>1 DEF RegisterTool
  <2> QED
    BY <2>2, <2>3, StartKeeps
<1>2. ASSUME NEW w \in Saver, NEW n \in Tool, NEW path \in BOOLEAN, UpdateTool(w, n, path)
      PROVE  RegistryInv' /\ ConfigInv'
  <2>1. ~Saves(w) /\ (StartSave(w) \/ UNCHANGED <<saving, overlapped>>)
        /\ UNCHANGED <<file, backup, stamped, mtime, tools, owed, crashes>>
    BY <1>2 DEF UpdateTool
  <2> QED
    BY <1>2, <2>1, UpdateStep, StartKeeps, ConfigKept DEF configVars
<1>3. ASSUME NEW w \in Saver, NEW n \in Tool, RemoveTool(w, n)
      PROVE  RegistryInv' /\ ConfigInv'
  <2>1. /\ ~Saves(w) /\ MoveAway /\ owed' = "none" /\ StartSave(w)
        /\ UNCHANGED <<backup, mtime, crashes>>
    BY <1>3 DEF RemoveTool
  <2> QED
    BY <1>3, <2>1, RemoveStep, RemoveKeeps
<1>4. ASSUME NEW w \in Saver, Save(w)
      PROVE  RegistryInv' /\ ConfigInv'
  <2>1. UNCHANGED registryVars /\ (LoadForSave(w, DOMAIN tools) \/ Backup(w) \/ Create(w) \/ Write(w))
    BY <1>4 DEF Save, SaveStep
  <2>2. RegistryInv'
    BY <2>1, RegistryKept DEF registryVars
  <2>3. DOMAIN tools \subseteq Tool
    BY DEF RegistryInv, ToolsOK
  <2> QED
    BY <2>1, <2>2, <2>3, LoadKeeps, BackupKeeps, CreateKeeps, WriteKeeps
<1> QED
  BY <1>1, <1>2, <1>3, <1>4 DEF ManagerStep

LEMMA NextKeeps ==
  ASSUME RegistryInv, ConfigInv, [Next]_vars
  PROVE  RegistryInv' /\ ConfigInv'
<1>1. CASE UNCHANGED <<configVars, registryVars>>
  BY <1>1, RegistryKept, ConfigKept DEF registryVars
<1>2. CASE ManagerStep
  BY <1>2, ManagerKeeps
<1>3. CASE MonitorStep
  <2>1. UNCHANGED <<configVars, tools, owed, crashes>>
    BY <1>3 DEF MonitorStep, StartChecks, CheckOne, WriteCheck
  <2>2. RegistryInv'
    BY <1>3, CheckStep, WriteCheckStep DEF MonitorStep
  <2> QED
    BY <2>1, <2>2, ConfigKept
<1>4. CASE Crash
  BY <1>4, CrashStep, CrashKeeps DEF ConfigInv, ConfigTypeOK
<1>5. CASE Edit
  <2>1. UNCHANGED <<tools, meta, checking, checked, auditLog>>
    BY <1>5 DEF Edit
  <2> QED
    BY <1>5, <2>1, RegistryKept, EditKeeps
<1>6. CASE Reloading
  BY <1>1, <1>6 DEF Reloading, Start, Tick, Reload, ReloadNow, Stop
<1>7. CASE UNCHANGED vars
  BY <1>1, <1>7 DEF vars
<1> QED
  BY <1>2, <1>3, <1>4, <1>5, <1>6, <1>7 DEF Next

\* A set of positions that is not empty has a last one.
LEMMA LastPosition ==
  ASSUME NEW n \in Nat, NEW T \in SUBSET (1..n), T # {}
  PROVE  \E m \in T : \A i \in T : i <= m
<1> DEFINE R == {p \in Nat \X Nat : p[1] < p[2]}
           rest == {n - i : i \in T}
<1>1. IsWellFoundedOn(R, Nat)
  BY NatLessThanWellFounded DEF OpToRel
<1>2. rest \subseteq Nat /\ rest # {}
  <2>1. PICK t \in T : TRUE
    OBVIOUS
  <2>2. n - t \in rest
    BY <2>1
  <2>3. \A i \in 1..n : n - i \in Nat
    OBVIOUS
  <2> QED
    BY <2>2, <2>3
<1> HIDE DEF R
<1>3. PICK k \in rest : \A j \in rest : ~(<<j, k>> \in R)
  <2> HIDE DEF rest
  <2> QED
    BY <1>1, <1>2, WFMin
<1>4. PICK m \in T : k = n - m
  BY <1>3
<1>5. ASSUME NEW i \in T, m < i PROVE FALSE
  <2>1. n - i \in rest /\ n - i \in Nat /\ n - m \in Nat /\ n - i < n - m
    BY <1>5
  <2>2. <<n - i, n - m>> \in R
    BY <2>1 DEF R
  <2> QED
    BY <1>3, <1>4, <2>1, <2>2
<1>6. \A i \in T : i \in Nat
  OBVIOUS
<1> QED
  BY <1>5, <1>6

\* A truthful log can be replayed.
LEMMA LogReplays == LogOK => AuditAgrees
<1> SUFFICES ASSUME LogOK, NEW n \in Tool
             PROVE  LET about == {i \in 1..Len(auditLog) :
                                    auditLog[i].name = n /\ auditLog[i].action \in {"registered", "removed"}}
                    IN about # {} =>
                         LET last == CHOOSE i \in about : \A j \in about : j <= i
                         IN (n \in DOMAIN tools) <=> (auditLog[last].action = "registered")
  BY DEF AuditAgrees
<1> DEFINE about == {i \in 1..Len(auditLog) :
                       auditLog[i].name = n /\ auditLog[i].action \in {"registered", "removed"}}
           last == CHOOSE i \in about : \A j \in about : j <= i
<1> SUFFICES ASSUME about # {} PROVE n \in DOMAIN tools <=> auditLog[last].action = "registered"
  BY Zenon
<1>1. Len(auditLog) \in Nat
  BY LenProperties DEF LogOK
<1>2. about \in SUBSET (1..Len(auditLog))
  OBVIOUS
<1>3. last \in about /\ \A j \in about : j <= last
  <2> HIDE DEF about
  <2>1. \E i \in about : \A j \in about : j <= i
    BY <1>1, <1>2, LastPosition
  <2> QED
    BY <2>1
<1> HIDE DEF last
<1>4. /\ last \in 1..Len(auditLog) /\ auditLog[last].name = n /\ auditLog[last].action \in Comings
      /\ \A p \in 1..Len(auditLog) : p > last => ~(auditLog[p].name = n /\ auditLog[p].action \in Comings)
  BY <1>3 DEF Comings
<1> QED
  BY <1>4 DEF LogOK, LastTellsTruth

LEMMA RegistryFollows == RegistryInv /\ ConfigInv => RegistryAgrees
<1> SUFFICES ASSUME RegistryInv, ConfigInv PROVE RegistryAgrees
  OBVIOUS
<1>1. ToolsOK /\ MetaOK /\ LogOK /\ ConfigTypeOK
  BY DEF RegistryInv, ConfigInv
<1>2. RegistryTypeOK
  BY <1>1 DEF RegistryTypeOK, ToolsOK, LogOK, ConfigTypeOK, Range
<1>3. HealthAgrees
  BY <1>1 DEF HealthAgrees, ToolsOK, MetaOK, Consistent
<1> QED
  BY <1>1, <1>2, <1>3, LogReplays DEF RegistryAgrees

LEMMA SafeFollows == ConfigInv => ConfigSafe
<1> SUFFICES ASSUME ConfigInv PROVE ConfigSafe
  OBVIOUS
<1>1. SavedWhenQuiet
  BY DEF ConfigInv, Safe, FileRight, Pays, SavedWhenQuiet
<1>2. WholeCopyExists
  <2> SUFFICES ASSUME ~overlapped, ~crashes.cut PROVE \E c \in {file, backup} \cup stamped : c \in Config
    BY DEF WholeCopyExists
  <2>1. CASE \A w \in Saver : ~Saves(w)
    BY <2>1 DEF ConfigInv, Safe, FileRight
  <2>2. CASE \E w \in Saver : Saves(w)
    <3>1. PICK w \in Saver : Saves(w)
      BY <2>2
    <3>2. SaveRight(w) /\ saving[w].stage \in Stages \ {"none"}
      BY <3>1 DEF ConfigInv, Safe, ConfigTypeOK, Saving, Saves
    <3> QED
      BY <3>2 DEF SaveRight, OldCopy, Stages
  <2> QED
    BY <2>1, <2>2
<1> QED
  BY <1>1, <1>2 DEF ConfigSafe

LEMMA AlwaysInv == Spec => [](RegistryInv /\ ConfigInv)
<1>1. Init => RegistryInv /\ ConfigInv
  BY RegistryInitInv, ConfigInitInv
<1>2. RegistryInv /\ ConfigInv /\ [Next]_vars => (RegistryInv /\ ConfigInv)'
  BY NextKeeps
<1> QED
  BY <1>1, <1>2, PTL DEF Spec

\* For any tools, callers and bounds, with checks that end late and restarts: the registry is
\* typed, health and errors tell one story, and the last word of the log on a tool is true.
THEOREM RegistryStaysRight == Spec => []RegistryAgrees
BY AlwaysInv, RegistryFollows, PTL

\* For any number of callers, edits, saves and reloads: unless saves overlap or a crash cuts one
\* off, the saved file lists the registry's tools and has the user's part it should have, what
\* the user wrote last and no save had overtaken; and a whole copy remains at every step.
THEOREM ConfigStaysSafe == Spec => []ConfigSafe
BY AlwaysInv, SafeFollows, PTL
-----------------------------------------------------------------------------
(* The reloader: no change of the file is missed                           *)

\* The times the reloader has seen are times the file has had.
TimesSeen ==
  /\ mtime \in Nat /\ lastModTime \in Nat /\ ticked \in Nat
  /\ lastModTime <= mtime /\ ticked <= mtime

\* The file is as it was, or moved away, or it has a new time.
LEMMA FileMoves ==
  ASSUME [Next]_vars
  PROVE  \/ UNCHANGED <<file, mtime>>
         \/ file' = Absent /\ mtime' = mtime
         \/ mtime' = mtime + 1
<1>1. ASSUME NEW w \in Saver, Save(w)
      PROVE  UNCHANGED <<file, mtime>> \/ (file' = Absent /\ mtime' = mtime) \/ mtime' = mtime + 1
  <2>1. CASE LoadForSave(w, DOMAIN tools)
    BY <2>1 DEF LoadForSave
  <2>2. CASE Backup(w)
    BY <2>2 DEF Backup
  <2>3. CASE Create(w)
    BY <2>3 DEF Create, Touch
  <2>4. CASE Write(w)
    BY <2>4 DEF Write, Touch
  <2> QED BY <1>1, <2>1, <2>2, <2>3, <2>4 DEF Save, SaveStep
<1>2. ASSUME NEW w \in Saver, NEW n \in Tool, RemoveTool(w, n)
      PROVE  mtime' = mtime /\ (file' = file \/ file' = Absent)
  BY <1>2 DEF RemoveTool, MoveAway
<1>3. ASSUME Edit PROVE mtime' = mtime + 1
  BY <1>3 DEF Edit, UserEdits, Touch
<1>4. ASSUME NEW w \in Saver, NEW n \in Tool,
             (\E kind \in {"cli", "database"} : RegisterTool(w, n, kind, kind = "cli"))
             \/ (\E path \in BOOLEAN : UpdateTool(w, n, path))
      PROVE  UNCHANGED <<file, mtime>>
  BY <1>4 DEF RegisterTool, UpdateTool
<1>5. CASE MonitorStep
  BY <1>5 DEF MonitorStep, StartChecks, CheckOne, WriteCheck, configVars
<1>6. CASE Reloading
  BY <1>6 DEF Reloading, Start, Tick, Reload, ReloadNow, Stop, configVars
<1>7. CASE Crash
  <2>1. UNCHANGED <<file, backup, stamped, mtime, overlapped, owed>>
    BY <1>7, Zenon DEF Crash
  <2> QED BY <2>1
<1>8. CASE UNCHANGED vars
  BY <1>8 DEF vars, configVars
<1> QED BY <1>1, <1>2, <1>3, <1>4, <1>5, <1>6, <1>7, <1>8 DEF Next, ManagerStep

\* What happens outside the reloader leaves its record alone.
LEMMA ReloaderRests ==
  ASSUME [Next]_vars, ~Reloading
  PROVE  UNCHANGED <<lastModTime, ticked, applied>>
  BY DEF Next, vars, reloadVars

LEMMA TimesAlways == Spec => []TimesSeen
<1>1. Init => TimesSeen
  BY DEF Init, ConfigInit, TimesSeen
<1>2. TimesSeen /\ [Next]_vars => TimesSeen'
  <2> SUFFICES ASSUME TimesSeen, [Next]_vars PROVE TimesSeen'
    OBVIOUS
  <2>1. mtime' \in Nat /\ mtime <= mtime'
    BY FileMoves DEF TimesSeen
  <2>2. CASE Reloading
    BY <2>1, <2>2 DEF Reloading, Start, Tick, Reload, ReloadNow, Stop, TimesSeen
  <2>3. CASE ~Reloading
    BY <2>1, <2>3, ReloaderRests DEF TimesSeen
  <2> QED BY <2>2, <2>3
<1> QED BY <1>1, <1>2, PTL DEF Spec

\* However saves, edits, failing callbacks and the two halves of a tick fall: as long
\* as the file is there, the callbacks have what it says or its time is newer than the
\* one noted, so the next tick loads it; Start alone notes a time without a load.
THEOREM ChangesAreSeen == Spec => NoChangeMissed
<1>1. TimesSeen /\ [Next]_vars => [UpToDate /\ ~Start => UpToDate']_vars
  <2> SUFFICES ASSUME TimesSeen, [Next]_vars, UpToDate, ~Start PROVE UpToDate'
    OBVIOUS
  <2>1. CASE ~Reloading
    BY <2>1, FileMoves, ReloaderRests DEF UpToDate, TimesSeen
  <2>2. CASE Reload
    BY <2>2 DEF Reload, configVars, UpToDate
  <2>3. CASE ReloadNow
    BY <2>3 DEF ReloadNow, configVars, UpToDate
  <2>4. CASE Tick \/ Stop
    BY <2>4 DEF Tick, Stop, configVars, UpToDate
  <2> QED BY <2>1, <2>2, <2>3, <2>4 DEF Reloading
<1> QED BY <1>1, TimesAlways, PTL DEF Spec, NoChangeMissed
=============================================================================
