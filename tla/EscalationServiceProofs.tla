---------------------- MODULE EscalationServiceProofs ----------------------
(***************************************************************************)
(* Proofs about EscalationService, for any number of handlers, any models  *)
(* and any requests.  All handlers write through one temporary name, and   *)
(* the service may die anywhere; as long as nothing has overlapped, at     *)
(* most one update is past its read, and the temporary name holds just     *)
(* what that update has written: OneUpdate, the inductive part.            *)
(***************************************************************************)
EXTENDS EscalationService, FiniteSetTheorems, TLAPS

Documents == [model : Model, rest : Nat]
File == [size : Nat, doc : Documents \cup {NoDoc}]
Update == [stage : {"none", "read", "open", "write", "rename"},
           doc : Documents \cup {NoDoc}, fd : Inode \cup {None}]

Changing == {"open", "write", "rename"}

Types ==
  /\ settings \in Inode /\ tmp \in Inode \cup {None} /\ settings # tmp
  /\ rest \in Nat /\ overlapped \in BOOLEAN
  /\ data \in [Inode -> File]
  /\ update \in [Writer -> Update]
  /\ \A w \in Writer : update[w].stage # "none" => update[w].doc \in Documents

\* The update that is past its read holds the other fields as they are, and the
\* temporary name is where it has written.
OneUpdate ==
  ~overlapped =>
    /\ \A v, w \in Writer : update[v].stage \in Changing /\ update[w].stage \in Changing => v = w
    /\ \A w \in Writer :
         /\ update[w].stage \in Changing => update[w].doc.rest = rest
         /\ update[w].stage = "write" => /\ update[w].fd = tmp /\ tmp # None
                                         /\ data[tmp] = Empty
         /\ update[w].stage = "rename" => /\ tmp # None
                                          /\ data[tmp] = Whole(update[w].doc)

Inv == Types /\ OneUpdate /\ WholeUnlessOverlapped
-----------------------------------------------------------------------------
(* Inodes and documents                                                    *)

LEMMA InodesAre ==
  /\ Cardinality(Writer) \in Nat
  /\ IsFiniteSet(Inode) /\ Cardinality(Inode) = Cardinality(Writer) + 3
  /\ 1 \in Inode /\ None \notin Inode
<1>1. Cardinality(Writer) \in Nat
  BY SettingsAssumption, FS_CardinalityType
<1>2. IsFiniteSet(Inode) /\ Cardinality(Inode) = Cardinality(Writer) + 3
  BY <1>1, FS_Interval DEF Inode
<1> QED BY <1>1, <1>2 DEF Inode, None

\* There is always an inode nobody refers to.
LEMMA FreeInodeIs ==
  /\ FreeInode \in Inode
  /\ FreeInode # settings /\ FreeInode # tmp
  /\ \A w \in Writer : FreeInode # update[w].fd
<1> DEFINE fds == {update[w].fd : w \in Writer}
           used == {settings, tmp} \cup fds
<1>1. IsFiniteSet(fds) /\ Cardinality(fds) <= Cardinality(Writer) /\ Cardinality(fds) \in Nat
  <2> DEFINE f == [w \in Writer |-> update[w].fd]
  <2>1. f \in Surjection(Writer, fds)
    BY DEF Surjection
  <2> QED BY <2>1, SettingsAssumption, FS_Surjection, FS_SurjCardinalityBound, FS_CardinalityType
<1>2. IsFiniteSet({settings, tmp}) /\ Cardinality({settings, tmp}) \in {1, 2}
  <2>1. IsFiniteSet({settings}) /\ Cardinality({settings}) = 1
    BY FS_Singleton
  <2>2. {settings, tmp} = {settings} \cup {tmp}
    OBVIOUS
  <2>3. CASE tmp \in {settings}
    <3>1. {settings, tmp} = {settings}
      BY <2>3
    <3> QED BY <2>1, <3>1
  <2>4. CASE tmp \notin {settings}
    BY <2>1, <2>2, <2>4, FS_AddElement
  <2> QED BY <2>3, <2>4
<1>3. IsFiniteSet(used) /\ Cardinality(used) <= Cardinality(Writer) + 2
  <2>1. /\ IsFiniteSet(used)
        /\ Cardinality(used) = Cardinality({settings, tmp}) + Cardinality(fds)
                                 - Cardinality({settings, tmp} \cap fds)
    BY <1>1, <1>2, FS_Union
  <2>2. Cardinality({settings, tmp} \cap fds) \in Nat
    BY <1>2, FS_Intersection, FS_CardinalityType
  <2> QED BY <1>1, <1>2, <2>1, <2>2, InodesAre
<1>4. Inode \ used # {}
  <2> SUFFICES ASSUME Inode \subseteq used PROVE FALSE
    OBVIOUS
  <2>1. Cardinality(Inode) <= Cardinality(used) /\ Cardinality(used) \in Nat
    BY <1>3, FS_Subset, FS_CardinalityType
  <2> QED BY <1>3, <2>1, InodesAre
<1>5. FreeInode = CHOOSE f \in Inode \ used : TRUE
  BY DEF FreeInode
<1>6. FreeInode \in Inode \ used
  BY <1>4, <1>5
<1> QED BY <1>6

\* A document with a model is not text that does not parse.
LEMMA DocumentsParse ==
  /\ \A d \in Documents : d # NoDoc /\ Whole(d) \in File /\ Whole(d).doc = d
  /\ \A m \in Model, r \in Nat : Doc(m, r) \in Documents /\ Doc(m, r).rest = r
  /\ Empty \in File /\ NoUpdate \in Update
  BY SettingsAssumption, InodesAre
  DEF Documents, NoDoc, Whole, File, Doc, Empty, NoUpdate, Update

\* Emptying the inode that settings.json named touches no other.
LEMMA UnlinkedIs ==
  ASSUME Types
  PROVE  /\ Unlinked(data) \in [Inode -> File]
         /\ \A f \in Inode \ {settings} : Unlinked(data)[f] = data[f]
  BY DocumentsParse DEF Types, Unlinked

LEMMA InitInv == Init => Inv
<1> SUFFICES ASSUME Init PROVE Inv
  OBVIOUS
<1>1. Doc(FirstModel, 0) \in Documents /\ Doc(FirstModel, 0).rest = 0
  BY SettingsAssumption, DocumentsParse
<1>2. Types
  BY <1>1, DocumentsParse, InodesAre DEF Init, SettingsInit, Types, NoUpdate
<1>3. OneUpdate
  BY DEF Init, SettingsInit, OneUpdate, Changing, NoUpdate
<1>4. WholeUnlessOverlapped
  BY <1>1, DocumentsParse, InodesAre DEF Init, SettingsInit, WholeUnlessOverlapped, Parses
<1> QED BY <1>2, <1>3, <1>4 DEF Inv
-----------------------------------------------------------------------------
(* One lemma per step of an update                                         *)

LEMMA ReadStep ==
  ASSUME Inv, NEW w \in Writer, ReadDocument(w)
  PROVE  Inv'
<1> DEFINE d == Doc(update[w].doc.model, data[settings].doc.rest)
           u == [stage |-> "open", doc |-> d, fd |-> None]
<1>1. /\ update[w] \in Update /\ update[w].stage = "read" /\ update[w].doc \in Documents
      /\ data[settings] \in File
      /\ UNCHANGED <<settings, tmp, data, rest>>
  BY DEF Inv, Types, ReadDocument
<1>2. CASE Parses(settings)
  <2>1. update' = [update EXCEPT ![w] = u]
    BY <1>2 DEF ReadDocument
  <2>2. data[settings].doc \in Documents
    BY <1>1, <1>2 DEF Parses, File
  <2>3. d \in Documents /\ d.rest = data[settings].doc.rest
    BY <1>1, <2>2, DocumentsParse DEF Documents
  <2>4. u \in Update /\ u.stage = "open" /\ u.doc = d
    BY <2>3 DEF Update
  <2> HIDE DEF u, d
  <2>5. \A v \in Writer : update'[v] = IF v = w THEN u ELSE update[v]
    BY <2>1 DEF Inv, Types
  <2>6. overlapped' = (overlapped \/ \E v \in Writer \ {w} : update[v].stage \in Changing)
    BY <1>2 DEF ReadDocument, Changing
  <2>7. Types'
    BY <1>1, <2>1, <2>3, <2>4, <2>5, <2>6 DEF Inv, Types
  <2>8. WholeUnlessOverlapped'
    BY <1>1, <2>6 DEF Inv, WholeUnlessOverlapped, Parses
  <2>9. OneUpdate'
    <3> SUFFICES ASSUME ~overlapped' PROVE OneUpdate'
      BY DEF OneUpdate
    <3>1. ~overlapped /\ \A v \in Writer : v # w => update[v].stage \notin Changing
      BY <2>6 DEF Inv, Types
    <3>2. \A v \in Writer : update'[v].stage \in Changing => v = w
      BY <2>5, <3>1
    <3>3. update'[w].doc.rest = rest' /\ update'[w].stage = "open"
      BY <1>1, <2>3, <2>4, <2>5, <3>1 DEF Inv, WholeUnlessOverlapped
    <3> QED BY <3>2, <3>3 DEF OneUpdate, Changing
  <2> QED BY <2>7, <2>8, <2>9 DEF Inv
<1>3. CASE ~Parses(settings)
  <2>1. update' = [update EXCEPT ![w] = NoUpdate] /\ overlapped' = overlapped
    BY <1>3 DEF ReadDocument, Inv, Types
  <2>2. \A v \in Writer : update'[v] = IF v = w THEN NoUpdate ELSE update[v]
    BY <2>1 DEF Inv, Types
  <2>3. Types'
    BY <1>1, <2>1, <2>2, DocumentsParse DEF Inv, Types, NoUpdate
  <2>4. overlapped
    BY <1>3 DEF Inv, Types, WholeUnlessOverlapped
  <2> QED BY <2>1, <2>3, <2>4 DEF Inv, OneUpdate, WholeUnlessOverlapped
<1> QED BY <1>2, <1>3

LEMMA OpenStep ==
  ASSUME Inv, NEW w \in Writer, OpenTmp(w)
  PROVE  Inv'
<1> DEFINE f == IF tmp = None THEN FreeInode ELSE tmp
           u == [stage |-> "write", doc |-> update[w].doc, fd |-> f]
<1>1. /\ update[w] \in Update /\ update[w].stage = "open" /\ update[w].doc \in Documents
      /\ UNCHANGED <<settings, rest, overlapped>>
  BY DEF Inv, Types, OpenTmp
<1>2. f \in Inode /\ f # settings
  BY FreeInodeIs DEF Inv, Types
<1>3. tmp' = f /\ data' = [data EXCEPT ![f] = Empty] /\ update' = [update EXCEPT ![w] = u]
  BY DEF OpenTmp
<1>4. u \in Update /\ u.stage = "write" /\ u.doc = update[w].doc /\ u.fd = f
  BY <1>1, <1>2 DEF Update
<1> HIDE DEF u, f
<1>5. /\ \A v \in Writer : update'[v] = IF v = w THEN u ELSE update[v]
      /\ \A g \in Inode : data'[g] = IF g = f THEN Empty ELSE data[g]
  BY <1>2, <1>3 DEF Inv, Types
<1>6. Types'
  BY <1>1, <1>2, <1>3, <1>4, <1>5, DocumentsParse DEF Inv, Types
<1>7. WholeUnlessOverlapped'
  BY <1>1, <1>2, <1>5 DEF Inv, Types, WholeUnlessOverlapped, Parses
<1>8. OneUpdate'
  <2> SUFFICES ASSUME ~overlapped' PROVE OneUpdate'
    BY DEF OneUpdate
  <2>1. /\ \A v \in Writer : update'[v].stage \in Changing => v = w
        /\ update'[w].doc.rest = rest'
    BY <1>1, <1>4, <1>5 DEF Inv, OneUpdate, Changing
  <2>2. update'[w].fd = tmp' /\ tmp' # None /\ data'[tmp'] = Empty
    BY <1>2, <1>3, <1>4, <1>5, InodesAre
  <2>3. update'[w].stage = "write"
    BY <1>4, <1>5
  <2> QED BY <2>1, <2>2, <2>3 DEF OneUpdate, Changing
<1> QED BY <1>6, <1>7, <1>8 DEF Inv

LEMMA WriteStep ==
  ASSUME Inv, NEW w \in Writer, WriteTmp(w)
  PROVE  Inv'
<1> DEFINE f == update[w].fd
           d == update[w].doc
           u == [stage |-> "rename", doc |-> d, fd |-> None]
<1>1. /\ update[w] \in Update /\ update[w].stage = "write" /\ d \in Documents
      /\ UNCHANGED <<settings, tmp, rest, overlapped>>
  BY DEF Inv, Types, WriteTmp
<1>2. f \in Inode \cup {None} /\ u \in Update /\ u.stage = "rename" /\ u.doc = d
  BY <1>1 DEF Update
<1>3. /\ data' = [data EXCEPT ![f] = Overwritten(data[f], d)]
      /\ update' = [update EXCEPT ![w] = u]
  BY DEF WriteTmp
<1>4. \A o \in File : Overwritten(o, d) \in File
  BY <1>1, DocumentsParse DEF Overwritten, File
<1>5. Overwritten(Empty, d) = Whole(d)
  BY <1>1, SettingsAssumption DEF Overwritten, Empty, Documents
<1> HIDE DEF f, d, u
<1>6. /\ \A v \in Writer : update'[v] = IF v = w THEN u ELSE update[v]
      /\ \A g \in Inode : data'[g] = IF g = f THEN Overwritten(data[f], d) ELSE data[g]
      /\ data' \in [Inode -> File]
  BY <1>3, <1>4 DEF Inv, Types
<1>7. Types'
  BY <1>1, <1>2, <1>3, <1>6 DEF Inv, Types
<1>8. ~overlapped => f = tmp /\ tmp # None /\ data[tmp] = Empty
  BY <1>1 DEF Inv, OneUpdate, f
<1>9. WholeUnlessOverlapped'
  BY <1>1, <1>6, <1>8 DEF Inv, Types, WholeUnlessOverlapped, Parses
<1>10. OneUpdate'
  <2> SUFFICES ASSUME ~overlapped' PROVE OneUpdate'
    BY DEF OneUpdate
  <2>1. /\ \A v \in Writer : update'[v].stage \in Changing => v = w
        /\ update'[w].doc.rest = rest'
    BY <1>1, <1>2, <1>6 DEF Inv, OneUpdate, Changing, d
  <2>2. tmp' # None /\ data'[tmp'] = Whole(d)
    BY <1>1, <1>5, <1>6, <1>8 DEF Inv, Types
  <2>3. update'[w].stage = "rename" /\ update'[w].doc = d
    BY <1>2, <1>6
  <2> QED BY <2>1, <2>2, <2>3 DEF OneUpdate, Changing
<1> QED BY <1>7, <1>9, <1>10 DEF Inv

LEMMA RenameStep ==
  ASSUME Inv, NEW w \in Writer, Rename(w)
  PROVE  /\ Inv'
         /\ ~overlapped /\ settings' # settings => data'[settings'] = Whole(update[w].doc)
<1>1. /\ update[w].stage = "rename" /\ update[w].doc \in Documents
      /\ update' = [update EXCEPT ![w] = NoUpdate]
      /\ UNCHANGED <<rest, overlapped>>
  BY DEF Inv, Types, Rename
<1>2. \A v \in Writer : update'[v] = IF v = w THEN NoUpdate ELSE update[v]
  BY <1>1 DEF Inv, Types
<1>3. CASE tmp = None
  <2>1. UNCHANGED <<settings, tmp, data>> /\ overlapped
    BY <1>1, <1>3 DEF Rename, Inv, Types, OneUpdate
  <2>2. Types'
    BY <1>1, <1>2, <2>1, DocumentsParse DEF Inv, Types, NoUpdate
  <2> QED BY <1>1, <2>1, <2>2 DEF Inv, OneUpdate, WholeUnlessOverlapped
<1>4. CASE tmp # None
  <2>1. settings' = tmp /\ tmp' = None /\ data' = Unlinked(data) /\ tmp \in Inode
    BY <1>4 DEF Rename, Inv, Types
  <2>2. data' \in [Inode -> File] /\ data'[settings'] = data[tmp]
    BY <2>1, UnlinkedIs DEF Inv, Types
  <2>3. Types'
    BY <1>1, <1>2, <2>1, <2>2, DocumentsParse, InodesAre DEF Inv, Types, NoUpdate
  <2>4. ~overlapped => data'[settings'] = Whole(update[w].doc) /\ update[w].doc.rest = rest
    BY <1>1, <2>2 DEF Inv, OneUpdate, Changing
  <2>5. WholeUnlessOverlapped'
    BY <1>1, <2>4, DocumentsParse DEF WholeUnlessOverlapped, Parses
  <2>6. OneUpdate'
    BY <1>1, <1>2 DEF Inv, OneUpdate, Changing, NoUpdate
  <2> QED BY <2>3, <2>4, <2>5, <2>6 DEF Inv
<1> QED BY <1>3, <1>4

\* Claude Code replaces the file.
LEMMA EditStep ==
  ASSUME Inv, ClaudeCodeEdits
  PROVE  Inv'
<1> DEFINE d == Doc(data[settings].doc.model, rest + 1)
<1>1. /\ settings' = FreeInode /\ rest' = rest + 1 /\ Parses(settings)
      /\ data' = [Unlinked(data) EXCEPT ![FreeInode] = Whole(d)]
      /\ UNCHANGED <<tmp, update>>
      /\ overlapped' = (overlapped \/ \E w \in Writer : update[w].stage \in Changing)
  BY DEF ClaudeCodeEdits, Changing
<1>2. data[settings].doc \in Documents
  BY <1>1 DEF Parses, Inv, Types, File
<1>3. d \in Documents /\ d.rest = rest'
  BY <1>1, <1>2, DocumentsParse DEF Documents, Inv, Types
<1> HIDE DEF d
<1>4. data' \in [Inode -> File] /\ data'[settings'] = Whole(d)
  BY <1>1, <1>3, DocumentsParse, UnlinkedIs, FreeInodeIs DEF Inv
<1>5. Types'
  BY <1>1, <1>4, FreeInodeIs DEF Inv, Types
<1>6. WholeUnlessOverlapped'
  BY <1>3, <1>4, DocumentsParse DEF WholeUnlessOverlapped, Parses
<1>7. OneUpdate'
  BY <1>1 DEF OneUpdate, Changing
<1> QED BY <1>5, <1>6, <1>7 DEF Inv

\* A rule asks for an update.
LEMMA RuleStep ==
  ASSUME Inv, NEW w \in Writer, RunRule(w)
  PROVE  Inv'
<1>1. update[w].stage = "none" /\ UNCHANGED <<settings, tmp, data, rest, overlapped>>
  BY DEF RunRule, Idle
<1>2. CASE update' = update
  BY <1>1, <1>2 DEF Inv, Types, OneUpdate, WholeUnlessOverlapped, Parses
<1>3. CASE update' # update
  <2>1. PICK m \in Model :
          update' = [update EXCEPT ![w] = [stage |-> "read", doc |-> Doc(m, 0), fd |-> None]]
    BY <1>3 DEF RunRule
  <2> DEFINE u == [stage |-> "read", doc |-> Doc(m, 0), fd |-> None]
  <2>2. u \in Update /\ u.stage = "read" /\ u.doc \in Documents
    BY DocumentsParse DEF Update
  <2> HIDE DEF u
  <2>3. \A v \in Writer : update'[v] = IF v = w THEN u ELSE update[v]
    BY <2>1 DEF u, Inv, Types
  <2>4. update' \in [Writer -> Update]
    BY <2>1, <2>2 DEF u, Inv, Types
  <2>5. Types'
    BY <1>1, <2>2, <2>3, <2>4 DEF Inv, Types
  <2>6. OneUpdate' /\ WholeUnlessOverlapped'
    BY <1>1, <2>2, <2>3 DEF Inv, OneUpdate, WholeUnlessOverlapped, Changing, Parses
  <2> QED BY <2>5, <2>6 DEF Inv
<1> QED BY <1>2, <1>3

\* The service dies.
LEMMA CrashStep ==
  ASSUME Inv, Crash
  PROVE  Inv'
<1>1. /\ \A w \in Writer : update'[w] = NoUpdate
      /\ update' \in [Writer -> Update]
      /\ UNCHANGED <<settings, tmp, data, rest, overlapped>>
  BY DocumentsParse DEF Crash, WritersDie
<1> QED BY <1>1
        DEF Inv, Types, OneUpdate, WholeUnlessOverlapped, Changing, NoUpdate, Parses

\* What leaves the file and the updates alone.
LEMMA ElsewhereStep ==
  ASSUME Inv, UNCHANGED settingsVars
  PROVE  Inv'
  BY DEF settingsVars, Inv, Types, OneUpdate, WholeUnlessOverlapped, Parses

LEMMA NextInv == Inv /\ [Next]_vars => Inv' /\ [InstallsOwn]_vars
<1> SUFFICES ASSUME Inv, [Next]_vars PROVE Inv' /\ InstallsOwn
  OBVIOUS
<1>1. ASSUME UNCHANGED settingsVars PROVE Inv' /\ InstallsOwn
  BY <1>1, ElsewhereStep DEF InstallsOwn, settingsVars
<1>2. ASSUME NEW w \in Writer, ReadDocument(w) \/ OpenTmp(w) \/ WriteTmp(w)
      PROVE  Inv' /\ InstallsOwn
  BY <1>2, ReadStep, OpenStep, WriteStep
  DEF InstallsOwn, ReadDocument, OpenTmp, WriteTmp
<1>3. ASSUME NEW w \in Writer, Rename(w) PROVE Inv' /\ InstallsOwn
  <2>1. \A v \in Writer : v # w => update'[v] = update[v]
    BY <1>3 DEF Rename, Inv, Types
  <2> QED BY <1>3, <2>1, RenameStep DEF InstallsOwn, NoUpdate
<1>4. ASSUME ClaudeCodeEdits PROVE Inv' /\ InstallsOwn
  BY <1>4, EditStep DEF InstallsOwn, ClaudeCodeEdits, NoUpdate
<1>5. ASSUME NEW w \in Writer, RunRule(w) PROVE Inv' /\ InstallsOwn
  BY <1>5, RuleStep DEF InstallsOwn, RunRule
<1>6. ASSUME Crash PROVE Inv' /\ InstallsOwn
  BY <1>6, CrashStep DEF InstallsOwn, Crash
<1>7. ASSUME NEW w \in Writer,
             \/ \E p \in Prompt : HandleHook(w, p)
             \/ \E t \in Target : HandleEscalate(w, t)
             \/ \E level \in DOMAIN EffortToModel : HandleEffort(w, level)
             \/ HandleDeescalate(w) \/ Respond(w)
      PROVE  UNCHANGED settingsVars
  BY <1>7 DEF HandleHook, HandleEscalate, HandleEffort, HandleDeescalate, Begin, Respond
<1>8. ASSUME HandleHookMetrics(2) \/ HandleValidate(3) \/ HandleMakeDecision
      PROVE  UNCHANGED settingsVars
  BY <1>8 DEF HandleHookMetrics, HandleValidate, HandleMakeDecision, LogValidation
<1> QED BY <1>1, <1>2, <1>3, <1>4, <1>5, <1>6, <1>7, <1>8
        DEF Next, WriteSettings, UpdateStep, Edit, vars
-----------------------------------------------------------------------------
LEMMA Invariant == Spec => []Inv
  BY InitInv, NextInv, PTL DEF Spec

\* However many handlers there are and wherever the service dies: until two
\* changes of settings.json overlap, it is a whole document that has every field
\* Claude Code wrote.
THEOREM SettingsStayWhole == Spec => []WholeUnlessOverlapped
<1>1. Inv => WholeUnlessOverlapped
  BY DEF Inv
<1> QED BY <1>1, Invariant, PTL

\* What a handler's rename puts in place is what that handler wrote, although the
\* temporary name is everybody's and a crash may have left another document there.
THEOREM RenameInstallsOwn == Spec => InstallsOwnStep
  BY Invariant, NextInv, PTL DEF Spec, InstallsOwnStep
-----------------------------------------------------------------------------
(* Every step of a handler leaves it less to do                            *)

Rules == [rule : {"frustration", "budget", "command", "success", "effort", "escalate",
                  "deescalate", "setEffort"},
          arg : {"none"} \cup {p.command : p \in Prompt} \cup {p.effort : p \in Prompt}
                \cup Target \cup DOMAIN EffortToModel]
Requests == {Nothing} \cup [kind : {"hook", "escalate", "deescalate", "effort"}]

\* Who serves nothing has no rule to run and no update under way.
WorkInv ==
  /\ todo \in [Writer -> Seq(Rules)]
  /\ serving \in [Writer -> Requests]
  /\ \A w \in Writer : serving[w] = Nothing => todo[w] = <<>> /\ Idle(w)

LEMMA RulesAre ==
  /\ \A p \in Prompt : HookRules(p) \in Seq(Rules)
  /\ \A t \in Target : <<[rule |-> "escalate", arg |-> t]>> \in Seq(Rules)
  /\ \A l \in DOMAIN EffortToModel : <<[rule |-> "setEffort", arg |-> l]>> \in Seq(Rules)
  /\ <<[rule |-> "deescalate", arg |-> "none"]>> \in Seq(Rules)
<1>1. ASSUME NEW p \in Prompt PROVE HookRules(p) \in Seq(Rules)
  <2> DEFINE a == IF p.frustrated THEN <<[rule |-> "frustration", arg |-> "none"]>> ELSE <<>>
             b == IF BudgetRefuses THEN <<[rule |-> "budget", arg |-> "none"]>> ELSE <<>>
             c == IF p.command # "none" THEN <<[rule |-> "command", arg |-> p.command]>> ELSE <<>>
             d == IF p.success THEN <<[rule |-> "success", arg |-> "none"]>> ELSE <<>>
             e == <<[rule |-> "effort", arg |-> p.effort]>>
  <2>1. /\ [rule |-> "frustration", arg |-> "none"] \in Rules
        /\ [rule |-> "budget", arg |-> "none"] \in Rules
        /\ [rule |-> "command", arg |-> p.command] \in Rules
        /\ [rule |-> "success", arg |-> "none"] \in Rules
        /\ [rule |-> "effort", arg |-> p.effort] \in Rules
    BY DEF Rules
  <2>2. /\ a \in Seq(Rules) /\ b \in Seq(Rules) /\ c \in Seq(Rules)
        /\ d \in Seq(Rules) /\ e \in Seq(Rules)
    BY <2>1
  <2>3. HookRules(p) = a \o b \o c \o d \o e
    BY DEF HookRules
  <2> HIDE DEF a, b, c, d, e
  <2> QED BY <2>2, <2>3
<1>2. /\ \A t \in Target : <<[rule |-> "escalate", arg |-> t]>> \in Seq(Rules)
      /\ \A l \in DOMAIN EffortToModel : <<[rule |-> "setEffort", arg |-> l]>> \in Seq(Rules)
      /\ <<[rule |-> "deescalate", arg |-> "none"]>> \in Seq(Rules)
  BY DEF Rules
<1> QED BY <1>1, <1>2

\* What is left is a number, zero for who serves nothing.
LEMMA WorkIs ==
  ASSUME Types, WorkInv, NEW w \in Writer
  PROVE  /\ Len(todo[w]) \in Nat
         /\ StagesLeft[update[w].stage] \in 0..4
         /\ WorkLeft(w) \in Nat
         /\ serving[w] = Nothing <=> WorkLeft(w) = 0
<1>1. Len(todo[w]) \in Nat
  BY DEF WorkInv
<1>2. StagesLeft[update[w].stage] \in 0..4
  BY DEF Types, Update, StagesLeft
<1>3. serving[w] = Nothing => Len(todo[w]) = 0 /\ StagesLeft[update[w].stage] = 0
  BY DEF WorkInv, Idle, StagesLeft
<1>4. /\ serving[w] = Nothing => WorkLeft(w) = 5 * Len(todo[w]) + StagesLeft[update[w].stage] + 0
      /\ serving[w] # Nothing => WorkLeft(w) = 5 * Len(todo[w]) + StagesLeft[update[w].stage] + 1
  BY DEF WorkLeft
<1>5. \A n, x \in Nat : 5 * n + x + 1 \in Nat \ {0}
  OBVIOUS
<1>6. serving[w] = Nothing => WorkLeft(w) = 0
  BY <1>3, <1>4
<1>7. serving[w] # Nothing => WorkLeft(w) \in Nat \ {0}
  BY <1>1, <1>2, <1>4, <1>5
<1> QED BY <1>1, <1>2, <1>6, <1>7

\* A request gives a handler work only when it had none.
LEMMA BeginWork ==
  ASSUME Types, WorkInv, NEW w \in Writer, NEW q \in Requests \ {Nothing},
         NEW rules \in Seq(Rules), Begin(w, q, rules)
  PROVE  WorkInv' /\ WorkShrinks
<1>1. serving[w] = Nothing /\ UNCHANGED update
  BY DEF Begin, settingsVars
<1>2. /\ todo' \in [Writer -> Seq(Rules)] /\ serving' \in [Writer -> Requests]
      /\ serving'[w] = q
      /\ \A v \in Writer \ {w} : todo'[v] = todo[v] /\ serving'[v] = serving[v]
  BY DEF Begin, WorkInv
<1>3. WorkInv'
  BY <1>1, <1>2 DEF WorkInv, Idle
<1>4. WorkLeft(w) = 0
  BY <1>1, WorkIs
<1> QED BY <1>1, <1>2, <1>3, <1>4 DEF WorkShrinks

\* A rule that has run is gone, and its update takes fewer steps than it counted.
LEMMA RuleWork ==
  ASSUME Types, WorkInv, NEW w \in Writer, RunRule(w)
  PROVE  WorkInv' /\ WorkShrinks
<1>1. /\ update[w].stage = "none" /\ todo[w] # <<>> /\ todo[w] \in Seq(Rules)
      /\ UNCHANGED serving /\ todo' = [todo EXCEPT ![w] = Tail(todo[w])]
  BY DEF RunRule, Idle, WorkInv
<1>2. Tail(todo[w]) \in Seq(Rules) /\ Len(Tail(todo[w])) = Len(todo[w]) - 1
  BY <1>1
<1>3. /\ todo' \in [Writer -> Seq(Rules)]
      /\ todo'[w] = Tail(todo[w])
      /\ \A v \in Writer \ {w} : todo'[v] = todo[v]
  BY <1>1, <1>2 DEF WorkInv
<1>4. /\ update'[w].stage \in {"none", "read"}
      /\ \A v \in Writer \ {w} : update'[v] = update[v]
  <2>1. CASE update' = update
    BY <1>1, <2>1
  <2>2. CASE update' # update
    <3>1. PICK m \in Model :
            update' = [update EXCEPT ![w] = [stage |-> "read", doc |-> Doc(m, 0), fd |-> None]]
      BY <2>2 DEF RunRule
    <3> QED BY <3>1 DEF Types
  <2> QED BY <2>1, <2>2
<1>5. serving[w] # Nothing
  BY <1>1 DEF WorkInv
<1>6. WorkInv'
  BY <1>1, <1>3, <1>4, <1>5 DEF WorkInv, Idle
<1>7. WorkLeft(w)' < WorkLeft(w)
  <2>1. StagesLeft[update[w].stage] = 0 /\ StagesLeft[update'[w].stage] \in {0, 4}
    BY <1>1, <1>4 DEF StagesLeft
  <2>2. Len(todo[w]) \in Nat /\ Len(todo'[w]) = Len(todo[w]) - 1
    BY <1>2, <1>3, WorkIs
  <2>3. /\ WorkLeft(w) = 5 * Len(todo[w]) + StagesLeft[update[w].stage] + 1
        /\ WorkLeft(w)' = 5 * Len(todo'[w]) + StagesLeft[update'[w].stage] + 1
    BY <1>1, <1>5 DEF WorkLeft
  <2> QED BY <2>1, <2>2, <2>3
<1> QED BY <1>1, <1>3, <1>4, <1>6, <1>7 DEF WorkShrinks

\* Every step of an update brings it nearer its end, the failed rename as well.
LEMMA UpdateWork ==
  ASSUME Types, WorkInv, NEW w \in Writer, UpdateStep(w), UNCHANGED serviceVars
  PROVE  WorkInv' /\ WorkShrinks
<1>1. UNCHANGED <<todo, serving>>
  BY DEF serviceVars
<1> DEFINE Nearer == /\ update[w].stage \in {"read", "open", "write", "rename"}
                     /\ \A v \in Writer \ {w} : update'[v] = update[v]
                     /\ StagesLeft[update'[w].stage] \in 0..4
                     /\ StagesLeft[update'[w].stage] < StagesLeft[update[w].stage]
<1>2. Nearer
  <2>1. ASSUME ReadDocument(w) PROVE Nearer
    BY <2>1 DEF ReadDocument, Types, StagesLeft, NoUpdate
  <2>2. ASSUME OpenTmp(w) PROVE Nearer
    BY <2>2 DEF OpenTmp, Types, StagesLeft
  <2>3. ASSUME WriteTmp(w) PROVE Nearer
    BY <2>3 DEF WriteTmp, Types, StagesLeft
  <2>4. ASSUME Rename(w) PROVE Nearer
    BY <2>4 DEF Rename, Types, StagesLeft, NoUpdate
  <2> QED BY <2>1, <2>2, <2>3, <2>4 DEF UpdateStep
<1>3. serving[w] # Nothing
  BY <1>2 DEF WorkInv, Idle
<1>4. WorkInv'
  BY <1>1, <1>2, <1>3 DEF WorkInv, Idle
<1>5. WorkLeft(w)' < WorkLeft(w)
  <2>1. StagesLeft[update[w].stage] \in 0..4 /\ Len(todo[w]) \in Nat
    BY WorkIs
  <2>2. /\ WorkLeft(w) = 5 * Len(todo[w]) + StagesLeft[update[w].stage] + 1
        /\ WorkLeft(w)' = 5 * Len(todo[w]) + StagesLeft[update'[w].stage] + 1
    BY <1>1, <1>3 DEF WorkLeft
  <2>3. \A n, x, y \in Nat : x < y => 5 * n + x + 1 < 5 * n + y + 1
    OBVIOUS
  <2>4. StagesLeft[update'[w].stage] \in Nat /\ StagesLeft[update[w].stage] \in Nat
    BY <1>2, <2>1
  <2> QED BY <1>2, <2>1, <2>2, <2>3, <2>4
<1> QED BY <1>1, <1>2, <1>4, <1>5 DEF WorkShrinks

\* The answer is the last of it.
LEMMA RespondWork ==
  ASSUME Types, WorkInv, NEW w \in Writer, Respond(w)
  PROVE  WorkInv' /\ WorkShrinks
<1>1. /\ serving[w] # Nothing /\ Idle(w) /\ todo[w] = <<>>
      /\ serving' = [serving EXCEPT ![w] = Nothing]
      /\ UNCHANGED <<todo, update>>
  BY DEF Respond, settingsVars
<1>2. /\ serving' \in [Writer -> Requests] /\ serving'[w] = Nothing
      /\ \A v \in Writer \ {w} : serving'[v] = serving[v]
  BY <1>1 DEF WorkInv, Requests
<1>3. WorkInv'
  BY <1>1, <1>2 DEF WorkInv, Idle
<1>4. WorkLeft(w)' < WorkLeft(w)
  <2>1. Len(todo[w]) = 0 /\ StagesLeft[update[w].stage] = 0
    BY <1>1 DEF Idle, StagesLeft
  <2>2. WorkLeft(w) = 1 /\ WorkLeft(w)' = 0
    BY <1>1, <1>2, <2>1 DEF WorkLeft
  <2> QED BY <2>2
<1> QED BY <1>1, <1>2, <1>3, <1>4 DEF WorkShrinks

\* A crash leaves nobody anything.
LEMMA CrashWork ==
  ASSUME Types, WorkInv, Crash
  PROVE  WorkInv' /\ WorkShrinks
<1>1. \A w \in Writer : /\ update'[w].stage = "none" /\ todo'[w] = <<>>
                        /\ serving'[w] = Nothing
  BY DEF Crash, WritersDie, NoUpdate
<1>2. todo' \in [Writer -> Seq(Rules)] /\ serving' \in [Writer -> Requests]
  BY DEF Crash, Requests
<1>3. WorkInv'
  BY <1>1, <1>2 DEF WorkInv, Idle
<1>4. \A w \in Writer : WorkLeft(w)' = 0
  BY <1>1 DEF WorkLeft, StagesLeft
<1>5. \A w \in Writer : WorkLeft(w) \in Nat /\ (serving[w] # Nothing => WorkLeft(w) # 0)
                        /\ (serving[w] = Nothing => WorkLeft(w) = 0)
  BY WorkIs
<1> QED BY <1>3, <1>4, <1>5 DEF WorkShrinks

LEMMA InitWork == Init => WorkInv
  BY DEF Init, SettingsInit, WorkInv, Requests, Idle, NoUpdate

LEMMA NextWork == Types /\ WorkInv /\ [Next]_vars => WorkInv' /\ [WorkShrinks]_vars
<1> SUFFICES ASSUME Types, WorkInv, [Next]_vars PROVE WorkInv' /\ WorkShrinks
  OBVIOUS
<1>1. ASSUME UNCHANGED <<update, todo, serving>> PROVE WorkInv' /\ WorkShrinks
  BY <1>1 DEF WorkInv, WorkShrinks, Idle
<1>2. ASSUME NEW w \in Writer,
             \/ \E p \in Prompt : HandleHook(w, p)
             \/ \E t \in Target : HandleEscalate(w, t)
             \/ \E level \in DOMAIN EffortToModel : HandleEffort(w, level)
             \/ HandleDeescalate(w)
      PROVE  WorkInv' /\ WorkShrinks
  <2>1. \E q \in Requests \ {Nothing}, rules \in Seq(Rules) : Begin(w, q, rules)
    <3>1. \A k \in {"hook", "escalate", "deescalate", "effort"} :
            [kind |-> k] \in Requests \ {Nothing}
      BY DEF Requests, Nothing
    <3> QED BY <1>2, <3>1, RulesAre
            DEF HandleHook, HandleEscalate, HandleEffort, HandleDeescalate
  <2> QED BY <2>1, BeginWork
<1>3. ASSUME NEW w \in Writer, RunRule(w) \/ WriteSettings(w) \/ Respond(w)
      PROVE  WorkInv' /\ WorkShrinks
  BY <1>3, RuleWork, UpdateWork, RespondWork DEF WriteSettings
<1>4. ASSUME HandleHookMetrics(2) \/ HandleValidate(3) \/ HandleMakeDecision \/ Edit
      PROVE  UNCHANGED <<update, todo, serving>>
  BY <1>4 DEF HandleHookMetrics, HandleValidate, HandleMakeDecision, LogValidation, Edit,
              ClaudeCodeEdits, settingsVars, serviceVars
<1>5. ASSUME UNCHANGED vars PROVE UNCHANGED <<update, todo, serving>>
  BY <1>5 DEF vars, settingsVars, serviceVars
<1> QED BY <1>1, <1>2, <1>3, <1>4, <1>5, CrashWork DEF Next

\* A handler goes through its rules and updates once: whatever another handler,
\* Claude Code or a crash does to the files, no step gives it work back.
THEOREM WorkIsUsedUp == Spec => WorkShrinksStep
<1>1. Inv => Types
  BY DEF Inv
<1>2. Spec => []WorkInv
  BY <1>1, Invariant, InitWork, NextWork, PTL DEF Spec
<1> QED BY <1>1, <1>2, Invariant, NextWork, PTL DEF Spec, WorkShrinksStep

\* Every step of a handler installs its own document at most and brings the
\* handler nearer its answer.
THEOREM HandlersGoForward == Spec => HandlerSteps
BY RenameInstallsOwn, WorkIsUsedUp DEF HandlerSteps
=============================================================================
