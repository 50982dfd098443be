---------------------------- MODULE SettingsFile ----------------------------
(***************************************************************************)
(* ~/.claude/settings.json as ReadClaudeSettings and WriteClaudeSettings of *)
(* internal/config/config.go use it: a writer reads the document, changes  *)
(* the model and the effort level, writes settings.json.tmp, one name for  *)
(* every writer, and renames it.  The handlers of the service are the      *)
(* writers and run concurrently; Claude Code replaces the file as well.    *)
(***************************************************************************)
EXTENDS Integers, FiniteSets

CONSTANTS
  Writer,      \* goroutines of handlers
  Model,       \* model names, short and full
  LengthOf,    \* how long a document with that model is
  FirstModel,  \* the model of the document at the start
  MaxEdits     \* bound on the replacements by Claude Code

ASSUME SettingsAssumption ==
  /\ IsFiniteSet(Writer)
  /\ LengthOf \in [Model -> Nat \ {0}]
  /\ FirstModel \in Model /\ "none" \notin Model
  /\ MaxEdits \in Nat

VARIABLES
  settings,    \* the inode settings.json names
  tmp,         \* the inode settings.json.tmp names, or None
  data,        \* what each inode holds: [size, doc]
  update,      \* WriteClaudeSettings of each writer
  rest,        \* the other fields as Claude Code last wrote them: a version
  overlapped   \* history: two updates, or one and an edit, ran at once

settingsVars == <<settings, tmp, data, update, rest, overlapped>>

\* One inode for each open descriptor, the two names, and a free one.
Inode == 1..(Cardinality(Writer) + 3)
None == 0

\* A document has the model, the effort level derived from it, and the other
\* fields; NoDoc is text json.Unmarshal refuses, the empty text included.
Doc(m, r) == [model |-> m, rest |-> r]
NoDoc == [model |-> "none", rest |-> 0]
Parses(f) == data[f].doc # NoDoc
Empty == [size |-> 0, doc |-> NoDoc]
Whole(d) == [size |-> LengthOf[d.model], doc |-> d]

NoUpdate == [stage |-> "none", doc |-> NoDoc, fd |-> None]
Idle(w) == update[w].stage = "none"

SettingsInit ==
  /\ settings = 1 /\ tmp = None
  /\ data = [f \in Inode |-> IF f = 1 THEN Whole(Doc(FirstModel, 0)) ELSE Empty]
  /\ update = [w \in Writer |-> NoUpdate]
  /\ rest = 0
  /\ overlapped = FALSE

FreeInode ==
  CHOOSE f \in Inode \ ({settings, tmp} \cup {update[w].fd : w \in Writer}) : TRUE

\* The inode settings.json named is gone once no descriptor holds it.
Unlinked(d) ==
  IF \E w \in Writer : update[w].fd = settings THEN d ELSE [d EXCEPT ![settings] = Empty]
-----------------------------------------------------------------------------
(* WriteClaudeSettings(model), which has been called: stage "read"          *)

\* os.ReadFile and json.Unmarshal: a document that does not parse ends it.
ReadDocument(w) ==
  /\ update[w].stage = "read"
  /\ LET m == update[w].doc.model IN
       update' = [update EXCEPT ![w] =
         IF Parses(settings)
         THEN [stage |-> "open", doc |-> Doc(m, data[settings].doc.rest), fd |-> None]
         ELSE NoUpdate]
  /\ overlapped' = (overlapped \/ (Parses(settings) /\ \E v \in Writer \ {w} :
                       update[v].stage \in {"open", "write", "rename"}))
  /\ UNCHANGED <<settings, tmp, data, rest>>

\* Faulty variant: a whole document under the temporary name is taken for the
\* writer's own.
OpenTmpReusing(w) ==
  /\ update[w].stage = "open"
  /\ LET reuse == tmp # None /\ Parses(tmp)
         f == IF tmp = None THEN FreeInode ELSE tmp IN
       /\ tmp' = f
       /\ data' = IF reuse THEN data ELSE [data EXCEPT ![f] = Empty]
       /\ update' = [update EXCEPT ![w] =
            [stage |-> IF reuse THEN "rename" ELSE "write", doc |-> @.doc,
             fd |-> IF reuse THEN None ELSE f]]
  /\ UNCHANGED <<settings, rest, overlapped>>

\* os.WriteFile opens the name: an inode that is there is cut to nothing.
OpenTmp(w) ==
  /\ update[w].stage = "open"
  /\ LET f == IF tmp = None THEN FreeInode ELSE tmp IN
       /\ tmp' = f
       /\ data' = [data EXCEPT ![f] = Empty]
       /\ update' = [update EXCEPT ![w] = [stage |-> "write", doc |-> @.doc, fd |-> f]]
  /\ UNCHANGED <<settings, rest, overlapped>>

\* The text goes over what the inode holds by now, which may be longer.
Overwritten(old, d) ==
  IF LengthOf[d.model] >= old.size THEN Whole(d) ELSE [size |-> old.size, doc |-> NoDoc]

WriteTmp(w) ==
  /\ update[w].stage = "write"
  /\ LET f == update[w].fd IN
       data' = [data EXCEPT ![f] = Overwritten(@, update[w].doc)]
  /\ update' = [update EXCEPT ![w] = [stage |-> "rename", doc |-> @.doc, fd |-> None]]
  /\ UNCHANGED <<settings, tmp, rest, overlapped>>

\* Faulty variant: a writer whose file was renamed away waits for another.
RenameWaits(w) ==
  /\ update[w].stage = "rename" /\ tmp # None
  /\ update' = [update EXCEPT ![w] = NoUpdate]
  /\ settings' = tmp /\ tmp' = None /\ data' = Unlinked(data)
  /\ UNCHANGED <<rest, overlapped>>

\* Faulty variant: and writes its own again.
RenameRetries(w) ==
  /\ update[w].stage = "rename"
  /\ update' = [update EXCEPT ![w] = IF tmp = None THEN [@ EXCEPT !.stage = "open"] ELSE NoUpdate]
  /\ IF tmp = None THEN UNCHANGED <<settings, tmp, data>>
                   ELSE settings' = tmp /\ tmp' = None /\ data' = Unlinked(data)
  /\ UNCHANGED <<rest, overlapped>>

\* os.Rename: an error when another writer has renamed the file away.
Rename(w) ==
  /\ update[w].stage = "rename"
  /\ update' = [update EXCEPT ![w] = NoUpdate]
  /\ IF tmp = None THEN UNCHANGED <<settings, tmp, data>>
                   ELSE settings' = tmp /\ tmp' = None /\ data' = Unlinked(data)
  /\ UNCHANGED <<rest, overlapped>>

UpdateStep(w) == ReadDocument(w) \/ OpenTmp(w) \/ WriteTmp(w) \/ Rename(w)
-----------------------------------------------------------------------------
\* Claude Code changes another field and puts a whole new file in place.
ClaudeCodeEdits ==
  /\ rest < MaxEdits /\ Parses(settings)
  /\ rest' = rest + 1
  /\ settings' = FreeInode
  /\ data' = [Unlinked(data) EXCEPT
                ![FreeInode] = Whole(Doc(data[settings].doc.model, rest + 1))]
  /\ overlapped' = (overlapped \/ \E w \in Writer :
                      update[w].stage \in {"open", "write", "rename"})
  /\ UNCHANGED <<tmp, update>>

\* The service is killed: its updates end where they are, the files stay.
WritersDie == update' = [w \in Writer |-> NoUpdate]
-----------------------------------------------------------------------------
SettingsTypeOK ==
  /\ settings \in Inode /\ tmp \in Inode \cup {None} /\ settings # tmp
  /\ rest \in Nat
  /\ \A w \in Writer : update[w].stage \in {"none", "read", "open", "write", "rename"}
  /\ \A f \in Inode : data[f].size \in Nat

\* Until two updates run at once, or Claude Code replaces the file in the
\* middle of one, settings.json is a whole document with every field Claude
\* Code wrote, wherever an update stands and wherever a crash cut one off.
WholeUnlessOverlapped ==
  ~overlapped => Parses(settings) /\ data[settings].doc.rest = rest
=============================================================================
