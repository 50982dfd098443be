----------------------------- MODULE CodeGraph -----------------------------
(***************************************************************************)
(* internal/indexing over internal/graph: workers parse a source file and  *)
(* write its entities and calls into an SQLite graph, one lock of the      *)
(* database per row; a watcher indexes a file again after it changed.  The *)
(* graph outlives the process, the indexer's maps do not.                  *)
(***************************************************************************)
EXTENDS Integers, Sequences, FiniteSets

CONSTANTS
  Worker,     \* goroutines that call IndexFile (IndexDirectory, WatchFile)
  Watcher,    \* the one that runs WatchFile
  Text,       \* contents the file may have: sequences of lines
  Language,   \* "go", "python" or "typescript"
  MaxEdits    \* bound on the changes of the file

Line == [kind : STRING, name : STRING, calls : SUBSET STRING]

ASSUME GraphAssumption ==
  /\ IsFiniteSet(Worker) /\ Watcher \in Worker
  /\ Language \in {"go", "python", "typescript"}
  /\ MaxEdits \in Nat
  /\ Text \subseteq Seq(Line)

VARIABLES
  text,      \* the file's present content
  edits,     \* how often it has changed
  nodes,     \* rows of the nodes table: <<line, name>> stands for file:line:name
  edges,     \* rows of the edges table: <<source, target>>
  tracked,   \* ci.fileNodes[file]: a set of node ids, or {} while untracked
  watch,     \* WatchFile: "off", "idle", "pending" (the debounce timer runs)
  job,       \* IndexFile of each worker: [stage, entities, calls, all]
  loose,     \* history: edges inserted on a connection without foreign keys
  deleted    \* history: nodes deleted by Clear

graphVars == <<text, edits, nodes, edges, tracked, watch, job, loose, deleted>>
-----------------------------------------------------------------------------
(* The parsers: a line declares [kind, name] ("none" for neither) and calls *)
(* names; the patterns of a language take some kinds for entities.  In     *)
(* TypeScript "const name =" is a function as well.                        *)

GoKinds == {"function", "struct", "interface", "import"}
PythonKinds == {"function", "class", "import"}
TypeScriptKinds == {"function", "const", "class", "interface", "import"}
Kinds == IF Language = "go" THEN GoKinds
         ELSE IF Language = "python" THEN PythonKinds ELSE TypeScriptKinds

Entities(c) == {<<l, c[l].name>> : l \in {k \in 1..Len(c) : c[k].kind \in Kinds}}
Functions(c) == {e \in Entities(c) : c[e[1]].kind \in {"function", "const"}}

\* The lines searched for calls: the Python and TypeScript parsers skip the
\* declarations, but not those by "const"; the Go parser does not, so
\* "func name(" looks like a call.
GoCallLines(c) == 1..Len(c)
PythonCallLines(c) == {l \in 1..Len(c) : c[l].kind # "function"}
TypeScriptCallLines(c) == {l \in 1..Len(c) : c[l].kind \notin {"function", "class"}}
CallLines(c) == IF Language = "go" THEN GoCallLines(c)
                ELSE IF Language = "python" THEN PythonCallLines(c)
                ELSE TypeScriptCallLines(c)
NamesIn(line) == line.calls \cup (IF line.kind = "function" THEN {line.name} ELSE {})

\* extractCalls: the function of that name declared last is called by the
\* function declared last above the line, unless the names are equal.
Above(c, l) == {e \in Functions(c) : e[1] < l}
Calls(c) ==
  {call \in Functions(c) \X Functions(c) :
     LET s == call[1] t == call[2] IN
     \E l \in CallLines(c) :
       /\ t[2] \in NamesIn(c[l]) /\ \A e \in Functions(c) : e[2] = t[2] => e[1] <= t[1]
       /\ s \in Above(c, l) /\ \A e \in Above(c, l) : e[1] <= s[1]
       /\ s[2] # t[2]}

NoJob == [stage |-> "none", entities |-> {}, calls |-> {}, all |-> {}]
-----------------------------------------------------------------------------
GraphInit ==
  /\ text \in Text
  /\ edits = 0
  /\ nodes = {} /\ edges = {} /\ tracked = {}
  /\ loose = {} /\ deleted = {}
  /\ watch = "off"
  /\ job = [w \in Worker |-> NoJob]

Parsed(c) == [stage |-> "nodes", entities |-> Entities(c), calls |-> Calls(c),
              all |-> Entities(c)]

\* IndexFile reads and parses the file.
Read(w) ==
  /\ job[w].stage = "none" /\ w # Watcher
  /\ job' = [job EXCEPT ![w] = Parsed(text)]
  /\ UNCHANGED <<text, edits, nodes, edges, tracked, watch, loose, deleted>>

\* WatchFile: the watch is set before the first indexing.
Watch ==
  /\ watch = "off" /\ job[Watcher].stage = "none"
  /\ watch' = "idle"
  /\ job' = [job EXCEPT ![Watcher] = Parsed(text)]
  /\ UNCHANGED <<text, edits, nodes, edges, tracked, loose, deleted>>

\* The debounce timer fires: the file is indexed again.
Debounced ==
  /\ watch = "pending" /\ job[Watcher].stage = "none"
  /\ watch' = "idle"
  /\ job' = [job EXCEPT ![Watcher] = Parsed(text)]
  /\ UNCHANGED <<text, edits, nodes, edges, tracked, loose, deleted>>

\* Somebody saves the file; each event restarts the timer.
Edit(c) ==
  /\ edits < MaxEdits /\ c # text
  /\ text' = c
  /\ edits' = edits + 1
  /\ watch' = IF watch = "off" THEN "off" ELSE "pending"
  /\ UNCHANGED <<nodes, edges, tracked, job, loose, deleted>>

\* CreateNode, for the entities in the order of their lines: an id that is
\* already there is an error, and IndexFile gives up with the rows written so
\* far in place and nothing tracked.
CreateNode(w, e) ==
  /\ job[w].stage = "nodes" /\ e \in job[w].entities
  /\ \A d \in job[w].entities : e[1] <= d[1]
  /\ IF e \in nodes
     THEN job' = [job EXCEPT ![w] = NoJob] /\ UNCHANGED nodes
     ELSE /\ nodes' = nodes \cup {e}
          /\ job' = [job EXCEPT ![w].entities = @ \ {e}]
  /\ UNCHANGED <<text, edits, edges, tracked, watch, loose, deleted>>

NodesDone(w) ==
  /\ job[w].stage = "nodes" /\ job[w].entities = {}
  /\ job' = [job EXCEPT ![w].stage = "edges"]
  /\ UNCHANGED <<text, edits, nodes, edges, tracked, watch, loose, deleted>>

\* CreateEdge: errors are skipped.  The pragma that enforces foreign keys was
\* set on one connection of the pool; on another one the ends are not checked.
CreateEdge(w, c, enforced) ==
  /\ job[w].stage = "edges" /\ c \in job[w].calls
  /\ job' = [job EXCEPT ![w].calls = @ \ {c}]
  /\ IF c \notin edges /\ (enforced => {c[1], c[2]} \subseteq nodes)
     THEN /\ edges' = edges \cup {c}
          /\ loose' = IF enforced THEN loose ELSE loose \cup {c}
     ELSE UNCHANGED <<edges, loose, deleted>>
  /\ UNCHANGED <<text, edits, nodes, tracked, watch, deleted>>

\* Faulty variant: the file is tracked although rows failed.
TrackEarly(w) ==
  /\ job[w].stage = "nodes"
  /\ tracked' = job[w].all
  /\ job' = [job EXCEPT ![w] = NoJob]
  /\ UNCHANGED <<text, edits, nodes, edges, watch, loose, deleted>>

\* All rows are in: the file is tracked.
Track(w) ==
  /\ job[w].stage = "edges" /\ job[w].calls = {}
  /\ tracked' = job[w].all
  /\ job' = [job EXCEPT ![w] = NoJob]
  /\ UNCHANGED <<text, edits, nodes, edges, watch, loose, deleted>>

\* Clear of the graph: both tables under one lock; the indexer is not told.
ClearGraph ==
  /\ nodes' = {} /\ edges' = {} /\ loose' = {}
  /\ deleted' = deleted \cup nodes
  /\ UNCHANGED <<text, edits, tracked, watch, job>>

\* The process ends and is started again: the database remains.
Restart ==
  /\ job' = [w \in Worker |-> NoJob]
  /\ tracked' = {}
  /\ watch' = "off"
  /\ UNCHANGED <<text, edits, nodes, edges, loose, deleted>>

GraphNext ==
  \/ \E w \in Worker :
       \/ Read(w) \/ NodesDone(w) \/ Track(w)
       \/ \E e \in job[w].entities : CreateNode(w, e)
       \/ \E c \in job[w].calls, enforced \in BOOLEAN : CreateEdge(w, c, enforced)
  \/ \E c \in Text : Edit(c)
  \/ Watch \/ Debounced \/ ClearGraph \/ Restart

-----------------------------------------------------------------------------
(* What the graph layer reads                                              *)

\* FindCallers(name): by name, over every version that was ever indexed.
FindCallers(name) == {e[1] : e \in {d \in edges : d[2][2] = name} } \cap nodes
-----------------------------------------------------------------------------
(* What must hold                                                          *)

\* A call recorded on a checked connection has both its functions in the
\* graph, over any interleaving of indexers, clears and restarts.
CheckedEdgesHaveEnds ==
  \A e \in edges \ loose : e[1] \in nodes /\ e[2] \in nodes

\* What the indexer tracks of a file was stored, and only Clear takes it out
\* again, although rows are written one by one, by several workers, any of
\* which may fail in the middle.
TrackedIsStored == tracked \subseteq nodes \cup deleted
=============================================================================
