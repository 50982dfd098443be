----------------------------- MODULE ModelStore -----------------------------
(***************************************************************************)
(* internal/models: loaders of one model and one type.  Each looks for the   *)
(* model in memory and on disk, downloads it through one temporary name and  *)
(* renames it, publishes it and infers with it, while models are unloaded,   *)
(* the cache directory is removed and the process dies.  A file is an inode   *)
(* of Chunks parts, written at each writer's own position.                  *)
(***************************************************************************)
EXTENDS Integers, FiniteSets

CONSTANTS
  Loader,   \* goroutines calling Infer
  Chunks,   \* parts of the model's file
  Inodes    \* bound on the files ever created

ASSUME StoreAssumption == {Chunks, Inodes} \subseteq Nat \ {0}

NoFile == 0
Attempts == 3
Idle == [at |-> "idle", file |-> NoFile, pos |-> 0]

VARIABLES
  cached, tmp,  \* the inode under the model's name and under its .tmp name
  content,      \* the parts each inode holds
  made,         \* number of inodes created
  loader,       \* where each loader is, its open file and position (or attempt)
  loaded,       \* loadedModels has the model
  inferred,     \* inferenceCache has results of its type
  unloading,    \* UnloadModel is between its two critical sections
  shared,       \* history: files a second loader opened, or renamed for another
  broken,       \* history: of these, the ones in which a copy broke off
  straggler     \* history: an inference outlived the unloading of its model

storeVars == <<cached, tmp, content, made, loader, loaded, inferred, unloading, shared, broken, straggler>>
fileVars == <<cached, tmp, content, made, shared, broken>>
modelVars == <<loaded, inferred, unloading, straggler>>

Whole == 1..Chunks
At(l, stage) == loader[l].at = stage
Goes(l, to) == loader' = [loader EXCEPT ![l] = to]
Stage(s) == [Idle EXCEPT !.at = s]
Copying(i) == {l \in Loader : loader[l].file = i /\ At(l, "copy")}
-----------------------------------------------------------------------------
StoreInit ==
  /\ cached = NoFile /\ tmp = NoFile
  /\ content = [i \in 1..Inodes |-> {}]
  /\ made = 0
  /\ loader = [l \in Loader |-> Idle]
  /\ loaded = FALSE /\ inferred = FALSE /\ unloading = FALSE
  /\ shared = {} /\ broken = {}
  /\ straggler = FALSE

\* LoadModel and EnsureModel: in memory, on disk, or to be downloaded.
Look(l) ==
  /\ At(l, "idle")
  /\ Goes(l, IF loaded THEN Stage("infer") ELSE IF cached # NoFile THEN Stage("publish")
             ELSE [Stage("request") EXCEPT !.pos = 1])
  /\ UNCHANGED <<fileVars, modelVars>>

\* downloadFromHuggingFace: three attempts, then an error.
RequestFails(l) ==
  /\ At(l, "request")
  /\ Goes(l, IF loader[l].pos < Attempts THEN [loader[l] EXCEPT !.pos = @ + 1] ELSE Idle)
  /\ UNCHANGED <<fileVars, modelVars>>

\* os.Create truncates the file a .tmp name already stands for.
Create(l) ==
  /\ At(l, "request")
  /\ IF tmp # NoFile
     THEN UNCHANGED <<tmp, made>>
     ELSE made < Inodes /\ made' = made + 1 /\ tmp' = made'
  /\ content' = [content EXCEPT ![tmp'] = {}]
  /\ Goes(l, [at |-> "copy", file |-> tmp', pos |-> 0])
  /\ shared' = IF \E k \in Loader : loader[k].file = tmp' THEN shared \cup {tmp'} ELSE shared \ {tmp'}
  /\ UNCHANGED <<cached, broken, modelVars>>

\* io.Copy writes the next part; after the last one it returns.
Copy(l) ==
  /\ At(l, "copy")
  /\ IF loader[l].pos < Chunks
     THEN /\ content' = [content EXCEPT ![loader[l].file] = @ \cup {loader[l].pos + 1}]
          /\ Goes(l, [loader[l] EXCEPT !.pos = @ + 1])
     ELSE Goes(l, [loader[l] EXCEPT !.at = "rename"]) /\ UNCHANGED content
  /\ UNCHANGED <<cached, tmp, made, shared, broken, modelVars>>

\* The client's timeout or the connection ends the copy; the name is removed,
\* whichever file it stands for.
CopyFails(l) ==
  /\ At(l, "copy")
  /\ broken' = broken \cup ({loader[l].file} \cap shared)
  /\ tmp' = NoFile
  /\ Goes(l, Idle)
  /\ UNCHANGED <<cached, content, made, shared, modelVars>>

\* Faulty variant: the model is copied under its final name.
RenameEarly(l) ==
  /\ tmp # NoFile
  /\ At(l, "copy") \/ At(l, "rename")
  /\ cached' = tmp /\ tmp' = NoFile /\ Goes(l, IF At(l, "copy") THEN loader[l] ELSE Stage("publish"))
  /\ shared' = shared \cup ({tmp} \ {loader[l].file})
  /\ UNCHANGED <<content, made, broken, modelVars>>

\* os.Rename moves what the name stands for now; without the name it fails.
Rename(l) ==
  /\ At(l, "rename")
  /\ IF tmp = NoFile
     THEN Goes(l, Idle) /\ UNCHANGED <<cached, tmp, shared>>
     ELSE /\ cached' = tmp /\ tmp' = NoFile /\ Goes(l, Stage("publish"))
          /\ shared' = shared \cup ({tmp} \ {loader[l].file})
  /\ UNCHANGED <<content, made, broken, modelVars>>

\* LoadModel's end; two loaders may both come here.
Publish(l) ==
  /\ At(l, "publish")
  /\ loaded' = TRUE
  /\ Goes(l, Stage("infer"))
  /\ UNCHANGED <<fileVars, inferred, unloading, straggler>>

\* inferIntent and its like: the result is stored unless it is there.
Infer(l) ==
  /\ At(l, "infer")
  /\ inferred' = TRUE
  /\ straggler' = (straggler \/ ~loaded \/ unloading)
  /\ Goes(l, Idle)
  /\ UNCHANGED <<fileVars, loaded, unloading>>

\* UnloadModel, first the model and then its results.
Unload ==
  /\ ~unloading
  /\ loaded' = FALSE /\ unloading' = TRUE
  /\ UNCHANGED <<fileVars, loader, inferred, straggler>>
DropResults ==
  /\ unloading
  /\ inferred' = FALSE /\ unloading' = FALSE
  /\ UNCHANGED <<fileVars, loader, loaded, straggler>>

\* ClearInferenceCache
ClearInferenceCache ==
  inferred' = FALSE /\ UNCHANGED <<fileVars, loader, loaded, unloading, straggler>>

\* ClearCache removes the directory; open files live on without a name.
ClearCache ==
  /\ cached' = NoFile /\ tmp' = NoFile
  /\ UNCHANGED <<content, made, shared, broken, loader, modelVars>>

\* The process dies: its memory goes, its files stay.
Die ==
  /\ broken' = broken \cup {i \in shared : Copying(i) # {}}
  /\ loader' = [l \in Loader |-> Idle]
  /\ loaded' = FALSE /\ inferred' = FALSE /\ unloading' = FALSE
  /\ UNCHANGED <<cached, tmp, content, made, shared, straggler>>

StoreNext ==
  \/ \E l \in Loader :
       \/ Look(l) \/ RequestFails(l) \/ Create(l) \/ Copy(l) \/ CopyFails(l)
       \/ Rename(l) \/ Publish(l) \/ Infer(l)
  \/ Unload \/ DropResults \/ ClearInferenceCache \/ ClearCache \/ Die

StoreSpec == StoreInit /\ [][StoreNext]_storeVars
-----------------------------------------------------------------------------
(* What must hold                                                          *)

\* A model in the cache that nobody is writing is whole, after every crash and
\* broken download: it is cut short only where a copy broke off in a file that a
\* second loader had opened too, or had renamed.
CachedIsWhole ==
  cached # NoFile /\ Copying(cached) = {} /\ cached \notin broken => content[cached] = Whole

\* Results outlive their model only through an inference that was under way.
ResultsFollowModel == inferred => loaded \/ unloading \/ straggler

\* The store of models is sound, on disk and in memory.
StoreIsSound == CachedIsWhole /\ ResultsFollowModel
=============================================================================
