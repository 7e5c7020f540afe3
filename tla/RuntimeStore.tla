---------------------------- MODULE RuntimeStore ----------------------------
(***************************************************************************)
(* The manager-owned runtime directory (config/runtime_store.rs): staging, *)
(* installing, backing up, restoring and removing the files of an epoch,   *)
(* one file system call per step, with I/O errors, dropped request futures *)
(* and process or power failures between and inside the calls.             *)
(*                                                                         *)
(* entries is the directory as the process sees it, durable the one a      *)
(* power failure may fall back to; a file is [data, synced], data = 0 for  *)
(* incomplete contents.  A file name is [kind, epoch, id].                 *)
(***************************************************************************)
EXTENDS Naturals, FiniteSets

CONSTANTS StoreEpochs,      \* epochs whose files the directory may hold
          MaxStages,        \* bound on TEMP_COUNTER
          MaxStoreFaults    \* bound on errors, drops and failures

VARIABLES platform, entries, durable, guards, call, counter, storeFaults, phase, todoEpochs,
          promised,   \* per epoch, the documents of which one must be in place
          cleaned,    \* epochs whose cleanup was reported
          stuck       \* staged files whose removal failed

storeVars == <<platform, entries, durable, guards, call, counter, storeFaults, phase, todoEpochs,
               promised, cleaned, stuck>>

Name(kind, e, n) == [kind |-> kind, epoch |-> e, id |-> n]
Temp(e, n)   == Name("temp", e, n)
Runtime(e)   == Name("runtime", e, 0)
Copy(e, g)   == Name("backup", e, g)
FileKinds == {"temp", "runtime", "backup", "pid", "pidTemp", "socket"}

NoFiles == [n \in {} |-> 0]
With(dir, n, file) == [m \in DOMAIN dir \cup {n} |-> IF m = n THEN file ELSE dir[m]]
Removed(dir, n) == [m \in DOMAIN dir \ {n} |-> dir[m]]
Renamed(dir, from, to) == Removed(With(dir, to, dir[from]), from)
Of(dir, e) == {n \in DOMAIN dir : n.epoch = e}

NoCall == [op |-> "idle", at |-> "", epoch |-> 0, id |-> 0, data |-> 0, left |-> {}]

StoreInit ==
  /\ platform \in {"unix", "windows"}
  /\ entries = NoFiles /\ durable = NoFiles /\ guards = {} /\ call = NoCall
  /\ counter = 0 /\ storeFaults = 0 /\ phase = "serving" /\ todoEpochs = {}
  /\ promised = [e \in StoreEpochs |-> {}] /\ cleaned = {} /\ stuck = {}

Fault == storeFaults < MaxStoreFaults /\ storeFaults' = storeFaults + 1

\* What a step of a call leaves alone when it only changes the directory.
Bookkeeping == UNCHANGED <<platform, counter, phase, todoEpochs>>

\* StagedRuntimeConfig::drop: a guard that was not consumed removes its file,
\* and does not look at the result.
Unlinked(dir, n) == Removed(dir, n)
Unlinks(n) ==
  \/ entries' = Unlinked(entries, n) /\ UNCHANGED stuck
  \/ UNCHANGED entries /\ stuck' = stuck \cup {n}
GivesUp(n) == Unlinks(n) /\ IF UNCHANGED stuck THEN UNCHANGED storeFaults ELSE Fault
Unstage(dir) == Unlinked(dir, Temp(call.epoch, call.id))

-----------------------------------------------------------------------------
(* Calls.                                                                  *)

Begin(op, at, e, id, data, left) ==
  /\ phase = "serving" /\ call = NoCall
  /\ call' = [op |-> op, at |-> at, epoch |-> e, id |-> id, data |-> data, left |-> left]

\* stage: the temporary name carries a counter, so that it is always new.
BeginStage(e) ==
  /\ counter < MaxStages /\ counter' = counter + 1
  /\ Begin("stage", "create", e, counter + 1, counter + 1, {})
  /\ cleaned' = cleaned \ {e}
  /\ UNCHANGED <<platform, entries, durable, guards, storeFaults, phase, todoEpochs, promised, stuck>>

\* backup and restore: read the source, then stage its contents.
BeginCopy(e, op, source) ==
  /\ counter < MaxStages /\ counter' = counter + 1
  /\ source \in DOMAIN entries
  /\ Begin(op, "create", e, counter + 1, entries[source].data, {})
  /\ UNCHANGED <<platform, entries, durable, guards, storeFaults, phase, todoEpochs, promised,
                 cleaned, stuck>>
BeginBackup(e) == BeginCopy(e, "backup", Runtime(e))
BeginRestore(e) ==
  /\ Runtime(e) \in DOMAIN entries
  /\ \E n \in Of(entries, e) : n.kind = "backup" /\ BeginCopy(e, "restore", n)

\* commit_new and commit_replace: the guard is of this epoch, and the target is
\* absent or present; otherwise the guard is dropped with the error.
BeginCommit(e, op) ==
  \E n \in guards :
    LET present == Runtime(e) \in DOMAIN entries
        fits    == n.epoch = e /\ n \in DOMAIN entries /\ present = (op = "replace")
    IN  /\ n.epoch = e
        /\ guards' = guards \ {n}
        /\ phase = "serving" /\ call = NoCall
        /\ IF fits
           THEN /\ call' = [op |-> op, at |-> "install", epoch |-> e, id |-> n.id,
                            data |-> entries[n].data, left |-> {}]
                /\ UNCHANGED <<entries, storeFaults, stuck>>
           ELSE GivesUp(n) /\ UNCHANGED call
        /\ UNCHANGED <<durable, promised, cleaned>> /\ Bookkeeping

\* A guard the caller drops without a commit.
DropGuard ==
  \E n \in guards :
    /\ phase = "serving" /\ call = NoCall
    /\ guards' = guards \ {n} /\ GivesUp(n)
    /\ UNCHANGED <<durable, call, promised, cleaned>> /\ Bookkeeping

\* open(create_new), write_all and flush, sync_all.
Staging == call.at \in {"create", "write", "sync"}
StagedFile ==
  [data |-> IF call.at = "create" THEN 0 ELSE call.data, synced |-> call.at = "sync"]
Staged == With(entries, Temp(call.epoch, call.id), StagedFile)
NextStep ==
  CASE call.at = "create" -> "write" [] call.at = "write" -> "sync" [] OTHER -> "install"

StageStep ==
  /\ Staging
  /\ entries' = Staged
  /\ IF call.op = "stage" /\ call.at = "sync"
     THEN guards' = guards \cup {Temp(call.epoch, call.id)} /\ call' = NoCall
     ELSE call' = [call EXCEPT !.at = NextStep] /\ UNCHANGED guards
  /\ UNCHANGED <<durable, storeFaults, promised, cleaned, stuck>> /\ Bookkeeping

\* A failing write or sync removes the file, and the removal may fail as well; a
\* failing set_permissions leaves it.
StageFails ==
  /\ Staging /\ Fault
  /\ IF call.at = "create" THEN UNCHANGED entries
     ELSE entries' \in {Unstage(entries), entries}
  /\ call' = NoCall
  /\ UNCHANGED <<durable, guards, promised, cleaned, stuck>> /\ Bookkeeping

\* atomic_move_new and atomic_replace.  A backup is named by the generation of
\* the document it holds.
Target == IF call.op = "backup" THEN Copy(call.epoch, call.data) ELSE Runtime(call.epoch)
Taken == call.op = "backup" /\ Target \in DOMAIN entries
Installed == Renamed(entries, Temp(call.epoch, call.id), Target)
Reaches(e, data) ==
  [promised EXCEPT ![e] = IF @ = {} THEN {} ELSE @ \cup {data}]

Install ==
  /\ call.at = "install" /\ ~Taken
  /\ entries' = Installed
  /\ call' = [call EXCEPT !.at = "syncDir"]
  /\ promised' = IF call.op = "backup" THEN promised ELSE Reaches(call.epoch, call.data)
  /\ UNCHANGED <<durable, guards, storeFaults, cleaned, stuck>> /\ Bookkeeping

\* The rename fails; the guard is dropped.
InstallFails ==
  /\ call.at = "install" /\ Fault
  /\ Unlinks(Temp(call.epoch, call.id)) /\ call' = NoCall
  /\ UNCHANGED <<durable, guards, promised, cleaned>> /\ Bookkeeping

\* validate_absent_regular_target: there is a backup of this generation.
BackupTaken ==
  /\ call.at = "install" /\ Taken
  /\ GivesUp(Temp(call.epoch, call.id)) /\ call' = NoCall
  /\ UNCHANGED <<durable, guards, promised, cleaned>> /\ Bookkeeping

\* sync_dir, and what the caller is told: a path, a backup, or an installed
\* commit that is durable.  Windows has no such sync.
ReportsEarly(dir) == UNCHANGED durable
SyncsDirectory(dir) == durable' = IF platform = "unix" THEN dir ELSE durable
SyncDir ==
  /\ call.at = "syncDir"
  /\ SyncsDirectory(entries)
  /\ promised' = IF call.op = "backup" THEN promised ELSE [promised EXCEPT ![call.epoch] = {call.data}]
  /\ call' = NoCall
  /\ UNCHANGED <<entries, guards, storeFaults, cleaned, stuck>> /\ Bookkeeping

\* installed_commit: a failed sync is an uncertain commit, or the error of
\* commit_new and backup; the file stays installed either way.
SyncDirFails ==
  /\ call.at = "syncDir" /\ Fault
  /\ call' = NoCall
  /\ UNCHANGED <<entries, durable, guards, promised, cleaned, stuck>> /\ Bookkeeping

RemoveBackup(e) ==
  /\ phase = "serving" /\ call = NoCall
  /\ \E n \in Of(entries, e) : n.kind = "backup" /\ entries' = Removed(entries, n)
  /\ UNCHANGED <<durable, guards, call, storeFaults, promised, cleaned, stuck>> /\ Bookkeeping

\* The core of the epoch and its supervisor leave their own files (external).
CoreFiles(e) ==
  /\ phase = "serving" /\ call = NoCall
  /\ Runtime(e) \in DOMAIN entries /\ Name("pid", e, 0) \notin DOMAIN entries
  /\ \E kind \in {"pidTemp", "socket"} :
       entries' = With(With(entries, Name("pid", e, 0), [data |-> 1, synced |-> TRUE]),
                       Name(kind, e, 0), [data |-> 1, synced |-> TRUE])
  /\ UNCHANGED <<durable, guards, call, storeFaults, promised, cleaned, stuck>> /\ Bookkeeping

-----------------------------------------------------------------------------
(* cleanup_epoch and artifact_epochs.                                      *)

\* The names cleanup_epoch removes: three fixed ones, then the prefixes.
FixedKinds == {"runtime", "pid", "socket"}
Cleans == FileKinds
CleanupNames(e) == {n \in Of(entries, e) : n.kind \in Cleans}

\* The kinds of names artifact_epoch finds an epoch in.
InstalledOnly == {"pid", "socket", "runtime", "backup"}
SweptKinds == FileKinds
artifact_epochs == {n.epoch : n \in {m \in DOMAIN entries : m.kind \in SweptKinds}}

\* Fixed names first.
FirstOf(left) ==
  {n \in left : \/ n.kind \in FixedKinds
                \/ {m \in left : m.kind \in FixedKinds} = {}}

\* A guard of the epoch may still be held: its file goes with the others.
BeginCleanup(e) ==
  /\ \/ phase = "serving" /\ UNCHANGED todoEpochs
     \/ phase = "recovering" /\ e \in todoEpochs /\ todoEpochs' = todoEpochs \ {e}
  /\ call = NoCall
  /\ call' = [op |-> "cleanup", at |-> "remove", epoch |-> e, id |-> 0, data |-> 0,
              left |-> CleanupNames(e)]
  /\ promised' = [promised EXCEPT ![e] = {}]
  /\ UNCHANGED <<platform, entries, durable, guards, counter, storeFaults, phase, cleaned, stuck>>

CleanupStep ==
  /\ call.at = "remove" /\ call.left # {}
  /\ \E n \in FirstOf(call.left) :
       entries' = Removed(entries, n) /\ call' = [call EXCEPT !.left = @ \ {n}]
  /\ UNCHANGED <<durable, guards, storeFaults, promised, cleaned, stuck>> /\ Bookkeeping

CleanupEnds ==
  /\ call.at = "remove" /\ call.left = {}
  /\ SyncsDirectory(entries)
  /\ cleaned' = cleaned \cup {call.epoch}
  /\ call' = NoCall
  /\ UNCHANGED <<entries, guards, storeFaults, promised, stuck>> /\ Bookkeeping

\* A removal or the last sync fails.  During recovery the manager does not open.
CleanupFails ==
  /\ call.at = "remove" /\ Fault
  /\ call' = NoCall
  /\ phase' = IF phase = "recovering" THEN "down" ELSE phase
  /\ UNCHANGED <<platform, entries, durable, guards, counter, todoEpochs, promised, cleaned, stuck>>

-----------------------------------------------------------------------------
(* Failures.                                                               *)

\* The request future is dropped at an await: the file system call under way
\* happens or not, and a guard the future owns is dropped.
CallDropped ==
  /\ phase = "serving" /\ call.at # "" /\ Fault
  /\ call' = NoCall
  /\ CASE Staging -> entries' \in {entries, Staged} /\ UNCHANGED <<promised, stuck>>
       [] call.at = "install" ->
            \/ Unlinks(Temp(call.epoch, call.id)) /\ UNCHANGED promised
            \/ /\ ~Taken /\ entries' = Installed /\ UNCHANGED stuck
               /\ promised' = IF call.op = "backup" THEN promised ELSE Reaches(call.epoch, call.data)
       [] call.at = "remove" ->
            /\ \E S \in {{}} \cup {{n} : n \in FirstOf(call.left)} :
                 entries' = [m \in DOMAIN entries \ S |-> entries[m]]
            /\ UNCHANGED <<promised, stuck>>
       [] OTHER -> UNCHANGED <<entries, promised, stuck>>
  /\ UNCHANGED <<durable, guards, cleaned>> /\ Bookkeeping

\* The process dies; what it had staged stays.
ProcessDies ==
  /\ phase # "down" /\ Fault
  /\ phase' = "down" /\ call' = NoCall /\ guards' = {} /\ todoEpochs' = {}
  /\ UNCHANGED <<platform, entries, durable, counter, promised, cleaned, stuck>>

\* Power fails: every directory change since the last sync survives or not, and
\* contents that were not synced are incomplete.  On Windows no replacement or
\* removal is claimed to survive: what was reported before holds no longer.
Claims(claims, none) == IF platform = "unix" THEN claims ELSE none
Survives(file) == IF file.synced THEN file ELSE [data |-> 0, synced |-> TRUE]
PowerFails ==
  /\ phase # "down" /\ Fault
  /\ \E S \in SUBSET {n \in DOMAIN entries \cup DOMAIN durable :
                        \/ n \notin DOMAIN entries \/ n \notin DOMAIN durable
                        \/ entries[n] # durable[n]} :
       LET kept == {n \in DOMAIN entries : n \notin S}
           back == {n \in DOMAIN durable : n \in S}
           now  == [n \in kept \cup back |-> Survives(IF n \in kept THEN entries[n] ELSE durable[n])]
       IN  entries' = now /\ durable' = now
  /\ phase' = "down" /\ call' = NoCall /\ guards' = {} /\ todoEpochs' = {}
  /\ promised' = Claims(promised, [e \in StoreEpochs |-> {}]) /\ cleaned' = Claims(cleaned, {})
  /\ UNCHANGED <<platform, counter, stuck>>

\* A new manager takes the directory lock and clears every epoch it finds.
Reopen ==
  /\ phase = "down"
  /\ phase' = "recovering" /\ todoEpochs' = artifact_epochs
  /\ UNCHANGED <<platform, entries, durable, guards, call, counter, storeFaults, promised, cleaned,
                 stuck>>
Recovered ==
  /\ phase = "recovering" /\ todoEpochs = {} /\ call = NoCall
  /\ phase' = "serving"
  /\ UNCHANGED <<platform, entries, durable, guards, call, counter, storeFaults, todoEpochs, promised,
                 cleaned, stuck>>

StoreNext ==
  \/ \E e \in StoreEpochs :
       \/ BeginStage(e) \/ BeginBackup(e) \/ BeginRestore(e)
       \/ BeginCommit(e, "new") \/ BeginCommit(e, "replace")
       \/ RemoveBackup(e) \/ CoreFiles(e) \/ BeginCleanup(e)
  \/ DropGuard \/ StageStep \/ StageFails \/ Install \/ InstallFails \/ BackupTaken
  \/ SyncDir \/ SyncDirFails \/ CleanupStep \/ CleanupEnds \/ CleanupFails
  \/ CallDropped \/ ProcessDies \/ PowerFails \/ Reopen \/ Recovered

StoreSpec == StoreInit /\ [][StoreNext]_storeVars

-----------------------------------------------------------------------------
(* Properties.                                                             *)

\* The configuration a core is started from and the backup a rollback reads
\* are whole documents at every moment, after a power failure too: contents
\* are synced before the rename (runtime_store.rs, stage and commit_*).
WholeDocuments ==
  \A n \in DOMAIN entries : n.kind \in {"runtime", "backup"} => entries[n].data # 0

\* Once a commit is reported durable, every crash leaves that document or a
\* later one in place: on Unix a power failure too, on Windows the end of the
\* process only (runtime_store.rs, installed_commit).
DurableSurvives ==
  \A e \in StoreEpochs :
    promised[e] # {} => Runtime(e) \in DOMAIN entries /\ entries[Runtime(e)].data \in promised[e]

\* A cleanup that reported success leaves no file of the epoch, whatever was
\* dropped half way before it, whatever removal failed before it, and whatever
\* fails after it, on Windows short of a power failure (runtime_store.rs,
\* cleanup_epoch).
CleanedIsGone ==
  \A e \in cleaned : Of(entries, e) = {}

\* However a commit or a backup ends, failed and dropped ones included, its
\* staged file is gone, and a guard that is given up leaves no file, unless the
\* removal itself failed (runtime_store.rs, StagedRuntimeConfig::drop).
StagedConsumed ==
  [][phase = "serving" /\ phase' = "serving" =>
       /\ (call.at = "install" /\ call'.at # "install") =>
            LET t == Temp(call.epoch, call.id) IN t \in DOMAIN entries' => t \in stuck'
       /\ \A n \in guards \ guards' :
            n \in DOMAIN entries' => call'.at = "install" \/ n \in stuck']_storeVars

\* A manager serves only after every file an earlier one left is gone
\* (runtime_store.rs, artifact_epochs; manager/quarantine.rs).
OpensEmpty ==
  [][phase = "recovering" /\ phase' = "serving" => DOMAIN entries = {}]_storeVars

\* What the store promised is on disk after every failure, a power failure on
\* Unix only: whole documents, the durable one or a later, and nothing of a
\* cleaned epoch (runtime_store.rs, stage, installed_commit and cleanup_epoch).
StoreSound == WholeDocuments /\ DurableSurvives /\ CleanedIsGone

\* No step leaves a file behind that nobody owns: staged files go with their
\* commit unless their removal fails, and a manager serves only from an empty
\* directory, the files of failed removals included (runtime_store.rs,
\* StagedRuntimeConfig::drop and artifact_epochs).
NothingLeftBehind == StagedConsumed /\ OpensEmpty
=============================================================================
