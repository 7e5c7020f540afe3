-------------------------- MODULE ComponentProofs --------------------------
(***************************************************************************)
(* The parts the manager and its instances rest on, each for every value   *)
(* of its constants: the runtime directory, the clock of the premium logs, *)
(* the health tracker and the log directory.                               *)
(***************************************************************************)
EXTENDS RuntimeStore, PremiumClock, HealthReference, LogArchive, FiniteSetTheorems, TLAPS

-----------------------------------------------------------------------------
(* The runtime directory for any set of epochs and any number of staged    *)
(* files, dropped calls, I/O errors, crashes and power failures: what is   *)
(* on disk after each of them, and that nothing is left there unowned.     *)

Files == [data : Nat, synced : BOOLEAN]
Names == [kind : FileKinds, epoch : StoreEpochs, id : Nat]
Temps == {n \in Names : n.kind = "temp"}
Kept == {n \in Names : n.kind \in {"runtime", "backup"}}
Whole == {f \in Files : f.data # 0 /\ f.synced}

(* A directory whose configurations and backups are whole and synced.      *)
Dirs == UNION {[N -> Files] : N \in SUBSET Names}
WholeDirs == {d \in Dirs : \A n \in DOMAIN d : n \in Kept => d[n] \in Whole}

Creates == {"create", "write", "sync"}
Calls == [op : {"stage", "backup", "restore", "new", "replace", "cleanup"},
          at : Creates \cup {"install", "syncDir", "remove"},
          epoch : StoreEpochs, id : Nat, data : Nat, left : SUBSET Names]

StoreTypeOK ==
    /\ entries \in WholeDirs /\ durable \in WholeDirs
    /\ guards \subseteq Temps
    /\ call \in Calls \cup {NoCall}
    /\ counter \in Nat
    /\ phase \in {"serving", "down", "recovering"}
    /\ todoEpochs \subseteq StoreEpochs
    /\ promised \in [StoreEpochs -> SUBSET Nat]
    /\ cleaned \subseteq StoreEpochs

(* A guard's file, if a cleanup has not removed it, is whole and synced;   *)
(* its name is not used again.                                             *)
GuardInv ==
    \A n \in guards : /\ n.id <= counter /\ (call.at \in Creates => n.id < call.id)
                      /\ n \in DOMAIN entries => entries[n] \in Whole

(* What the file system call under way relies on.                          *)
CallInv ==
    /\ call.at \in Creates => call.id = counter /\ call.data # 0
    /\ call.at \in Creates \cup {"install"} => call.epoch \notin cleaned
    /\ call.at = "install" =>
          /\ Temp(call.epoch, call.id) \in DOMAIN entries
          /\ entries[Temp(call.epoch, call.id)] \in Whole
          /\ entries[Temp(call.epoch, call.id)].data = call.data
    /\ call.at = "syncDir" /\ call.op # "backup" =>
          /\ Runtime(call.epoch) \in DOMAIN entries
          /\ entries[Runtime(call.epoch)].data = call.data
    /\ call.at = "remove" =>
          /\ promised[call.epoch] = {}
          /\ \A n \in DOMAIN entries : n.epoch = call.epoch => n \in call.left
          /\ \A n \in call.left : n.epoch = call.epoch

(* A promise is kept by the directory and, on Unix, by what a power        *)
(* failure may fall back to, and so is a reported cleanup.                 *)
PromiseInv ==
    /\ \A e \in StoreEpochs : promised[e] # {} =>
          /\ Runtime(e) \in DOMAIN entries /\ entries[Runtime(e)].data \in promised[e]
          /\ platform = "unix" => Runtime(e) \in DOMAIN durable /\ durable[Runtime(e)].data \in promised[e]
    /\ \A n \in DOMAIN entries : n.epoch \notin cleaned
    /\ platform = "unix" => \A n \in DOMAIN durable : n.epoch \notin cleaned

(* While a new manager opens, every file belongs to an epoch it has still  *)
(* to clear, and it does nothing else.                                     *)
PhaseInv ==
    /\ phase = "down" => call = NoCall
    /\ phase = "recovering" =>
          /\ call = NoCall \/ call.at = "remove"
          /\ \A n \in DOMAIN entries :
                n.epoch \in todoEpochs \/ (call.at = "remove" /\ n.epoch = call.epoch)

StoreInv == StoreTypeOK /\ GuardInv /\ CallInv /\ PromiseInv /\ PhaseInv

-----------------------------------------------------------------------------
(* Names and directories.                                                  *)

(* The three kinds of file names are told apart, and a name tells its      *)
(* epoch.                                                                  *)
LEMMA NameTypes ==
    ASSUME NEW e \in StoreEpochs, NEW i \in Nat
    PROVE  /\ Temp(e, i) \in Temps /\ Temp(e, i) \notin Kept
           /\ Temp(e, i).epoch = e /\ Temp(e, i).id = i
           /\ Runtime(e) \in Kept /\ Runtime(e) \notin Temps
           /\ Copy(e, i) \in Kept /\ Copy(e, i) \notin Temps
           /\ Runtime(e).epoch = e /\ Copy(e, i).epoch = e /\ Copy(e, i) # Runtime(e)
  BY Zenon DEF Temp, Runtime, Copy, Name, Temps, Kept, Names, FileKinds

(* Each epoch has a runtime file of its own.                               *)
LEMMA RuntimeEpoch ==
    ASSUME NEW e \in StoreEpochs, NEW f \in StoreEpochs, Runtime(e) = Runtime(f)
    PROVE  e = f
  BY Zenon DEF Runtime, Name

(* A staged name is made of its epoch and its number.                      *)
LEMMA TempIsNamed ==
    ASSUME NEW n \in Temps
    PROVE  n = Temp(n.epoch, n.id) /\ n.epoch \in StoreEpochs /\ n.id \in Nat
  BY Zenon DEF Temps, Names, Temp, Name

(* What a whole directory holds.                                           *)
LEMMA DirFacts ==
    ASSUME NEW d \in WholeDirs
    PROVE  /\ DOMAIN d \subseteq Names
           /\ \A n \in DOMAIN d : d[n] \in Files /\ (n \in Kept => d[n] \in Whole)
  BY Zenon DEF WholeDirs, Dirs

(* Adding or replacing one file leaves the others alone.                   *)
LEMMA WithDir ==
    ASSUME NEW d \in WholeDirs, NEW n \in Names, NEW f \in Files, n \in Kept => f \in Whole
    PROVE  /\ With(d, n, f) \in WholeDirs
           /\ DOMAIN With(d, n, f) = DOMAIN d \cup {n}
           /\ With(d, n, f)[n] = f
           /\ \A m \in DOMAIN d : m # n => With(d, n, f)[m] = d[m]
<1>1. DOMAIN d \cup {n} \in SUBSET Names
  BY DirFacts, Zenon
<1>2. \A m \in DOMAIN d \cup {n} :
        LET v == IF m = n THEN f ELSE d[m] IN v \in Files /\ (m \in Kept => v \in Whole)
  BY DirFacts, Zenon
<1>3. With(d, n, f) \in WholeDirs
  BY <1>1, <1>2 DEF With, WholeDirs, Dirs
<1> QED BY <1>3, Zenon DEF With

(* A directory stays whole when files vanish.                              *)
LEMMA CutDir ==
    ASSUME NEW d \in WholeDirs, NEW S
    PROVE  /\ [m \in DOMAIN d \ S |-> d[m]] \in WholeDirs
  BY DirFacts DEF WholeDirs, Dirs

(* Removing one file leaves the others alone.                              *)
LEMMA RemovedDir ==
    ASSUME NEW d \in WholeDirs, NEW n
    PROVE  /\ Removed(d, n) \in WholeDirs
           /\ DOMAIN Removed(d, n) = DOMAIN d \ {n}
           /\ \A m \in DOMAIN d : m # n => Removed(d, n)[m] = d[m]
  BY CutDir, Zenon DEF Removed

(* A rename of a whole file puts a whole file in place.                    *)
LEMMA RenamedDir ==
    ASSUME NEW d \in WholeDirs, NEW from \in DOMAIN d, NEW to \in Names, from # to,
           d[from] \in Whole
    PROVE  /\ Renamed(d, from, to) \in WholeDirs
           /\ DOMAIN Renamed(d, from, to) = (DOMAIN d \cup {to}) \ {from}
           /\ Renamed(d, from, to)[to] = d[from]
           /\ \A m \in DOMAIN d : m # from /\ m # to => Renamed(d, from, to)[m] = d[m]
<1> DEFINE w == With(d, to, d[from])
<1>1. d[from] \in Files
  BY Zenon DEF Whole
<1>2. /\ w \in WholeDirs /\ DOMAIN w = DOMAIN d \cup {to} /\ w[to] = d[from]
      /\ \A m \in DOMAIN d : m # to => w[m] = d[m]
  BY <1>1, WithDir
<1> HIDE DEF w
<1>3. Renamed(d, from, to) = Removed(w, from)
  BY Zenon DEF Renamed, w
<1> QED BY <1>2, <1>3, RemovedDir

-----------------------------------------------------------------------------
(* The calls' own facts.                                                   *)
LEMMA CallFacts ==
    ASSUME StoreTypeOK
    PROVE  /\ NoCall.at = "" /\ NoCall.op = "idle" /\ NoCall.left = {}
           /\ call.at # "" => call \in Calls /\ call # NoCall
           /\ call = NoCall <=> call.at = ""
           /\ Staging <=> call.at \in Creates
<1>1. NoCall.at = "" /\ NoCall.op = "idle" /\ NoCall.left = {}
  BY Zenon DEF NoCall
<1>2. call \in Calls => call.at # ""
  BY Zenon DEF Calls, Creates
<1>3. call \in Calls \/ call = NoCall
  BY Zenon DEF StoreTypeOK
<1>4. Staging <=> call.at \in Creates
  BY Zenon DEF Staging, Creates
<1> QED BY <1>1, <1>2, <1>3, <1>4, Zenon

(* The calls that the operations make are calls.                           *)
LEMMA MadeCall ==
    ASSUME NEW o \in {"stage", "backup", "restore", "new", "replace", "cleanup"},
           NEW a \in Creates \cup {"install", "syncDir", "remove"},
           NEW e \in StoreEpochs, NEW i \in Nat, NEW v \in Nat, NEW L \in SUBSET Names
    PROVE  [op |-> o, at |-> a, epoch |-> e, id |-> i, data |-> v, left |-> L] \in Calls
  BY Zenon DEF Calls

(* The file a call stages.                                                 *)
LEMMA StagedDir ==
    ASSUME StoreTypeOK, call.at \in Creates
    PROVE  LET t == Temp(call.epoch, call.id) IN
           /\ t \in Temps /\ t \notin Kept /\ t.epoch = call.epoch /\ t.id = call.id
           /\ Staged \in WholeDirs
           /\ DOMAIN Staged = DOMAIN entries \cup {t}
           /\ Staged[t] = StagedFile
           /\ \A m \in DOMAIN entries : m # t => Staged[m] = entries[m]
<1> DEFINE t == Temp(call.epoch, call.id)
<1>1. call \in Calls /\ call.epoch \in StoreEpochs /\ call.id \in Nat /\ call.data \in Nat
  BY CallFacts, Zenon DEF Calls, Creates
<1>2. t \in Temps /\ t \notin Kept /\ t \in Names /\ t.epoch = call.epoch /\ t.id = call.id
  BY <1>1, NameTypes DEF Temps
<1>3. StagedFile \in Files
  BY <1>1, Zenon DEF StagedFile, Files
<1> HIDE DEF t
<1>4. /\ With(entries, t, StagedFile) \in WholeDirs
      /\ DOMAIN With(entries, t, StagedFile) = DOMAIN entries \cup {t}
      /\ With(entries, t, StagedFile)[t] = StagedFile
      /\ \A m \in DOMAIN entries : m # t => With(entries, t, StagedFile)[m] = entries[m]
  BY <1>2, <1>3, WithDir, Zenon DEF StoreTypeOK
<1>5. Staged = With(entries, t, StagedFile)
  BY Zenon DEF Staged, t
<1> QED BY <1>2, <1>4, <1>5, Zenon DEF t

(* The rename of a staged file.                                            *)
LEMMA InstalledDir ==
    ASSUME StoreTypeOK, CallInv, call.at = "install"
    PROVE  LET t == Temp(call.epoch, call.id) IN
           /\ Target \in Kept /\ Target.epoch = call.epoch
           /\ call.op # "backup" => Target = Runtime(call.epoch)
           /\ call.op = "backup" => \A e \in StoreEpochs : Target # Runtime(e)
           /\ Installed \in WholeDirs
           /\ DOMAIN Installed = (DOMAIN entries \cup {Target}) \ {t}
           /\ Installed[Target].data = call.data
           /\ \A m \in DOMAIN entries : m # t /\ m # Target => Installed[m] = entries[m]
<1> DEFINE t == Temp(call.epoch, call.id)
<1>1. call \in Calls /\ call.epoch \in StoreEpochs /\ call.id \in Nat /\ call.data \in Nat
  BY CallFacts, Zenon DEF Calls
<1>2. t \in Temps /\ t \notin Kept
  BY <1>1, NameTypes, Zenon
<1>3. /\ Target \in Kept /\ Target.epoch = call.epoch /\ Target \in Names
      /\ call.op # "backup" => Target = Runtime(call.epoch)
  BY <1>1, NameTypes DEF Target, Kept
<1>4. call.op = "backup" => \A e \in StoreEpochs : Target # Runtime(e)
  BY <1>1, Zenon DEF Target, Copy, Runtime, Name
<1>5. t \in DOMAIN entries /\ entries[t] \in Whole /\ entries[t].data = call.data
  BY Zenon DEF CallInv
<1>6. t # Target
  BY <1>2, <1>3, Zenon
<1>7. Installed = Renamed(entries, t, Target)
  BY Zenon DEF Installed
<1> HIDE DEF t
<1>8. /\ Installed \in WholeDirs /\ DOMAIN Installed = (DOMAIN entries \cup {Target}) \ {t}
      /\ Installed[Target] = entries[t]
      /\ \A m \in DOMAIN entries : m # t /\ m # Target => Installed[m] = entries[m]
  BY <1>3, <1>5, <1>6, <1>7, RenamedDir DEF StoreTypeOK
<1> QED BY <1>3, <1>4, <1>5, <1>8, Zenon DEF t

-----------------------------------------------------------------------------
(* Steps that end a call, and steps outside calls: no call relies on       *)
(* anything afterwards.                                                    *)
LEMMA CallOver ==
    ASSUME StoreInv, phase = "serving", call' = NoCall,
           UNCHANGED <<platform, durable, counter, phase, todoEpochs, cleaned>>,
           guards' \subseteq guards, entries' \in WholeDirs,
           \A n \in guards' : n \in DOMAIN entries' => n \in DOMAIN entries /\ entries'[n] = entries[n],
           \A n \in DOMAIN entries' : n.epoch \notin cleaned,
           promised' \in [StoreEpochs -> SUBSET Nat],
           \A e \in StoreEpochs : promised'[e] # {} =>
               /\ Runtime(e) \in DOMAIN entries' /\ entries'[Runtime(e)].data \in promised'[e]
               /\ platform = "unix" => Runtime(e) \in DOMAIN durable /\ durable[Runtime(e)].data \in promised'[e]
    PROVE  StoreInv'
<1>1. call'.at = "" /\ "" \notin Creates
  BY CallFacts, Zenon DEF StoreInv, Creates
<1>2. StoreTypeOK'
  BY Zenon DEF StoreInv, StoreTypeOK
<1>3. GuardInv'
  BY <1>1, Zenon DEF StoreInv, GuardInv
<1>4. CallInv'
  BY <1>1, Zenon DEF CallInv
<1>5. PromiseInv'
  BY Zenon DEF StoreInv, PromiseInv
<1>6. PhaseInv'
  BY Zenon DEF PhaseInv
<1> QED BY <1>2, <1>3, <1>4, <1>5, <1>6, Zenon DEF StoreInv

(* Such a step that removes files but no promised configuration.           *)
LEMMA FilesGone ==
    ASSUME StoreInv, phase = "serving", call' = NoCall,
           UNCHANGED <<platform, durable, counter, phase, todoEpochs, cleaned, promised>>,
           guards' \subseteq guards, entries' \in WholeDirs,
           DOMAIN entries' \subseteq DOMAIN entries,
           \A n \in DOMAIN entries' : entries'[n] = entries[n],
           \A e \in StoreEpochs : promised[e] # {} /\ Runtime(e) \in DOMAIN entries
                                    => Runtime(e) \in DOMAIN entries'
    PROVE  StoreInv'
<1>1. promised' \in [StoreEpochs -> SUBSET Nat] /\ promised' = promised
  BY Zenon DEF StoreInv, StoreTypeOK
<1>2. \A n \in DOMAIN entries' : n.epoch \notin cleaned
  BY Zenon DEF StoreInv, PromiseInv
<1>3. \A e \in StoreEpochs : promised'[e] # {} =>
         /\ Runtime(e) \in DOMAIN entries' /\ entries'[Runtime(e)].data \in promised'[e]
         /\ platform = "unix" => Runtime(e) \in DOMAIN durable /\ durable[Runtime(e)].data \in promised'[e]
  BY <1>1, Zenon DEF StoreInv, PromiseInv
<1> QED BY <1>1, <1>2, <1>3, CallOver, Zenon

(* A call is under way only while the manager serves, but for the cleanups *)
(* of a manager that opens.                                                *)
LEMMA CallServes ==
    ASSUME StoreInv, call.at \in Creates \cup {"install", "syncDir"}
    PROVE  phase = "serving" /\ call \in Calls /\ call.epoch \in StoreEpochs /\ call.id \in Nat
           /\ call.data \in Nat /\ call # NoCall
<1>1. call.at # "" /\ call.at # "remove"
  BY Zenon DEF Creates
<1>2. call \in Calls /\ call # NoCall
  BY <1>1, CallFacts, Zenon DEF StoreInv
<1> QED BY <1>1, <1>2, Zenon DEF StoreInv, StoreTypeOK, PhaseInv, Calls

(* Unlinking the staged file of a call leaves every other file alone.      *)
LEMMA UnstageDir ==
    ASSUME StoreInv, call.at \in Creates \cup {"install", "syncDir"}
    PROVE  LET t == Temp(call.epoch, call.id) IN
           /\ Unstage(entries) \in WholeDirs
           /\ DOMAIN Unstage(entries) = DOMAIN entries \ {t}
           /\ \A m \in DOMAIN entries : m # t => Unstage(entries)[m] = entries[m]
           /\ \A e \in StoreEpochs : Runtime(e) # t
<1>1. Temp(call.epoch, call.id) \in Temps /\ \A e \in StoreEpochs : Runtime(e) \notin Temps
  BY CallServes, NameTypes, Zenon
<1> QED BY <1>1, RemovedDir, Zenon DEF Unstage, Unlinked, StoreInv, StoreTypeOK

(* A removal that may fail changes no other file.                          *)
LEMMA UnlinksDir ==
    ASSUME StoreInv, call.at \in Creates \cup {"install", "syncDir"},
           entries' = entries \/ entries' = Unstage(entries)
    PROVE  /\ entries' \in WholeDirs /\ DOMAIN entries' \subseteq DOMAIN entries
           /\ \A n \in DOMAIN entries' : entries'[n] = entries[n]
           /\ \A e \in StoreEpochs : Runtime(e) \in DOMAIN entries => Runtime(e) \in DOMAIN entries'
<1>1. entries \in WholeDirs
  BY Zenon DEF StoreInv, StoreTypeOK
<1> QED BY <1>1, UnstageDir, Zenon

(* A failed stage takes its temporary file with it, or leaves it.          *)
LEMMA StageFailsStep ==
    ASSUME StoreInv, StageFails
    PROVE  StoreInv'
<1>1. call.at \in Creates /\ phase = "serving"
  BY CallFacts, CallServes, Zenon DEF StageFails, StoreInv
<1>2. entries' = entries \/ entries' = Unstage(entries)
  BY Zenon DEF StageFails
<1>4. /\ entries' \in WholeDirs /\ DOMAIN entries' \subseteq DOMAIN entries
      /\ \A n \in DOMAIN entries' : entries'[n] = entries[n]
      /\ \A e \in StoreEpochs : Runtime(e) \in DOMAIN entries => Runtime(e) \in DOMAIN entries'
  BY <1>1, <1>2, UnlinksDir, Zenon
<1>5. call' = NoCall /\ UNCHANGED <<platform, durable, guards, promised, cleaned, counter, phase, todoEpochs>>
  BY Zenon DEF StageFails, Bookkeeping
<1> QED BY <1>1, <1>4, <1>5, FilesGone, Zenon

(* A failed rename or link, and a backup that is there already, leave the  *)
(* installed files as they were.                                           *)
LEMMA InstallFailsStep ==
    ASSUME StoreInv, InstallFails \/ BackupTaken
    PROVE  StoreInv'
<1>1. call.at = "install" /\ phase = "serving"
  BY CallServes, Zenon DEF InstallFails, BackupTaken
<1>2. entries' = entries \/ entries' = Unstage(entries)
  BY Zenon DEF InstallFails, BackupTaken, GivesUp, Unlinks, Unstage
<1>4. /\ entries' \in WholeDirs /\ DOMAIN entries' \subseteq DOMAIN entries
      /\ \A n \in DOMAIN entries' : entries'[n] = entries[n]
      /\ \A e \in StoreEpochs : Runtime(e) \in DOMAIN entries => Runtime(e) \in DOMAIN entries'
  BY <1>1, <1>2, UnlinksDir, Zenon
<1>5. call' = NoCall /\ UNCHANGED <<platform, durable, guards, promised, cleaned, counter, phase, todoEpochs>>
  BY Zenon DEF InstallFails, BackupTaken, Bookkeeping
<1> QED BY <1>1, <1>4, <1>5, FilesGone, Zenon

(* A failed directory sync promises nothing.                               *)
LEMMA SyncDirFailsStep ==
    ASSUME StoreInv, SyncDirFails
    PROVE  StoreInv'
<1>1. phase = "serving"
  BY CallServes, Zenon DEF SyncDirFails
<1>2. /\ call' = NoCall
      /\ UNCHANGED <<platform, entries, durable, guards, promised, cleaned, counter, phase, todoEpochs>>
  BY Zenon DEF SyncDirFails, Bookkeeping
<1>3. entries \in WholeDirs
  BY Zenon DEF StoreInv, StoreTypeOK
<1> QED BY <1>1, <1>2, <1>3, FilesGone, Zenon

(* Removing a staged or a backup file outside a call, or failing to.       *)
LEMMA RemovesOne ==
    ASSUME StoreInv, phase = "serving", call = NoCall, call' = NoCall,
           UNCHANGED <<platform, durable, counter, phase, todoEpochs, cleaned, promised>>,
           guards' \subseteq guards, NEW n \in Names, n.kind # "runtime",
           entries' = entries \/ entries' = Removed(entries, n)
    PROVE  StoreInv'
<1>1. \A e \in StoreEpochs : Runtime(e) # n
  BY DEF Runtime, Name
<1>2. entries \in WholeDirs
  BY Zenon DEF StoreInv, StoreTypeOK
<1>3. /\ entries' \in WholeDirs /\ DOMAIN entries' \subseteq DOMAIN entries
      /\ \A m \in DOMAIN entries' : entries'[m] = entries[m]
      /\ \A m \in DOMAIN entries : m # n => m \in DOMAIN entries'
  <2>1. CASE entries' = entries
    BY <1>2, <2>1, Zenon
  <2>2. CASE entries' = Removed(entries, n)
    <3>1. /\ entries' \in WholeDirs /\ DOMAIN entries' = DOMAIN entries \ {n}
          /\ \A m \in DOMAIN entries : m # n => entries'[m] = entries[m]
      BY <1>2, <2>2, RemovedDir, Zenon
    <3> QED BY <3>1, Zenon
  <2> QED BY <2>1, <2>2, Zenon
<1> QED BY <1>1, <1>3, FilesGone, Zenon

(* A dropped guard unlinks its staged file only.                           *)
LEMMA DropGuardStep ==
    ASSUME StoreInv, DropGuard
    PROVE  StoreInv'
<1>1. PICK n \in guards :
        /\ phase = "serving" /\ call = NoCall
        /\ guards' = guards \ {n} /\ GivesUp(n)
        /\ UNCHANGED <<durable, call, promised, cleaned>> /\ Bookkeeping
  BY Zenon DEF DropGuard
<1>2. n \in Names /\ n.kind # "runtime"
  BY Zenon DEF StoreInv, StoreTypeOK, Temps
<1>3. entries' = entries \/ entries' = Removed(entries, n)
  BY <1>1, Zenon DEF GivesUp, Unlinks, Unlinked
<1> QED BY <1>1, <1>2, <1>3, RemovesOne, Zenon DEF Bookkeeping

(* Removing a backup breaks no promise about a runtime file.               *)
LEMMA RemoveBackupStep ==
    ASSUME StoreInv, NEW e \in StoreEpochs, RemoveBackup(e)
    PROVE  StoreInv'
<1>1. PICK n \in Of(entries, e) : n.kind = "backup" /\ entries' = Removed(entries, n)
  BY Zenon DEF RemoveBackup
<1>2. n \in Names
  BY DirFacts, Zenon DEF Of, StoreInv, StoreTypeOK
<1>3. /\ phase = "serving" /\ call = NoCall
      /\ UNCHANGED <<platform, durable, guards, call, promised, cleaned, counter, phase, todoEpochs>>
  BY Zenon DEF RemoveBackup, Bookkeeping
<1> QED BY <1>1, <1>2, <1>3, RemovesOne, Zenon

(* The core's own files.                                                   *)
LEMMA CoreFilesStep ==
    ASSUME StoreInv, NEW e \in StoreEpochs, CoreFiles(e)
    PROVE  StoreInv'
<1> DEFINE f == [data |-> 1, synced |-> TRUE]
           p == Name("pid", e, 0)
<1>1. PICK kind \in {"pidTemp", "socket"} :
        entries' = With(With(entries, p, f), Name(kind, e, 0), f)
  BY Zenon DEF CoreFiles
<1> DEFINE q == Name(kind, e, 0)
           one == With(entries, p, f)
<1>2. /\ f \in Files /\ p \in Names /\ q \in Names /\ p.epoch = e /\ q.epoch = e
      /\ p.kind \notin {"runtime", "backup", "temp"} /\ q.kind \notin {"runtime", "backup", "temp"}
  BY Zenon DEF Files, Names, Name, FileKinds
<1>3. \A n \in Kept \cup Temps : n # p /\ n # q
  BY <1>2, Zenon DEF Kept, Temps
<1>4. p \notin Kept /\ q \notin Kept /\ entries \in WholeDirs
  BY <1>3, Zenon DEF StoreInv, StoreTypeOK
<1> HIDE DEF f, p, q
<1>5. /\ one \in WholeDirs /\ DOMAIN one = DOMAIN entries \cup {p}
      /\ \A m \in DOMAIN entries : m # p => one[m] = entries[m]
  BY <1>2, <1>4, WithDir
<1>6. entries' = With(one, q, f)
  BY <1>1, Zenon DEF q
<1> HIDE DEF one
<1>7. /\ entries' \in WholeDirs /\ DOMAIN entries' = DOMAIN entries \cup {p, q}
      /\ \A m \in DOMAIN entries : m # p /\ m # q => entries'[m] = entries[m]
  BY <1>2, <1>4, <1>5, <1>6, WithDir
<1>8. /\ phase = "serving" /\ call' = NoCall /\ Runtime(e) \in DOMAIN entries
      /\ UNCHANGED <<platform, durable, guards, promised, cleaned, counter, phase, todoEpochs>>
  BY Zenon DEF CoreFiles, Bookkeeping
<1>9. \A n \in DOMAIN entries' : n.epoch \notin cleaned
  <2>1. Runtime(e).epoch = e
    BY NameTypes, Zenon
  <2> QED BY <1>2, <1>7, <1>8, <2>1, Zenon DEF StoreInv, PromiseInv
<1>10. \A n \in guards' : n \in DOMAIN entries' => n \in DOMAIN entries /\ entries'[n] = entries[n]
  BY <1>3, <1>7, <1>8, Zenon DEF StoreInv, StoreTypeOK
<1>11. /\ promised' \in [StoreEpochs -> SUBSET Nat]
       /\ \A d \in StoreEpochs : promised'[d] # {} =>
            /\ Runtime(d) \in DOMAIN entries' /\ entries'[Runtime(d)].data \in promised'[d]
            /\ platform = "unix" => Runtime(d) \in DOMAIN durable /\ durable[Runtime(d)].data \in promised'[d]
  <2>1. \A d \in StoreEpochs : Runtime(d) # p /\ Runtime(d) # q
    BY <1>3, NameTypes, Zenon
  <2> QED BY <1>7, <1>8, <2>1, Zenon DEF StoreInv, StoreTypeOK, PromiseInv
<1> QED BY <1>7, <1>8, <1>9, <1>10, <1>11, CallOver, Zenon

-----------------------------------------------------------------------------
(* The rename and the promises: a durable document is joined by the one    *)
(* that may replace it until the directory is synced.                      *)
LEMMA InstallEffect ==
    ASSUME StoreInv, call.at = "install", entries' = Installed, UNCHANGED <<durable, cleaned>>,
           promised' = IF call.op = "backup" THEN promised
                       ELSE Reaches(call.epoch, call.data)
    PROVE  /\ entries' \in WholeDirs /\ promised' \in [StoreEpochs -> SUBSET Nat]
           /\ \A n \in guards : n \in DOMAIN entries' => n \in DOMAIN entries /\ entries'[n] = entries[n]
           /\ \A n \in DOMAIN entries' : n.epoch \notin cleaned
           /\ \A e \in StoreEpochs : promised'[e] # {} =>
                /\ Runtime(e) \in DOMAIN entries' /\ entries'[Runtime(e)].data \in promised'[e]
                /\ platform = "unix" => Runtime(e) \in DOMAIN durable /\ durable[Runtime(e)].data \in promised'[e]
<1> DEFINE t == Temp(call.epoch, call.id)
<1>1. call.epoch \in StoreEpochs /\ call.id \in Nat /\ call.data \in Nat
  BY CallServes, Zenon
<1>2. t \in Temps /\ \A n \in Kept : n # t
  BY <1>1, NameTypes
<1>3. /\ Target \in Kept /\ Target.epoch = call.epoch
      /\ call.op # "backup" => Target = Runtime(call.epoch)
      /\ call.op = "backup" => \A e \in StoreEpochs : Target # Runtime(e)
      /\ entries' \in WholeDirs
      /\ DOMAIN entries' = (DOMAIN entries \cup {Target}) \ {t}
      /\ entries'[Target].data = call.data
      /\ \A m \in DOMAIN entries : m # t /\ m # Target => entries'[m] = entries[m]
  BY InstalledDir, Zenon DEF StoreInv
<1> HIDE DEF t
<1>4. \A n \in guards : n \in Temps /\ n # Target
  BY <1>3, Zenon DEF StoreInv, StoreTypeOK, Temps, Kept
<1>5. \A n \in guards : n \in DOMAIN entries' => n \in DOMAIN entries /\ entries'[n] = entries[n]
  BY <1>3, <1>4, Zenon
<1>6. \A n \in DOMAIN entries' : n.epoch \notin cleaned
  <2>1. call.epoch \notin cleaned
    BY Zenon DEF StoreInv, CallInv
  <2> QED BY <1>3, <2>1, Zenon DEF StoreInv, PromiseInv
<1>7. promised \in [StoreEpochs -> SUBSET Nat]
  BY Zenon DEF StoreInv, StoreTypeOK
<1>8. /\ promised' \in [StoreEpochs -> SUBSET Nat]
      /\ \A e \in StoreEpochs : e # call.epoch \/ call.op = "backup" => promised'[e] = promised[e]
      /\ call.op # "backup" /\ promised'[call.epoch] # {} =>
            promised[call.epoch] # {} /\ promised'[call.epoch] = promised[call.epoch] \cup {call.data}
  BY <1>1, <1>7, Zenon DEF Reaches
<1>9. \A e \in StoreEpochs : Runtime(e) \in Kept
  BY NameTypes, Zenon
<1>10. ASSUME NEW e \in StoreEpochs, promised'[e] # {}
       PROVE  /\ Runtime(e) \in DOMAIN entries' /\ entries'[Runtime(e)].data \in promised'[e]
              /\ platform = "unix" => Runtime(e) \in DOMAIN durable /\ durable[Runtime(e)].data \in promised'[e]
  <2>1. CASE e = call.epoch /\ call.op # "backup"
    <3>1. Runtime(e) \in DOMAIN entries' /\ entries'[Runtime(e)].data = call.data
      BY <1>2, <1>3, <1>9, <2>1, Zenon
    <3>2. promised[e] # {} /\ promised'[e] = promised[e] \cup {call.data}
      BY <1>8, <1>10, <2>1, Zenon
    <3> QED BY <3>1, <3>2, Zenon DEF StoreInv, PromiseInv
  <2>2. CASE ~(e = call.epoch /\ call.op # "backup")
    <3>1. promised'[e] = promised[e]
      BY <1>8, <2>2, Zenon
    <3>2. Runtime(e) # Target /\ Runtime(e) # t
      BY <1>1, <1>2, <1>3, <1>9, <2>2, RuntimeEpoch, Zenon
    <3> QED BY <1>3, <1>10, <3>1, <3>2, Zenon DEF StoreInv, PromiseInv
  <2> QED BY <2>1, <2>2, Zenon
<1> QED BY <1>3, <1>5, <1>6, <1>8, <1>10, Zenon

(* An install puts a whole file in place.                                  *)
LEMMA InstallStep ==
    ASSUME StoreInv, Install
    PROVE  StoreInv'
<1>1. call.at = "install" /\ phase = "serving" /\ call \in Calls
  BY CallServes, Zenon DEF Install
<1>2. /\ entries' = Installed /\ call' = [call EXCEPT !.at = "syncDir"]
      /\ UNCHANGED <<platform, durable, guards, cleaned, counter, phase, todoEpochs>>
      /\ promised' = IF call.op = "backup" THEN promised ELSE Reaches(call.epoch, call.data)
  BY Zenon DEF Install, Bookkeeping
<1>3. /\ entries' \in WholeDirs /\ promised' \in [StoreEpochs -> SUBSET Nat]
      /\ \A n \in guards : n \in DOMAIN entries' => n \in DOMAIN entries /\ entries'[n] = entries[n]
      /\ \A n \in DOMAIN entries' : n.epoch \notin cleaned
      /\ \A e \in StoreEpochs : promised'[e] # {} =>
           /\ Runtime(e) \in DOMAIN entries' /\ entries'[Runtime(e)].data \in promised'[e]
           /\ platform = "unix" => Runtime(e) \in DOMAIN durable /\ durable[Runtime(e)].data \in promised'[e]
  BY <1>1, <1>2, InstallEffect, Zenon
<1>4. /\ call' \in Calls /\ call'.at = "syncDir" /\ call'.epoch = call.epoch
      /\ call'.op = call.op /\ call'.data = call.data /\ call'.at \notin Creates
  BY <1>1, <1>2, Zenon DEF Calls, Creates
<1>5. StoreTypeOK'
  BY <1>2, <1>3, <1>4, Zenon DEF StoreInv, StoreTypeOK
<1>6. GuardInv'
  BY <1>2, <1>3, <1>4, Zenon DEF StoreInv, GuardInv
<1>7. CallInv'
  <2>1. call.op # "backup" => Runtime(call.epoch) \in DOMAIN Installed
                              /\ Installed[Runtime(call.epoch)].data = call.data
    <3>1. call.epoch \in StoreEpochs /\ call.id \in Nat
      BY <1>1, Zenon DEF Calls
    <3>2. Runtime(call.epoch) # Temp(call.epoch, call.id)
      BY <3>1, NameTypes, Zenon
    <3> QED BY <1>1, <3>2, InstalledDir, Zenon DEF StoreInv
  <2> QED BY <1>2, <1>4, <2>1, Zenon DEF CallInv
<1>8. PromiseInv'
  BY <1>2, <1>3, Zenon DEF StoreInv, PromiseInv
<1>9. PhaseInv'
  BY <1>1, <1>2, Zenon DEF PhaseInv
<1> QED BY <1>5, <1>6, <1>7, <1>8, <1>9, Zenon DEF StoreInv

(* The request future is dropped.                                          *)
LEMMA CallDroppedStep ==
    ASSUME StoreInv, CallDropped
    PROVE  StoreInv'
<1>1. /\ phase = "serving" /\ call.at # "" /\ call' = NoCall
      /\ UNCHANGED <<platform, durable, guards, cleaned, counter, phase, todoEpochs>>
  BY Zenon DEF CallDropped, Bookkeeping
<1>2. call \in Calls /\ entries \in WholeDirs /\ (Staging <=> call.at \in Creates)
  BY <1>1, CallFacts, Zenon DEF StoreInv, StoreTypeOK
<1>3. ASSUME UNCHANGED <<entries, promised>>
      PROVE  StoreInv'
  BY <1>1, <1>2, <1>3, FilesGone, Zenon
<1>4. CASE call.at \in Creates
  <2>1. entries' \in {entries, Staged} /\ UNCHANGED promised
    <3>1. Staging /\ call.at \notin {"install", "remove"}
      BY <1>2, <1>4, Zenon DEF Creates
    <3> QED BY <3>1, Zenon DEF CallDropped
  <2>2. CASE entries' = Staged
    <3> DEFINE t == Temp(call.epoch, call.id)
    <3>1. /\ t \in Temps /\ t \notin Kept /\ t.epoch = call.epoch /\ t.id = call.id
          /\ entries' \in WholeDirs /\ DOMAIN entries' = DOMAIN entries \cup {t}
          /\ \A m \in DOMAIN entries : m # t => entries'[m] = entries[m]
      BY <1>4, <2>2, StagedDir, Zenon DEF StoreInv
    <3>2. call.epoch \notin cleaned /\ \A n \in guards : n.id < call.id /\ call.id \in Nat
      BY <1>2, <1>4, Zenon DEF StoreInv, CallInv, GuardInv, Calls
    <3> HIDE DEF t
    <3>3. \A n \in guards : n # t
      BY <3>1, <3>2
    <3>4. \A e \in StoreEpochs : Runtime(e) # t
      BY <3>1, NameTypes, Zenon
    <3>5. /\ promised' \in [StoreEpochs -> SUBSET Nat] /\ promised' = promised
      BY <2>1, Zenon DEF StoreInv, StoreTypeOK
    <3>6. \A n \in DOMAIN entries' : n.epoch \notin cleaned
      BY <3>1, <3>2, Zenon DEF StoreInv, PromiseInv
    <3>7. \A e \in StoreEpochs : promised'[e] # {} =>
             /\ Runtime(e) \in DOMAIN entries' /\ entries'[Runtime(e)].data \in promised'[e]
             /\ platform = "unix" => Runtime(e) \in DOMAIN durable /\ durable[Runtime(e)].data \in promised'[e]
      BY <3>1, <3>4, <3>5, Zenon DEF StoreInv, PromiseInv
    <3>8. \A n \in guards' : n \in DOMAIN entries' => n \in DOMAIN entries /\ entries'[n] = entries[n]
      BY <1>1, <3>1, <3>3, Zenon
    <3> QED BY <1>1, <3>1, <3>5, <3>6, <3>7, <3>8, CallOver, Zenon
  <2> QED BY <1>3, <2>1, <2>2, Zenon
<1>5. CASE call.at = "install"
  <2>1. \/ (entries' = entries \/ entries' = Unstage(entries)) /\ UNCHANGED promised
        \/ /\ entries' = Installed
           /\ promised' = IF call.op = "backup" THEN promised
                          ELSE Reaches(call.epoch, call.data)
    BY <1>2, <1>5, Zenon DEF CallDropped, Creates, Unlinks, Unstage
  <2>2. CASE (entries' = entries \/ entries' = Unstage(entries)) /\ UNCHANGED promised
    <3>1. /\ entries' \in WholeDirs /\ DOMAIN entries' \subseteq DOMAIN entries
          /\ \A n \in DOMAIN entries' : entries'[n] = entries[n]
          /\ \A e \in StoreEpochs : Runtime(e) \in DOMAIN entries => Runtime(e) \in DOMAIN entries'
      BY <1>5, <2>2, UnlinksDir, Zenon
    <3> QED BY <1>1, <2>2, <3>1, FilesGone, Zenon
  <2>3. CASE /\ entries' = Installed
             /\ promised' = IF call.op = "backup" THEN promised
                            ELSE Reaches(call.epoch, call.data)
    <3>1. /\ entries' \in WholeDirs /\ promised' \in [StoreEpochs -> SUBSET Nat]
          /\ \A n \in guards : n \in DOMAIN entries' => n \in DOMAIN entries /\ entries'[n] = entries[n]
          /\ \A n \in DOMAIN entries' : n.epoch \notin cleaned
          /\ \A e \in StoreEpochs : promised'[e] # {} =>
               /\ Runtime(e) \in DOMAIN entries' /\ entries'[Runtime(e)].data \in promised'[e]
               /\ platform = "unix" => Runtime(e) \in DOMAIN durable /\ durable[Runtime(e)].data \in promised'[e]
      BY <1>1, <1>5, <2>3, InstallEffect, Zenon
    <3> QED BY <1>1, <3>1, CallOver, Zenon
  <2> QED BY <2>1, <2>2, <2>3, Zenon
<1>6. CASE call.at = "remove"
  <2>1. PICK S \in {{}} \cup {{n} : n \in FirstOf(call.left)} :
          entries' = [m \in DOMAIN entries \ S |-> entries[m]] /\ UNCHANGED promised
    BY <1>2, <1>6, Zenon DEF CallDropped, Creates
  <2>2. \A n \in S : n.epoch = call.epoch
    BY <1>6, <2>1, Zenon DEF FirstOf, StoreInv, CallInv
  <2>3. \A e \in StoreEpochs : promised[e] # {} => Runtime(e) \notin S
    BY <1>6, <2>2, NameTypes, Zenon DEF StoreInv, CallInv
  <2>4. /\ entries' \in WholeDirs /\ DOMAIN entries' = DOMAIN entries \ S
        /\ \A n \in DOMAIN entries' : entries'[n] = entries[n]
    BY <1>2, <2>1, CutDir, Zenon
  <2> QED BY <1>1, <2>1, <2>3, <2>4, FilesGone, Zenon
<1>7. CASE call.at \notin Creates \cup {"install", "remove"}
  BY <1>2, <1>3, <1>7, Zenon DEF CallDropped
<1> QED BY <1>4, <1>5, <1>6, <1>7, Zenon

-----------------------------------------------------------------------------
(* Calls begin.                                                            *)
LEMMA CallBegins ==
    ASSUME StoreInv, phase = "serving", call = NoCall, call' \in Calls,
           UNCHANGED <<platform, entries, durable, phase, todoEpochs, promised>>,
           guards' \subseteq guards, cleaned' \subseteq cleaned,
           \/ counter' = counter /\ call'.at \notin Creates
           \/ counter' = counter + 1 /\ call'.id = counter',
           CallInv'
    PROVE  StoreInv'
<1>1. counter \in Nat /\ counter' \in Nat /\ counter <= counter'
  BY DEF StoreInv, StoreTypeOK
<1>2. StoreTypeOK'
  BY <1>1, Zenon DEF StoreInv, StoreTypeOK
<1>3. GuardInv'
  <2>1. \A n \in guards : n.id \in Nat /\ n.id <= counter
    BY Zenon DEF StoreInv, StoreTypeOK, GuardInv, Temps, Names
  <2>2. \A n \in guards : n.id <= counter' /\ (call'.at \in Creates => n.id < call'.id)
    BY <1>1, <2>1
  <2> QED BY <2>2, Zenon DEF StoreInv, GuardInv
<1>4. PromiseInv'
  BY Zenon DEF StoreInv, PromiseInv
<1>5. PhaseInv'
  BY Zenon DEF PhaseInv
<1> QED BY <1>2, <1>3, <1>4, <1>5, Zenon DEF StoreInv

(* A stage takes a new temporary name.                                     *)
LEMMA BeginStageStep ==
    ASSUME StoreInv, NEW e \in StoreEpochs, BeginStage(e)
    PROVE  StoreInv'
<1>1. counter \in Nat /\ counter + 1 \in Nat /\ counter + 1 # 0
  BY DEF StoreInv, StoreTypeOK
<1>2. /\ phase = "serving" /\ call = NoCall /\ counter' = counter + 1
      /\ call' = [op |-> "stage", at |-> "create", epoch |-> e, id |-> counter + 1,
                  data |-> counter + 1, left |-> {}]
      /\ cleaned' = cleaned \ {e}
      /\ UNCHANGED <<platform, entries, durable, guards, phase, todoEpochs, promised>>
  BY Zenon DEF BeginStage, Begin
<1>3. call' \in Calls
  BY <1>1, <1>2, MadeCall, Zenon DEF Creates
<1>4. call'.at = "create" /\ call'.id = counter' /\ call'.data # 0 /\ call'.epoch = e
  BY <1>1, <1>2, Zenon
<1>5. CallInv'
  BY <1>2, <1>4, Zenon DEF CallInv
<1> QED BY <1>2, <1>3, <1>4, <1>5, CallBegins, Zenon

(* A copy reads a whole file and writes it under a new temporary name.     *)
LEMMA BeginCopyStep ==
    ASSUME StoreInv, NEW e \in StoreEpochs, NEW op \in {"backup", "restore"},
           NEW source \in Kept, source.epoch = e, BeginCopy(e, op, source)
    PROVE  StoreInv'
<1>1. counter \in Nat /\ counter + 1 \in Nat
  BY DEF StoreInv, StoreTypeOK
<1>2. /\ phase = "serving" /\ call = NoCall /\ counter' = counter + 1 /\ source \in DOMAIN entries
      /\ call' = [op |-> op, at |-> "create", epoch |-> e, id |-> counter + 1,
                  data |-> entries[source].data, left |-> {}]
      /\ UNCHANGED <<platform, entries, durable, guards, phase, todoEpochs, promised, cleaned>>
  BY Zenon DEF BeginCopy, Begin
<1>3. entries[source].data \in Nat /\ entries[source].data # 0
  BY <1>2, DirFacts, Zenon DEF StoreInv, StoreTypeOK, Whole, Files
<1>4. e \notin cleaned
  BY <1>2, Zenon DEF StoreInv, PromiseInv
<1>5. call' \in Calls
  BY <1>1, <1>2, <1>3, MadeCall, Zenon DEF Creates
<1>6. call'.at = "create" /\ call'.id = counter' /\ call'.data # 0 /\ call'.epoch = e
  BY <1>2, <1>3, Zenon
<1>7. CallInv'
  BY <1>2, <1>4, <1>6, Zenon DEF CallInv
<1> QED BY <1>2, <1>5, <1>6, <1>7, CallBegins, Zenon

(* A backup begins with a copy of the runtime file.                        *)
LEMMA BeginBackupStep ==
    ASSUME StoreInv, NEW e \in StoreEpochs, BeginBackup(e)
    PROVE  StoreInv'
<1>1. Runtime(e) \in Kept /\ Runtime(e).epoch = e
  BY NameTypes, Zenon
<1> QED BY <1>1, BeginCopyStep, Zenon DEF BeginBackup

(* A restore begins with a copy of the backup.                             *)
LEMMA BeginRestoreStep ==
    ASSUME StoreInv, NEW e \in StoreEpochs, BeginRestore(e)
    PROVE  StoreInv'
<1>1. PICK n \in Of(entries, e) : n.kind = "backup" /\ BeginCopy(e, "restore", n)
  BY Zenon DEF BeginRestore
<1>2. n \in Kept /\ n.epoch = e
  BY <1>1, DirFacts, Zenon DEF Of, Kept, StoreInv, StoreTypeOK
<1> QED BY <1>1, <1>2, BeginCopyStep, Zenon

(* A commit begins with a whole staged file.                               *)
LEMMA BeginCommitStep ==
    ASSUME StoreInv, NEW e \in StoreEpochs, NEW op \in {"new", "replace"}, BeginCommit(e, op)
    PROVE  StoreInv'
<1>1. PICK n \in guards :
        LET present == Runtime(e) \in DOMAIN entries
            fits    == n.epoch = e /\ n \in DOMAIN entries /\ present = (op = "replace")
        IN  /\ n.epoch = e
            /\ guards' = guards \ {n}
            /\ phase = "serving" /\ call = NoCall
            /\ IF fits
               THEN /\ call' = [op |-> op, at |-> "install", epoch |-> e, id |-> n.id,
                                data |-> entries[n].data, left |-> {}]
                    /\ UNCHANGED <<entries, storeFaults, stuck>>
               ELSE GivesUp(n) /\ UNCHANGED call
            /\ UNCHANGED <<durable, promised, cleaned>> /\ Bookkeeping
  BY Zenon DEF BeginCommit
<1>2. n \in Temps /\ n \in Names /\ n.kind # "runtime" /\ n = Temp(e, n.id) /\ n.id \in Nat
  BY <1>1, TempIsNamed, Zenon DEF StoreInv, StoreTypeOK, Temps
<1>3. /\ guards' = guards \ {n} /\ phase = "serving" /\ call = NoCall
      /\ UNCHANGED <<platform, durable, promised, cleaned, counter, phase, todoEpochs>>
      /\ \/ /\ n \in DOMAIN entries /\ UNCHANGED entries
            /\ call' = [op |-> op, at |-> "install", epoch |-> e, id |-> n.id,
                        data |-> entries[n].data, left |-> {}]
         \/ (entries' = entries \/ entries' = Removed(entries, n)) /\ call' = NoCall
  BY <1>1, Zenon DEF Bookkeeping, GivesUp, Unlinks, Unlinked
<1>4. CASE (entries' = entries \/ entries' = Removed(entries, n)) /\ call' = NoCall
  BY <1>2, <1>3, <1>4, RemovesOne, Zenon
<1>5. CASE /\ n \in DOMAIN entries /\ UNCHANGED entries
           /\ call' = [op |-> op, at |-> "install", epoch |-> e, id |-> n.id,
                       data |-> entries[n].data, left |-> {}]
  <2>1. entries[n] \in Whole /\ entries[n].data \in Nat
    BY <1>5, DirFacts, Zenon DEF StoreInv, StoreTypeOK, GuardInv, Files
  <2>2. call' \in Calls
    BY <1>2, <1>5, <2>1, MadeCall, Zenon
  <2>3. /\ call'.at = "install" /\ call'.epoch = e /\ call'.id = n.id
        /\ call'.data = entries[n].data
    BY <1>5, Zenon
  <2>4. e \notin cleaned /\ "install" \notin Creates
    BY <1>1, <1>5, Zenon DEF StoreInv, PromiseInv, Creates
  <2>5. CallInv'
    BY <1>2, <1>3, <1>5, <2>1, <2>3, <2>4, Zenon DEF CallInv
  <2> QED BY <1>3, <1>5, <2>2, <2>3, <2>4, <2>5, CallBegins, Zenon
<1> QED BY <1>3, <1>4, <1>5, Zenon

(* The staged file is created, written and synced under its own name.      *)
LEMMA StageStepStep ==
    ASSUME StoreInv, StageStep
    PROVE  StoreInv'
<1> DEFINE t == Temp(call.epoch, call.id)
<1>1. call.at \in Creates /\ entries' = Staged
      /\ UNCHANGED <<platform, durable, promised, cleaned, counter, phase, todoEpochs>>
  BY CallFacts, Zenon DEF StageStep, StoreInv, Bookkeeping
<1>2. phase = "serving" /\ call \in Calls /\ call.id \in Nat /\ call.data \in Nat
  BY <1>1, CallServes, Zenon
<1>3. /\ t \in Temps /\ t \notin Kept /\ t.epoch = call.epoch /\ t.id = call.id
      /\ entries' \in WholeDirs /\ DOMAIN entries' = DOMAIN entries \cup {t}
      /\ entries'[t] = StagedFile
      /\ \A m \in DOMAIN entries : m # t => entries'[m] = entries[m]
  BY <1>1, StagedDir, Zenon DEF StoreInv
<1>4. call.epoch \notin cleaned /\ call.id = counter /\ call.data # 0
  BY <1>1, Zenon DEF StoreInv, CallInv
<1>5. call.at = "sync" => entries'[t] \in Whole /\ entries'[t].data = call.data
  <2>1. call.at = "sync" => StagedFile = [data |-> call.data, synced |-> TRUE]
    BY Zenon DEF StagedFile
  <2>2. LET f == [data |-> call.data, synced |-> TRUE] IN f \in Whole /\ f.data = call.data
    BY <1>2, <1>4, Zenon DEF Whole, Files
  <2> QED BY <1>3, <2>1, <2>2, Zenon
<1> HIDE DEF t
<1>6. \A n \in guards : n.id <= counter /\ n.id < call.id /\ n # t
                        /\ (n \in DOMAIN entries' => entries'[n] \in Whole)
  BY <1>1, <1>2, <1>3 DEF StoreInv, GuardInv, StoreTypeOK, Temps, Names
<1>7. PromiseInv'
  <2>1. \A e \in StoreEpochs : Runtime(e) # t
    BY <1>3, NameTypes, Zenon
  <2> QED BY <1>1, <1>3, <1>4, <2>1, Zenon DEF StoreInv, PromiseInv
<1>8. PhaseInv'
  BY <1>1, <1>2, Zenon DEF PhaseInv
<1>9. CASE call.op = "stage" /\ call.at = "sync"
  <2>1. guards' = guards \cup {t} /\ call' = NoCall
    BY <1>9, Zenon DEF StageStep, t
  <2>2. call'.at = "" /\ "" \notin Creates
    BY <2>1, CallFacts, Zenon DEF StoreInv, Creates
  <2>3. StoreTypeOK'
    BY <1>1, <1>3, <2>1, Zenon DEF StoreInv, StoreTypeOK
  <2>4. GuardInv'
    <3>1. \A n \in guards' : n.id <= counter'
      BY <1>1, <1>2, <1>3, <1>4, <1>6, <2>1
    <3>2. \A n \in guards' : n \in DOMAIN entries' => entries'[n] \in Whole
      BY <1>5, <1>6, <1>9, <2>1, Zenon
    <3> QED BY <2>2, <3>1, <3>2, Zenon DEF GuardInv
  <2>5. CallInv'
    BY <2>2, Zenon DEF CallInv
  <2> QED BY <1>7, <1>8, <2>3, <2>4, <2>5, Zenon DEF StoreInv
<1>10. CASE ~(call.op = "stage" /\ call.at = "sync")
  <2>1. guards' = guards /\ call' = [call EXCEPT !.at = NextStep]
    BY <1>10, Zenon DEF StageStep
  <2>2. /\ NextStep \in {"write", "sync", "install"}
        /\ NextStep = "install" => call.at = "sync"
    BY <1>1, Zenon DEF NextStep, Creates
  <2>3. /\ call' \in Calls /\ call'.at = NextStep /\ call'.epoch = call.epoch
        /\ call'.id = call.id /\ call'.data = call.data
    BY <1>2, <2>1, <2>2, Zenon DEF Calls, Creates
  <2>4. StoreTypeOK'
    BY <1>1, <1>3, <2>1, <2>3, Zenon DEF StoreInv, StoreTypeOK
  <2>5. GuardInv'
    BY <1>1, <1>6, <2>1, <2>3, Zenon DEF GuardInv
  <2>6. CallInv'
    BY <1>1, <1>3, <1>4, <1>5, <2>2, <2>3, Zenon DEF CallInv, t
  <2> QED BY <1>7, <1>8, <2>4, <2>5, <2>6, Zenon DEF StoreInv
<1> QED BY <1>9, <1>10, Zenon

(* The directory is synced: what the process sees is what a power failure  *)
(* leaves.                                                                 *)
LEMMA SyncDirStep ==
    ASSUME StoreInv, SyncDir
    PROVE  StoreInv'
<1>1. call.at = "syncDir" /\ phase = "serving" /\ call.epoch \in StoreEpochs /\ call.data \in Nat
  BY CallServes, Zenon DEF SyncDir
<1>2. /\ call' = NoCall /\ durable' = IF platform = "unix" THEN entries ELSE durable
      /\ promised' = IF call.op = "backup" THEN promised
                     ELSE [promised EXCEPT ![call.epoch] = {call.data}]
      /\ UNCHANGED <<platform, entries, guards, cleaned, counter, phase, todoEpochs>>
  BY Zenon DEF SyncDir, SyncsDirectory, Bookkeeping
<1>3. call'.at = "" /\ "" \notin Creates
  BY <1>2, CallFacts, Zenon DEF StoreInv, Creates
<1>4. promised \in [StoreEpochs -> SUBSET Nat]
  BY Zenon DEF StoreInv, StoreTypeOK
<1>5. /\ promised' \in [StoreEpochs -> SUBSET Nat]
      /\ \A e \in StoreEpochs : \/ promised'[e] = promised[e]
                                \/ /\ promised'[e] = {call.data} /\ e = call.epoch
                                   /\ call.op # "backup"
  BY <1>1, <1>2, <1>4, Zenon
<1>6. StoreTypeOK'
  <2>1. durable' \in WholeDirs
    BY <1>2, Zenon DEF StoreInv, StoreTypeOK
  <2> QED BY <1>2, <1>5, <2>1, Zenon DEF StoreInv, StoreTypeOK
<1>7. GuardInv'
  BY <1>2, <1>3, Zenon DEF StoreInv, GuardInv
<1>8. CallInv'
  BY <1>3, Zenon DEF CallInv
<1>9. PromiseInv'
  <2>1. call.op # "backup" => /\ Runtime(call.epoch) \in DOMAIN entries
                              /\ entries[Runtime(call.epoch)].data = call.data
    BY <1>1, Zenon DEF StoreInv, CallInv
  <2> QED BY <1>2, <1>5, <2>1, Zenon DEF StoreInv, PromiseInv
<1>10. PhaseInv'
  BY <1>1, <1>2, Zenon DEF PhaseInv
<1> QED BY <1>6, <1>7, <1>8, <1>9, <1>10, Zenon DEF StoreInv

-----------------------------------------------------------------------------
(* cleanup_epoch: its list holds every file of the epoch.                  *)
LEMMA BeginCleanupStep ==
    ASSUME StoreInv, NEW e \in StoreEpochs, BeginCleanup(e)
    PROVE  StoreInv'
<1> DEFINE L == CleanupNames(e)
<1>1. /\ call = NoCall
      /\ call' = [op |-> "cleanup", at |-> "remove", epoch |-> e, id |-> 0, data |-> 0, left |-> L]
      /\ promised' = [promised EXCEPT ![e] = {}]
      /\ UNCHANGED <<platform, entries, durable, guards, counter, phase, cleaned>>
      /\ \/ phase = "serving" /\ UNCHANGED todoEpochs
         \/ phase = "recovering" /\ todoEpochs' = todoEpochs \ {e}
  BY Zenon DEF BeginCleanup
<1>2. DOMAIN entries \subseteq Names
  BY DirFacts, Zenon DEF StoreInv, StoreTypeOK
<1>3. L \in SUBSET Names /\ (\A n \in L : n.epoch = e)
      /\ \A n \in DOMAIN entries : n.epoch = e => n \in L
  BY <1>2, Zenon DEF CleanupNames, Of, Cleans, Names
<1> HIDE DEF L
<1>4. call' \in Calls
  BY <1>1, <1>3, MadeCall, Zenon
<1>5. call'.at = "remove" /\ call'.epoch = e /\ call'.left = L /\ "remove" \notin Creates
  BY <1>1, Zenon DEF Creates
<1>6. /\ promised' \in [StoreEpochs -> SUBSET Nat] /\ promised'[e] = {}
      /\ \A d \in StoreEpochs : d # e => promised'[d] = promised[d]
  BY <1>1, Zenon DEF StoreInv, StoreTypeOK
<1>7. StoreTypeOK'
  BY <1>1, <1>4, <1>6, Zenon DEF StoreInv, StoreTypeOK
<1>8. GuardInv'
  BY <1>1, <1>5, Zenon DEF StoreInv, GuardInv
<1>9. CallInv'
  BY <1>1, <1>3, <1>5, <1>6, Zenon DEF CallInv
<1>10. PromiseInv'
  BY <1>1, <1>6, Zenon DEF StoreInv, PromiseInv
<1>11. PhaseInv'
  <2>1. NoCall.at = ""
    BY Zenon DEF NoCall
  <2> QED BY <1>1, <1>5, <2>1, Zenon DEF StoreInv, PhaseInv
<1> QED BY <1>7, <1>8, <1>9, <1>10, <1>11, Zenon DEF StoreInv

(* A removal under way covers every file of its epoch, which has no        *)
(* promise left.                                                           *)
LEMMA RemoveFacts ==
    ASSUME StoreInv, call.at = "remove"
    PROVE  /\ call \in Calls /\ call.epoch \in StoreEpochs /\ call.left \in SUBSET Names
           /\ phase \in {"serving", "recovering"} /\ promised[call.epoch] = {}
           /\ \A n \in DOMAIN entries : n.epoch = call.epoch => n \in call.left
           /\ \A n \in call.left : n.epoch = call.epoch
<1>1. call \in Calls /\ call # NoCall
  BY CallFacts, Zenon DEF StoreInv
<1> QED BY <1>1, Zenon DEF StoreInv, StoreTypeOK, CallInv, PhaseInv, Calls

(* Removing the next file of an epoch.                                     *)
LEMMA CleanupStepStep ==
    ASSUME StoreInv, CleanupStep
    PROVE  StoreInv'
<1>1. PICK n \in call.left : entries' = Removed(entries, n) /\ call' = [call EXCEPT !.left = @ \ {n}]
  BY Zenon DEF CleanupStep, FirstOf
<1>2. call.at = "remove" /\ UNCHANGED <<platform, durable, guards, promised, cleaned, counter, phase, todoEpochs>>
  BY Zenon DEF CleanupStep, Bookkeeping
<1>3. /\ call \in Calls /\ call.epoch \in StoreEpochs /\ call.left \in SUBSET Names
      /\ promised[call.epoch] = {} /\ n.epoch = call.epoch
      /\ \A m \in DOMAIN entries : m.epoch = call.epoch => m \in call.left
      /\ \A m \in call.left : m.epoch = call.epoch
  BY <1>2, RemoveFacts, Zenon
<1>4. /\ entries' \in WholeDirs /\ DOMAIN entries' = DOMAIN entries \ {n}
      /\ \A m \in DOMAIN entries : m # n => entries'[m] = entries[m]
  BY <1>1, RemovedDir, Zenon DEF StoreInv, StoreTypeOK
<1>5. /\ call' \in Calls /\ call'.at = "remove" /\ call'.epoch = call.epoch
      /\ call'.left = call.left \ {n} /\ "remove" \notin Creates
  BY <1>1, <1>2, <1>3, Zenon DEF Calls, Creates
<1>6. StoreTypeOK'
  BY <1>2, <1>4, <1>5, Zenon DEF StoreInv, StoreTypeOK
<1>7. GuardInv'
  BY <1>2, <1>4, <1>5, Zenon DEF StoreInv, GuardInv
<1>8. CallInv'
  BY <1>2, <1>3, <1>4, <1>5, Zenon DEF CallInv
<1>9. PromiseInv'
  <2>1. \A e \in StoreEpochs : promised[e] # {} => Runtime(e) # n
    BY <1>3, NameTypes, Zenon
  <2> QED BY <1>2, <1>4, <2>1, Zenon DEF StoreInv, PromiseInv
<1>10. PhaseInv'
  <2>1. phase \in {"serving", "recovering"}
    BY <1>2, RemoveFacts, Zenon
  <2> QED BY <1>2, <1>4, <1>5, <2>1, Zenon DEF StoreInv, PhaseInv
<1> QED BY <1>6, <1>7, <1>8, <1>9, <1>10, Zenon DEF StoreInv

(* A finished cleanup has left no file of its epoch.                       *)
LEMMA CleanupEndsStep ==
    ASSUME StoreInv, CleanupEnds
    PROVE  StoreInv'
<1>1. /\ call.at = "remove" /\ call.left = {} /\ call' = NoCall
      /\ durable' = IF platform = "unix" THEN entries ELSE durable
      /\ cleaned' = cleaned \cup {call.epoch}
      /\ UNCHANGED <<platform, entries, guards, promised, counter, phase, todoEpochs>>
  BY Zenon DEF CleanupEnds, SyncsDirectory, Bookkeeping
<1>2. /\ call.epoch \in StoreEpochs /\ phase \in {"serving", "recovering"}
      /\ \A n \in DOMAIN entries : n.epoch # call.epoch
  BY <1>1, RemoveFacts, Zenon
<1>3. call'.at = "" /\ "" \notin Creates
  BY <1>1, CallFacts, Zenon DEF StoreInv, Creates
<1>4. StoreTypeOK'
  <2>1. durable' \in WholeDirs
    BY <1>1, Zenon DEF StoreInv, StoreTypeOK
  <2> QED BY <1>1, <1>2, <2>1, Zenon DEF StoreInv, StoreTypeOK
<1>5. GuardInv'
  BY <1>1, <1>3, Zenon DEF StoreInv, GuardInv
<1>6. CallInv'
  BY <1>3, Zenon DEF CallInv
<1>7. PromiseInv'
  BY <1>1, <1>2, Zenon DEF StoreInv, PromiseInv
<1>8. PhaseInv'
  BY <1>1, <1>2, Zenon DEF StoreInv, PhaseInv
<1> QED BY <1>4, <1>5, <1>6, <1>7, <1>8, Zenon DEF StoreInv

(* A failed cleanup keeps the files it did not reach.                      *)
LEMMA CleanupFailsStep ==
    ASSUME StoreInv, CleanupFails
    PROVE  StoreInv'
<1>1. /\ call.at = "remove" /\ call' = NoCall
      /\ phase' = IF phase = "recovering" THEN "down" ELSE phase
      /\ UNCHANGED <<platform, entries, durable, guards, counter, todoEpochs, promised, cleaned>>
  BY Zenon DEF CleanupFails
<1>2. phase \in {"serving", "recovering"}
  BY <1>1, RemoveFacts, Zenon
<1>3. call'.at = "" /\ "" \notin Creates
  BY <1>1, CallFacts, Zenon DEF StoreInv, Creates
<1>4. StoreTypeOK'
  BY <1>1, <1>2, Zenon DEF StoreInv, StoreTypeOK
<1>5. GuardInv'
  BY <1>1, <1>3, Zenon DEF StoreInv, GuardInv
<1>6. CallInv'
  BY <1>3, Zenon DEF CallInv
<1>7. PromiseInv'
  BY <1>1, Zenon DEF StoreInv, PromiseInv
<1>8. PhaseInv'
  BY <1>1, <1>2, Zenon DEF PhaseInv
<1> QED BY <1>4, <1>5, <1>6, <1>7, <1>8, Zenon DEF StoreInv

-----------------------------------------------------------------------------
(* Failures. The process is gone, with it every guard and call.            *)
LEMMA DownStep ==
    ASSUME StoreInv, phase' = "down", call' = NoCall, guards' = {}, todoEpochs' = {},
           entries' \in WholeDirs, durable' \in WholeDirs, PromiseInv',
           promised' \in [StoreEpochs -> SUBSET Nat], cleaned' \subseteq StoreEpochs,
           UNCHANGED counter
    PROVE  StoreInv'
<1>1. call'.at = "" /\ "" \notin Creates
  BY CallFacts, Zenon DEF StoreInv, Creates
<1>2. StoreTypeOK'
  BY Zenon DEF StoreInv, StoreTypeOK
<1>3. GuardInv' /\ CallInv' /\ PhaseInv'
  BY <1>1, Zenon DEF GuardInv, CallInv, PhaseInv
<1> QED BY <1>2, <1>3, Zenon DEF StoreInv

(* The end of the process keeps the directory as it is.                    *)
LEMMA ProcessDiesStep ==
    ASSUME StoreInv, ProcessDies
    PROVE  StoreInv'
<1>1. /\ PromiseInv' /\ entries' \in WholeDirs /\ durable' \in WholeDirs
      /\ promised' \in [StoreEpochs -> SUBSET Nat] /\ cleaned' \subseteq StoreEpochs
  BY Zenon DEF ProcessDies, StoreInv, StoreTypeOK, PromiseInv
<1> QED BY <1>1, DownStep, Zenon DEF ProcessDies

(* Each name falls back or not; a configuration is whole on both sides.    *)
LEMMA PowerFailsStep ==
    ASSUME StoreInv, PowerFails
    PROVE  StoreInv'
<1>1. PICK S \in SUBSET {n \in DOMAIN entries \cup DOMAIN durable :
                           \/ n \notin DOMAIN entries \/ n \notin DOMAIN durable
                           \/ entries[n] # durable[n]} :
        LET kept == {n \in DOMAIN entries : n \notin S}
            back == {n \in DOMAIN durable : n \in S}
            now  == [n \in kept \cup back |->
                       Survives(IF n \in kept THEN entries[n] ELSE durable[n])]
        IN  entries' = now /\ durable' = now
  BY Zenon DEF PowerFails
<1> DEFINE kept == {n \in DOMAIN entries : n \notin S}
           back == {n \in DOMAIN durable : n \in S}
           was(n) == IF n \in kept THEN entries[n] ELSE durable[n]
           now == [n \in kept \cup back |-> Survives(was(n))]
<1>2. /\ DOMAIN entries \subseteq Names /\ DOMAIN durable \subseteq Names
      /\ \A n \in DOMAIN entries : entries[n] \in Files /\ (n \in Kept => entries[n] \in Whole)
      /\ \A n \in DOMAIN durable : durable[n] \in Files /\ (n \in Kept => durable[n] \in Whole)
  BY DirFacts, Zenon DEF StoreInv, StoreTypeOK
<1>3. kept \cup back \in SUBSET Names
  BY <1>2, Zenon
<1>4. \A n \in kept \cup back : was(n) \in Files /\ (n \in Kept => was(n) \in Whole)
  BY <1>2, Zenon
<1>5. \A f \in Files : Survives(f) \in Files /\ (f \in Whole => Survives(f) = f)
  BY Zenon DEF Survives, Files, Whole
<1>6. \A n \in kept \cup back : Survives(was(n)) \in Files
                                /\ (n \in Kept => Survives(was(n)) \in Whole)
  BY <1>4, <1>5, Zenon
<1>7. now \in WholeDirs
  <2> DEFINE D == kept \cup back
             v(n) == Survives(was(n))
  <2>1. D \in SUBSET Names /\ \A n \in D : v(n) \in Files /\ (n \in Kept => v(n) \in Whole)
    BY <1>3, <1>6, Zenon
  <2>2. now = [n \in D |-> v(n)]
    BY Zenon
  <2> HIDE DEF D, v, now
  <2>3. now \in [D -> Files] /\ DOMAIN now = D /\ \A n \in D : now[n] = v(n)
    BY <2>1, <2>2, Zenon
  <2> QED BY <2>1, <2>3, Zenon DEF WholeDirs, Dirs
<1>8. entries' = now /\ durable' = now
  BY <1>1, Zenon
<1>9. /\ phase' = "down" /\ call' = NoCall /\ guards' = {} /\ todoEpochs' = {}
      /\ UNCHANGED <<platform, counter>>
      /\ promised' = IF platform = "unix" THEN promised ELSE [e \in StoreEpochs |-> {}]
      /\ cleaned' = IF platform = "unix" THEN cleaned ELSE {}
  BY Zenon DEF PowerFails, Claims
<1>11. promised' \in [StoreEpochs -> SUBSET Nat] /\ cleaned' \subseteq StoreEpochs
  <2>1. [e \in StoreEpochs |-> {}] \in [StoreEpochs -> SUBSET Nat]
    BY Zenon
  <2> QED BY <1>9, <2>1, Zenon DEF StoreInv, StoreTypeOK
<1>10. PromiseInv'
  <2>0. CASE platform # "unix"
    <3>1. platform' # "unix" /\ cleaned' = {} /\ promised' = [e \in StoreEpochs |-> {}]
      BY <1>9, <2>0, Zenon
    <3>2. \A e \in StoreEpochs : promised'[e] = {}
      BY <3>1, Zenon
    <3> QED BY <3>1, <3>2, Zenon DEF PromiseInv
  <2> SUFFICES ASSUME platform = "unix" PROVE PromiseInv'
    BY <2>0, Zenon
  <2>3. UNCHANGED <<platform, promised, cleaned>>
    BY <1>9, Zenon
  <2>1. ASSUME NEW e \in StoreEpochs, promised[e] # {}
        PROVE  Runtime(e) \in DOMAIN now /\ now[Runtime(e)].data \in promised[e]
    <3>1. /\ Runtime(e) \in DOMAIN entries /\ entries[Runtime(e)].data \in promised[e]
          /\ platform = "unix" => Runtime(e) \in DOMAIN durable /\ durable[Runtime(e)].data \in promised[e]
      BY <2>1, Zenon DEF StoreInv, PromiseInv
    <3>2. Runtime(e) \in Kept
      BY NameTypes, Zenon
    <3>3. Runtime(e) \in kept \cup back
      BY <3>1, Zenon
    <3>4. was(Runtime(e)).data \in promised[e] /\ was(Runtime(e)) \in Whole
      BY <1>4, <3>1, <3>2, <3>3, Zenon
    <3>5. was(Runtime(e)) \in Files
      BY <1>4, <3>3, Zenon
    <3>6. now[Runtime(e)] = was(Runtime(e))
      BY <1>5, <3>3, <3>4, <3>5, Zenon
    <3> QED BY <3>3, <3>4, <3>6, Zenon
  <2>2. \A n \in DOMAIN now : n.epoch \notin cleaned
    BY Zenon DEF StoreInv, PromiseInv
  <2> HIDE DEF now
  <2> QED BY <1>8, <2>1, <2>2, <2>3, Zenon DEF PromiseInv
<1> HIDE DEF now
<1> QED BY <1>7, <1>8, <1>9, <1>10, <1>11, DownStep, Zenon

(* A manager opens.                                                        *)
LEMMA ReopenStep ==
    ASSUME StoreInv, Reopen \/ Recovered
    PROVE  StoreInv'
<1>1. /\ UNCHANGED <<platform, entries, durable, guards, call, counter, promised, cleaned>>
      /\ call = NoCall
  BY Zenon DEF Reopen, Recovered, StoreInv, PhaseInv
<1>2. GuardInv' /\ CallInv' /\ PromiseInv'
  BY <1>1, Zenon DEF StoreInv, GuardInv, CallInv, PromiseInv
<1>3. DOMAIN entries \subseteq Names
  BY DirFacts, Zenon DEF StoreInv, StoreTypeOK
<1>4. CASE Reopen
  <2>1. phase' = "recovering" /\ todoEpochs' = artifact_epochs
    BY <1>4, Zenon DEF Reopen
  <2>2. /\ \A n \in DOMAIN entries : n.epoch \in artifact_epochs
        /\ artifact_epochs \subseteq StoreEpochs
    BY <1>3, Zenon DEF artifact_epochs, SweptKinds, Names
  <2>3. StoreTypeOK' /\ PhaseInv'
    BY <1>1, <2>1, <2>2, Zenon DEF StoreInv, StoreTypeOK, PhaseInv
  <2> QED BY <1>2, <2>3, Zenon DEF StoreInv
<1>5. CASE Recovered
  <2>1. phase' = "serving" /\ UNCHANGED todoEpochs
    BY <1>5, Zenon DEF Recovered
  <2>2. StoreTypeOK' /\ PhaseInv'
    BY <1>1, <2>1, Zenon DEF StoreInv, StoreTypeOK, PhaseInv
  <2> QED BY <1>2, <2>2, Zenon DEF StoreInv
<1> QED BY <1>4, <1>5, Zenon

-----------------------------------------------------------------------------
(* An empty directory satisfies the invariant.                             *)
LEMMA StoreStarts == StoreInit => StoreInv
<1> SUFFICES ASSUME StoreInit PROVE StoreInv
  BY Zenon
<1>1. entries = NoFiles /\ durable = NoFiles /\ DOMAIN NoFiles = {} /\ NoFiles \in WholeDirs
  BY DEF StoreInit, NoFiles, WholeDirs, Dirs
<1>2. call = NoCall /\ call.at = "" /\ guards = {} /\ "" \notin Creates
  BY Zenon DEF StoreInit, NoCall, Creates
<1>3. promised \in [StoreEpochs -> SUBSET Nat] /\ \A e \in StoreEpochs : promised[e] = {}
  BY Zenon DEF StoreInit
<1>4. StoreTypeOK
  BY <1>1, <1>2, <1>3, Zenon DEF StoreInit, StoreTypeOK
<1>5. GuardInv /\ CallInv /\ PhaseInv
  BY <1>2, Zenon DEF StoreInit, GuardInv, CallInv, PhaseInv
<1>6. PromiseInv
  BY <1>1, <1>3, Zenon DEF PromiseInv
<1> QED BY <1>4, <1>5, <1>6, Zenon DEF StoreInv

(* The invariant is inductive.                                             *)
LEMMA StoreStep ==
    ASSUME StoreInv, [StoreNext]_storeVars
    PROVE  StoreInv'
<1>1. CASE UNCHANGED storeVars
  BY <1>1, Zenon DEF storeVars, StoreInv, StoreTypeOK, GuardInv, CallInv, PromiseInv, PhaseInv
<1>2. ASSUME NEW e \in StoreEpochs,
             \/ BeginStage(e) \/ BeginBackup(e) \/ BeginRestore(e)
             \/ BeginCommit(e, "new") \/ BeginCommit(e, "replace")
             \/ RemoveBackup(e) \/ CoreFiles(e) \/ BeginCleanup(e)
      PROVE  StoreInv'
  BY <1>2, BeginStageStep, BeginBackupStep, BeginRestoreStep, BeginCommitStep, RemoveBackupStep,
     CoreFilesStep, BeginCleanupStep, Zenon
<1>3. CASE \/ DropGuard \/ StageStep \/ StageFails \/ Install \/ InstallFails
           \/ BackupTaken \/ SyncDir \/ SyncDirFails
  BY <1>3, DropGuardStep, StageStepStep, StageFailsStep, InstallStep, InstallFailsStep,
     SyncDirStep, SyncDirFailsStep, Zenon
<1>4. CASE \/ CleanupStep \/ CleanupEnds \/ CleanupFails
           \/ CallDropped \/ ProcessDies \/ PowerFails \/ Reopen \/ Recovered
  BY <1>4, CleanupStepStep, CleanupEndsStep, CleanupFailsStep, CallDroppedStep, ProcessDiesStep,
     PowerFailsStep, ReopenStep, Zenon
<1> QED BY <1>1, <1>2, <1>3, <1>4, Zenon DEF StoreNext

(* StoreInv is an invariant of the runtime directory for any set of epochs *)
(* and any number of calls, errors, dropped calls and failures.            *)
THEOREM StoreInvariant == StoreSpec => []StoreInv
<1>1. StoreInit => StoreInv
  BY StoreStarts, Zenon
<1>2. StoreInv /\ [StoreNext]_storeVars => StoreInv'
  BY StoreStep, Zenon
<1> QED BY <1>1, <1>2, PTL DEF StoreSpec

(* What the store promised is on disk after every crash, and on Unix after *)
(* every power failure: whole documents, the durable one or a later one,   *)
(* and nothing of an epoch whose cleanup was reported (runtime_store.rs,   *)
(* stage, commit_new, commit_replace, installed_commit, cleanup_epoch).    *)
THEOREM StoreKeepsItsWord == StoreSpec => []StoreSound
<1>1. StoreInv => StoreSound
  <2> SUFFICES ASSUME StoreInv PROVE StoreSound
    BY Zenon
  <2>1. WholeDocuments
    <3>1. /\ DOMAIN entries \subseteq Names
          /\ \A n \in DOMAIN entries : n \in Kept => entries[n] \in Whole
      BY DirFacts, Zenon DEF StoreInv, StoreTypeOK
    <3> QED BY <3>1, Zenon DEF WholeDocuments, Kept, Whole
  <2>2. DurableSurvives
    BY Zenon DEF StoreInv, PromiseInv, DurableSurvives
  <2>3. CleanedIsGone
    BY Zenon DEF StoreInv, PromiseInv, CleanedIsGone, Of
  <2> QED BY <2>1, <2>2, <2>3, Zenon DEF StoreSound
<1> QED BY <1>1, StoreInvariant, PTL

-----------------------------------------------------------------------------
(* Nothing is left behind.                                                 *)
LEMMA InstallConsumes ==
    ASSUME StoreInv, StoreNext, phase = "serving", phase' = "serving",
           call.at = "install", call'.at # "install"
    PROVE  LET t == Temp(call.epoch, call.id) IN t \in DOMAIN entries' => t \in stuck'
<1> DEFINE t == Temp(call.epoch, call.id)
<1>1. call # NoCall /\ ~Staging
  BY CallServes, CallFacts, Zenon DEF StoreInv, Creates
<1>2. t \notin DOMAIN Installed /\ t \notin DOMAIN Unlinked(entries, t)
  BY InstalledDir, UnstageDir, Zenon DEF StoreInv, Unstage
<1>3. Unlinks(t) => (t \in DOMAIN entries' => t \in stuck')
  BY <1>2, Zenon DEF Unlinks
<1>4. CASE Install
  BY <1>2, <1>4, Zenon DEF Install
<1>5. CASE InstallFails \/ BackupTaken
  BY <1>3, <1>5, Zenon DEF InstallFails, BackupTaken, GivesUp
<1>6. CASE CallDropped
  <2>1. Unlinks(t) \/ entries' = Installed
    BY <1>1, <1>6, Zenon DEF CallDropped
  <2> QED BY <1>2, <1>3, <2>1, Zenon
<1>7. Install \/ InstallFails \/ BackupTaken \/ CallDropped
  BY <1>1, Zenon DEF StoreNext, BeginStage, BeginBackup, BeginRestore, BeginCopy, Begin,
      BeginCommit, RemoveBackup, CoreFiles, BeginCleanup, DropGuard, StageStep, StageFails, SyncDir,
      SyncDirFails, CleanupStep, CleanupEnds, CleanupFails, ProcessDies, PowerFails, Reopen, Recovered
<1> QED BY <1>4, <1>5, <1>6, <1>7, Zenon

(* A guard that goes while its file stays has gone into an install, or its *)
(* removal failed.                                                         *)
LEMMA GuardConsumed ==
    ASSUME StoreInv, StoreNext, phase = "serving", phase' = "serving",
           NEW n \in guards \ guards', n \in DOMAIN entries'
    PROVE  call'.at = "install" \/ n \in stuck'
<1>1. entries \in WholeDirs
  BY Zenon DEF StoreInv, StoreTypeOK
<1>2. \A m : m \notin DOMAIN Unlinked(entries, m)
  BY <1>1, RemovedDir, Zenon DEF Unlinked
<1>3. GivesUp(n) => n \in stuck'
  BY <1>2, Zenon DEF GivesUp, Unlinks
<1>4. CASE DropGuard
  <2>1. PICK m \in guards : guards' = guards \ {m} /\ GivesUp(m)
    BY <1>4, Zenon DEF DropGuard
  <2> QED BY <1>3, <2>1, Zenon
<1>5. ASSUME NEW e \in StoreEpochs, NEW op \in {"new", "replace"}, BeginCommit(e, op)
      PROVE  call'.at = "install" \/ n \in stuck'
  <2>1. PICK m \in guards :
          /\ guards' = guards \ {m}
          /\ \/ call' = [op |-> op, at |-> "install", epoch |-> e, id |-> m.id,
                         data |-> entries[m].data, left |-> {}]
             \/ GivesUp(m)
    BY <1>5, Zenon DEF BeginCommit
  <2>2. m = n
    BY <2>1, Zenon
  <2>3. call'.at = "install" \/ GivesUp(m)
    BY <2>1
  <2> QED BY <1>3, <2>2, <2>3, Zenon
<1>6. \/ DropGuard
      \/ \E e \in StoreEpochs : BeginCommit(e, "new") \/ BeginCommit(e, "replace")
  BY Zenon DEF StoreNext, BeginStage, BeginBackup, BeginRestore, BeginCopy, RemoveBackup, CoreFiles,
         BeginCleanup, StageStep, StageFails, Install, InstallFails, BackupTaken, SyncDir,
         SyncDirFails, CleanupStep, CleanupEnds, CleanupFails, CallDropped, ProcessDies, PowerFails,
         Reopen, Recovered
<1> QED BY <1>4, <1>5, <1>6, Zenon

(* The manager starts to serve with an empty directory.                    *)
LEMMA OpensWithNothing ==
    ASSUME StoreInv, StoreNext, phase = "recovering", phase' = "serving"
    PROVE  DOMAIN entries = {}
<1>1. Recovered
  BY Zenon DEF StoreNext, BeginStage, BeginBackup, BeginRestore, BeginCopy, Begin, BeginCommit,
         RemoveBackup, CoreFiles, BeginCleanup, DropGuard, StageStep, StageFails, Install,
         InstallFails, BackupTaken, SyncDir, SyncDirFails, CleanupStep, CleanupEnds, CleanupFails,
         CallDropped, ProcessDies, PowerFails, Reopen, Bookkeeping
<1>2. call.at = "" /\ todoEpochs = {}
  BY <1>1, Zenon DEF Recovered, NoCall
<1> QED BY <1>2, Zenon DEF StoreInv, PhaseInv

(* However a commit ends its staged file is gone and a guard given up      *)
(* leaves no file, unless the removal itself failed, and a manager serves  *)
(* only from an empty directory (runtime_store.rs,                         *)
(* StagedRuntimeConfig::drop and artifact_epochs).                         *)
THEOREM StoreLeavesNothing == StoreSpec => NothingLeftBehind
<1>1. StoreInv /\ [StoreNext]_storeVars =>
        [phase = "serving" /\ phase' = "serving" =>
           /\ (call.at = "install" /\ call'.at # "install") =>
                LET t == Temp(call.epoch, call.id) IN t \in DOMAIN entries' => t \in stuck'
           /\ \A n \in guards \ guards' :
                n \in DOMAIN entries' => call'.at = "install" \/ n \in stuck']_storeVars
  BY InstallConsumes, GuardConsumed, Zenon
<1>2. StoreInv /\ [StoreNext]_storeVars =>
        [phase = "recovering" /\ phase' = "serving" => DOMAIN entries = {}]_storeVars
  BY OpensWithNothing, Zenon
<1> QED BY <1>1, <1>2, StoreInvariant, PTL DEF StoreSpec, NothingLeftBehind, StagedConsumed, OpensEmpty

-----------------------------------------------------------------------------
(* The premium clock for any length of the day, as long as the core prints *)
(* twice a day: the date inferred for a line is its own.                   *)

USE DayAssumption

(* A premium clock that is set holds the date and the time of the last     *)
(* line, and the frame's instant is the line's.                            *)
ClockInv ==
    /\ printedAt \in Int /\ DateFollows
    /\ premium.set => premium.date = Date(printedAt) /\ premium.time = Time(printedAt)

(* A day is two halves, and a correction of the clock is at most one.      *)
LEMMA HalfDayFacts == DayHours \in Nat \ {0} /\ HalfDay \in Nat \ {0} /\ DayHours = 2 * HalfDay
                      /\ StepBack \in 0..HalfDay
  BY DEF HalfDay

(* An instant is its date and its time of the day.                         *)
LEMMA DateAndTime ==
    ASSUME NEW t \in Int
    PROVE  /\ Date(t) \in Int /\ Time(t) \in 0..(DayHours - 1)
           /\ t = Date(t) * DayHours + Time(t)
<1> DEFINE D == DayHours
<1>1. D \in Nat \ {0}
  OBVIOUS
<1> HIDE DEF D
<1>2. t \div D \in Int /\ t % D \in 0..(D - 1) /\ t = (t \div D) * D + (t % D)
  BY <1>1
<1> QED BY <1>2 DEF Date, Time, D

(* Two instants less than a day apart are on the same or on adjacent days. *)
LEMMA AdjacentDays ==
    ASSUME NEW s \in Int, NEW t \in Int, s <= t, t - s < DayHours
    PROVE  \/ Date(t) = Date(s) /\ Time(t) - Time(s) = t - s
           \/ Date(t) = Date(s) + 1 /\ Time(t) - Time(s) = t - s - DayHours
<1> DEFINE D == DayHours
           d == Date(s)
           e == Date(t)
           x == Time(s)
           y == Time(t)
<1>1. /\ D \in Nat \ {0} /\ d \in Int /\ e \in Int /\ x \in 0..(D - 1) /\ y \in 0..(D - 1)
      /\ s = d * D + x /\ t = e * D + y
  BY DateAndTime
<1> HIDE DEF D, d, e, x, y
<1>2. /\ d * D \in Int /\ e * D \in Int
      /\ e < d => (e + 1) * D <= d * D
      /\ e > d + 1 => (d + 2) * D <= e * D
      /\ (e + 1) * D = e * D + D /\ (d + 2) * D = d * D + 2 * D /\ (d + 1) * D = d * D + D
  BY <1>1
<1>3. t - s < D
  BY DEF D
<1>4. ~(e < d) /\ ~(e > d + 1)
  BY <1>1, <1>2, <1>3
<1>5. e = d \/ e = d + 1
  BY <1>1, <1>4
<1>6. CASE e = d
  BY <1>1, <1>2, <1>6 DEF d, e, x, y
<1>7. CASE e = d + 1
  <2>1. y - x = t - s - D
    BY <1>1, <1>2, <1>7
  <2> QED BY <1>7, <2>1 DEF d, e, x, y, D
<1> QED BY <1>5, <1>6, <1>7, Zenon

(* The date of the first line, from the instant it was observed at.        *)
LEMMA FirstLineDate ==
    ASSUME NEW at \in Int, NEW delay \in 0..(HalfDay - 1)
    PROVE  FirstDate(Time(at), at + delay) = Date(at)
<1> DEFINE H == HalfDay
           D == DayHours
           t == at + delay
<1>1. /\ H \in Nat \ {0} /\ D = 2 * H /\ delay \in 0..(H - 1)
      /\ t \in Int /\ at <= t /\ t - at = delay /\ t - at < D
  BY HalfDayFacts
<1>2. /\ Date(at) \in Int /\ Time(at) \in Int /\ Date(t) \in Int /\ Time(t) \in Int
  BY <1>1, DateAndTime
<1> HIDE DEF t, H, D
<1>3. \/ Date(t) = Date(at) /\ Time(t) - Time(at) = t - at
      \/ Date(t) = Date(at) + 1 /\ Time(t) - Time(at) = t - at - D
  BY <1>1, AdjacentDays DEF D
<1>4. IF Time(at) - Time(t) > H THEN Date(t) - 1 = Date(at) ELSE Date(t) = Date(at)
  BY <1>1, <1>2, <1>3
<1> QED BY <1>4 DEF FirstDate, t, H

(* The date of a later line, from the rollover of its time.                *)
LEMMA NextLineDate ==
    ASSUME NEW p \in Int, NEW at \in (p - StepBack)..(p + HalfDay - 1), at < p => Date(at) = Date(p)
    PROVE  (IF RolledOver(Time(p), Time(at)) THEN Date(p) + 1 ELSE Date(p)) = Date(at)
<1> DEFINE H == HalfDay
           D == DayHours
<1>1. H \in Nat \ {0} /\ D = 2 * H /\ StepBack \in 0..H
  BY HalfDayFacts
<1>2. at \in Int /\ p - at <= H /\ at - p <= H - 1
  BY <1>1
<1>3. /\ Date(at) \in Int /\ Time(at) \in Int /\ Date(p) \in Int /\ Time(p) \in Int
  BY <1>2, DateAndTime
<1>4. CASE at < p
  <2>1. p - at < D
    BY <1>1, <1>2
  <2>2. Date(p) # Date(at) + 1
    BY <1>3, <1>4
  <2>3. Time(p) - Time(at) = p - at
    BY <1>2, <1>4, <2>1, <2>2, AdjacentDays
  <2>4. ~(Time(p) - Time(at) > H)
    BY <1>1, <1>2, <2>3
  <2> QED BY <1>4, <2>4 DEF RolledOver
<1>5. CASE ~(at < p)
  <2>1. p <= at /\ at - p < D
    BY <1>1, <1>2, <1>5
  <2>2. \/ Date(at) = Date(p) /\ Time(at) - Time(p) = at - p
        \/ Date(at) = Date(p) + 1 /\ Time(at) - Time(p) = at - p - D
    BY <1>2, <2>1, AdjacentDays
  <2> HIDE DEF H, D
  <2>3. \/ Date(at) = Date(p) /\ ~(Time(p) - Time(at) > H)
        \/ Date(at) = Date(p) + 1 /\ Time(p) - Time(at) > H
    BY <1>1, <1>2, <1>3, <2>1, <2>2
  <2> QED BY <2>3 DEF RolledOver, H
<1> QED BY <1>4, <1>5, Zenon

(* No line has been read at first.                                         *)
LEMMA ClockStarts == ClockInit => ClockInv
  BY DEF ClockInit, ClockInv, DateFollows

(* The invariant is inductive.                                             *)
LEMMA ClockStep == ClockInv /\ [ClockNext]_clockVars => ClockInv'
<1> SUFFICES ASSUME ClockInv, [ClockNext]_clockVars PROVE ClockInv'
  BY Zenon
<1>1. CASE UNCHANGED clockVars
  BY <1>1, Zenon DEF clockVars, ClockInv, DateFollows, Date, Time
<1>2. CASE ClockNext
  <2>1. PICK at \in (printedAt - StepBack)..(printedAt + HalfDay - 1), delay \in 0..(HalfDay - 1) :
           /\ at < printedAt => Date(at) = Date(printedAt)
           /\ PremiumLine(at, delay)
    BY <1>2, Zenon DEF ClockNext
  <2> DEFINE date == IF ~premium.set THEN FirstDate(Time(at), at + delay)
                     ELSE IF RolledOver(premium.time, Time(at)) THEN premium.date + 1
                     ELSE premium.date
  <2>2. /\ printedAt' = at
        /\ premium' = [set |-> TRUE, date |-> date, time |-> Time(at)]
        /\ inferred' = date * DayHours + Time(at)
    BY <2>1, Zenon DEF PremiumLine
  <2>3. printedAt \in Int /\ at \in Int
    BY HalfDayFacts DEF ClockInv
  <2>4. date = Date(at)
    <3>1. CASE ~premium.set
      BY <2>1, <2>3, <3>1, FirstLineDate, Zenon
    <3>2. CASE premium.set
      <4>1. premium.date = Date(printedAt) /\ premium.time = Time(printedAt)
        BY <3>2, Zenon DEF ClockInv
      <4>2. (IF RolledOver(Time(printedAt), Time(at)) THEN Date(printedAt) + 1 ELSE Date(printedAt))
              = Date(at)
        BY <2>1, <2>3, NextLineDate, Zenon
      <4> QED BY <3>2, <4>1, <4>2
    <3> QED BY <3>1, <3>2, Zenon
  <2> HIDE DEF date
  <2>5. inferred' = at
    BY <2>2, <2>3, <2>4, DateAndTime
  <2>6. premium'.date = Date(at) /\ premium'.time = Time(at)
    BY <2>2, <2>4
  <2>7. Date(printedAt)' = Date(at) /\ Time(printedAt)' = Time(at)
    BY <2>2, Zenon DEF Date, Time
  <2> QED BY <2>2, <2>3, <2>5, <2>6, <2>7, Zenon DEF ClockInv, DateFollows
<1> QED BY <1>1, <1>2, Zenon

(* premium_unix_ms (log.rs), for any length of the day and any number of   *)
(* lines: a frame carries the instant its line was printed at.             *)
THEOREM PremiumDateFollows == ClockInit /\ [][ClockNext]_clockVars => []DateFollows
<1>1. ClockInv => DateFollows
  BY Zenon DEF ClockInv
<1> QED BY <1>1, ClockStarts, ClockStep, PTL

HIDE DayAssumption

-----------------------------------------------------------------------------
(* The health tracker for any thresholds and any history of results: it    *)
(* counts, and what it says is what a look at the whole history says.      *)

USE ThresholdAssumption

(* Streaks of a set of positions: the last k of n positions are in S and   *)
(* the one before is not; the positions at which t in a row end; the last  *)
(* of a set of positions, or 0.                                            *)
Trails(S, n, k) == /\ k \in 0..n /\ \A i \in (n - k + 1)..n : i \in S
                   /\ k < n => n - k \notin S
RunsOf(S, n, t) == {i \in t..n : \A j \in (i - t + 1)..i : j \in S}
IsLatest(S, m) == IF S = {} THEN m = 0 ELSE m \in S /\ \A i \in S : i <= m

(* The last position of a set is its maximum.                              *)
LEMMA LatestIs ==
    ASSUME NEW S \in SUBSET Nat, NEW m \in Nat, IsLatest(S, m)
    PROVE  LatestOf(S) = m
<1>1. CASE S = {}
  BY <1>1, Zenon DEF IsLatest, LatestOf
<1>2. CASE S # {}
  <2>1. m \in S /\ \A y \in S : m >= y
    BY <1>2, Zenon DEF IsLatest
  <2>2. \A x \in S : (\A y \in S : x >= y) => x = m
    BY <2>1
  <2>3. Max(S) = m
    BY <2>1, <2>2, Zenon DEF Max
  <2> QED BY <1>2, <2>3, Zenon DEF LatestOf
<1> QED BY <1>1, <1>2, Zenon

(* A new position is the last one.                                         *)
LEMMA LatestGrows ==
    ASSUME NEW n \in Nat, NEW S \in SUBSET (1..n), NEW m, IsLatest(S, m)
    PROVE  m \in 0..n /\ IsLatest(S \cup {n + 1}, n + 1)
<1>1. m = 0 \/ m \in S
  BY Zenon DEF IsLatest
<1>2. S \cup {n + 1} # {} /\ n + 1 \in S \cup {n + 1} /\ \A i \in S \cup {n + 1} : i <= n + 1
  OBVIOUS
<1>4. m \in 0..n
  <2>1. 0 \in 0..n /\ \A i \in 1..n : i \in 0..n
    OBVIOUS
  <2> QED BY <1>1, <2>1, Zenon
<1> QED BY <1>2, <1>4, Zenon DEF IsLatest

(* The lesser of two numbers.                                              *)
LEMMA MinOfTwo ==
    ASSUME NEW a \in Nat, NEW b \in Nat
    PROVE  Min({a, b}) = IF a <= b THEN a ELSE b
<1> DEFINE m == IF a <= b THEN a ELSE b
<1>1. m \in {a, b} /\ \A y \in {a, b} : m <= y
  OBVIOUS
<1>2. \A x \in {a, b} : (\A y \in {a, b} : x <= y) => x = m
  OBVIOUS
<1> QED BY <1>1, <1>2 DEF Min

(* The thresholds are positive.                                            *)
LEMMA ThresholdType == SuccessThreshold \in Nat \ {0} /\ FailureThreshold \in Nat \ {0}
OBVIOUS

(* A streak goes on with the next position in S and ends with one that is  *)
(* not; the threshold is reached exactly when the streak is long enough.   *)
LEMMA StreakGoesOn ==
    ASSUME NEW n \in Nat, NEW S \in SUBSET (1..n), NEW t \in Nat \ {0}, NEW k, Trails(S, n, k)
    PROVE  /\ Trails(S \cup {n + 1}, n + 1, k + 1)
           /\ k + 1 >= t => RunsOf(S \cup {n + 1}, n + 1, t) = RunsOf(S, n, t) \cup {n + 1}
           /\ ~(k + 1 >= t) => RunsOf(S \cup {n + 1}, n + 1, t) = RunsOf(S, n, t)
<1>1. k \in 0..n /\ (\A i \in (n - k + 1)..n : i \in S) /\ (k < n => n - k \notin S)
  BY Zenon DEF Trails
<1>2. Trails(S \cup {n + 1}, n + 1, k + 1)
  BY <1>1 DEF Trails
<1> DEFINE U == S \cup {n + 1}
<1>3. \A i \in 1..n : i \in U <=> i \in S
  OBVIOUS
<1>4. \A i \in t..n : (\A j \in (i - t + 1)..i : j \in U) <=> (\A j \in (i - t + 1)..i : j \in S)
  OBVIOUS
<1>5. k + 1 >= t => n + 1 \in t..(n + 1) /\ \A j \in (n + 1 - t + 1)..(n + 1) : j \in U
  BY <1>1
<1>6. ASSUME k + 1 < t, n + 1 \in t..(n + 1) PROVE n - k \in (n + 1 - t + 1)..(n + 1) /\ n - k \notin U
  BY <1>1, <1>6
<1>7. /\ k + 1 >= t => RunsOf(U, n + 1, t) = RunsOf(S, n, t) \cup {n + 1}
      /\ ~(k + 1 >= t) => RunsOf(U, n + 1, t) = RunsOf(S, n, t)
  <2>1. \A i \in t..n : i \in RunsOf(U, n + 1, t) <=> i \in RunsOf(S, n, t)
    BY <1>4 DEF RunsOf
  <2>2. n + 1 \in RunsOf(U, n + 1, t) <=> k + 1 >= t
    BY <1>1, <1>5, <1>6 DEF RunsOf
  <2>3. RunsOf(U, n + 1, t) \subseteq t..(n + 1) /\ RunsOf(S, n, t) \subseteq t..n
    BY Zenon DEF RunsOf
  <2>4. \A i \in t..(n + 1) : i \in t..n \/ i = n + 1
    OBVIOUS
  <2>5. CASE k + 1 >= t
    <3>1. n + 1 \in RunsOf(U, n + 1, t) /\ \A i \in t..n : i \in t..(n + 1)
      BY <2>2, <2>5
    <3> QED BY <2>1, <2>3, <2>4, <2>5, <3>1, Zenon
  <2>6. CASE ~(k + 1 >= t)
    <3>1. n + 1 \notin RunsOf(U, n + 1, t) /\ \A i \in t..n : i \in t..(n + 1)
      BY <2>2, <2>6
    <3> QED BY <2>1, <2>3, <2>4, <2>6, <3>1, Zenon
  <2> QED BY <2>5, <2>6, Zenon
<1> QED BY <1>2, <1>7, Zenon

(* A result that completes a streak adds the end of a run.                 *)
LEMMA RunReached ==
    ASSUME NEW n \in Nat, NEW S \in SUBSET (1..n), NEW t \in Nat \ {0}, NEW k, Trails(S, n, k),
           k + 1 >= t
    PROVE  RunsOf(S \cup {n + 1}, n + 1, t) = RunsOf(S, n, t) \cup {n + 1}
  BY StreakGoesOn, Zenon

(* A result of a streak still too short adds none.                         *)
LEMMA RunNotReached ==
    ASSUME NEW n \in Nat, NEW S \in SUBSET (1..n), NEW t \in Nat \ {0}, NEW k, Trails(S, n, k),
           ~(k + 1 >= t)
    PROVE  RunsOf(S \cup {n + 1}, n + 1, t) = RunsOf(S, n, t)
  BY StreakGoesOn, Zenon

(* A result of the other kind ends the streak and adds no run.             *)
LEMMA StreakEnds ==
    ASSUME NEW n \in Nat, NEW S \in SUBSET (1..n), NEW t \in Nat \ {0}
    PROVE  Trails(S, n + 1, 0) /\ RunsOf(S, n + 1, t) = RunsOf(S, n, t)
<1>1. Trails(S, n + 1, 0)
  BY DEF Trails
<1>2. n + 1 \notin S /\ (t <= n + 1 => n + 1 \in (n + 1 - t + 1)..(n + 1))
  OBVIOUS
<1>3. n + 1 \notin RunsOf(S, n + 1, t)
  BY <1>2 DEF RunsOf
<1>4. RunsOf(S, n + 1, t) = RunsOf(S, n, t)
  BY <1>3 DEF RunsOf
<1> QED BY <1>1, <1>4

-----------------------------------------------------------------------------
Capped(k) == IF CounterMax <= k THEN CounterMax ELSE k

(* The verdict after thresholds were reached at the points in R and Q,     *)
(* last at s and u.                                                        *)
Verdict(R, Q, s, u) ==
    IF R = {} /\ Q = {} THEN "Starting" ELSE IF s > u THEN "Healthy" ELSE "Unhealthy"

(* What the tracker's fields say of n results, S of them successes and U   *)
(* counted failures: the streaks p and f they end with, the last success   *)
(* l, and where a threshold was reached last, s and u.                     *)
Tells(t, n, S, U, p, f, l, s, u) ==
    /\ Trails(S, n, p) /\ Trails(U, n, f) /\ IsLatest(S, l)
    /\ l <= n - f /\ \A i \in (l + 1)..(n - f) : i \notin U
    /\ t.failures = Capped(f)
    /\ t.state = "Healthy" => t.successes = 0
    /\ t.state # "Healthy" => p < SuccessThreshold /\ t.successes = p
    /\ t.state # "Unhealthy" => f < FailureThreshold
    /\ IsLatest(RunsOf(S, n, SuccessThreshold), s) /\ IsLatest(RunsOf(U, n, FailureThreshold), u)
    /\ t.state = Verdict(RunsOf(S, n, SuccessThreshold), RunsOf(U, n, FailureThreshold), s, u)

(* The points that a run of results ends at are among the results.         *)
LEMMA RunsBounded ==
    ASSUME NEW n \in Nat, NEW S, NEW t \in Nat \ {0}
    PROVE  RunsOf(S, n, t) \in SUBSET (1..n)
  BY DEF RunsOf

(* A success, appended.                                                    *)
LEMMA SuccessTells ==
    ASSUME NEW n \in Nat, NEW S \in SUBSET (1..n), NEW U \in SUBSET (1..n), NEW t \in Trackers,
           NEW p \in Nat, NEW f \in Nat, NEW l \in Nat, NEW s \in Nat, NEW u \in Nat,
           Tells(t, n, S, U, p, f, l, s, u)
    PROVE  \E s2 \in Nat : Tells(ObserveHealthy(t), n + 1, S \cup {n + 1}, U,
                                 p + 1, 0, n + 1, s2, u)
<1> DEFINE V == S \cup {n + 1}
           o == ObserveHealthy(t)
           R == RunsOf(S, n, SuccessThreshold)
           Q == RunsOf(U, n, FailureThreshold)
           s2 == IF p + 1 >= SuccessThreshold THEN n + 1 ELSE s
<1>1. /\ Trails(S, n, p) /\ Trails(U, n, f) /\ IsLatest(S, l)
      /\ t.state # "Healthy" => p < SuccessThreshold /\ t.successes = p
      /\ t.state # "Unhealthy" => f < FailureThreshold
      /\ IsLatest(R, s) /\ IsLatest(Q, u)
      /\ t.state = Verdict(R, Q, s, u)
  BY Zenon DEF Tells
<1>2. R \in SUBSET (1..n) /\ Q \in SUBSET (1..n)
  BY RunsBounded
<1>3. /\ Trails(V, n + 1, p + 1)
      /\ p + 1 >= SuccessThreshold => RunsOf(V, n + 1, SuccessThreshold) = R \cup {n + 1}
      /\ ~(p + 1 >= SuccessThreshold) => RunsOf(V, n + 1, SuccessThreshold) = R
  <2>1. Trails(S, n, p) /\ SuccessThreshold \in Nat \ {0}
    BY <1>1, ThresholdType, Zenon
  <2>2. Trails(V, n + 1, p + 1)
    BY <2>1, StreakGoesOn, Zenon
  <2>3. p + 1 >= SuccessThreshold => RunsOf(V, n + 1, SuccessThreshold) = R \cup {n + 1}
    BY <2>1, RunReached, Zenon
  <2>4. ~(p + 1 >= SuccessThreshold) => RunsOf(V, n + 1, SuccessThreshold) = R
    BY <2>1, RunNotReached, Zenon
  <2> QED BY <2>2, <2>3, <2>4, Zenon
<1>4. Trails(U, n + 1, 0) /\ RunsOf(U, n + 1, FailureThreshold) = Q
  BY StreakEnds
<1>5. IsLatest(V, n + 1) /\ s \in 0..n /\ u \in 0..n
  BY <1>1, <1>2, LatestGrows, Zenon
<1>6. IsLatest(RunsOf(V, n + 1, SuccessThreshold), s2)
  <2>1. CASE p + 1 >= SuccessThreshold
    BY <1>1, <1>2, <1>3, <2>1, LatestGrows, Zenon
  <2>2. CASE ~(p + 1 >= SuccessThreshold)
    <3>1. RunsOf(V, n + 1, SuccessThreshold) = R
      BY <1>3, <2>2, Zenon
    <3> QED BY <1>1, <2>2, <3>1
  <2> QED BY <2>1, <2>2, Zenon
<1>7. /\ o.failures = 0
      /\ o.state = IF t.state # "Healthy" /\ p + 1 >= SuccessThreshold THEN "Healthy" ELSE t.state
      /\ o.state = "Healthy" => o.successes = 0
      /\ o.state # "Healthy" => o.successes = p + 1 /\ p + 1 < SuccessThreshold
  <2>1. CASE t.state = "Healthy"
    BY <2>1 DEF ObserveHealthy
  <2>2. CASE t.state # "Healthy"
    <3>1. p < SuccessThreshold /\ saturating_add(t.successes) = p + 1
      BY <1>1, <2>2 DEF saturating_add
    <3> QED BY <2>2, <3>1 DEF ObserveHealthy
  <2> QED BY <2>1, <2>2, Zenon
<1>8. o.state = Verdict(RunsOf(V, n + 1, SuccessThreshold), Q, s2, u)
  <2>1. CASE p + 1 >= SuccessThreshold
    <3>1. o.state = "Healthy"
      BY <1>7, <2>1, Zenon
    <3>2. RunsOf(V, n + 1, SuccessThreshold) # {} /\ s2 > u
      BY <1>3, <1>5, <2>1
    <3> QED BY <3>1, <3>2, Zenon DEF Verdict
  <2>2. CASE ~(p + 1 >= SuccessThreshold)
    <3>1. RunsOf(V, n + 1, SuccessThreshold) = R /\ s2 = s
      BY <1>3, <2>2, Zenon
    <3>2. o.state = t.state
      BY <1>7, <2>2, Zenon
    <3> QED BY <1>1, <3>1, <3>2, Zenon
  <2> QED BY <2>1, <2>2, Zenon
<1>9. /\ n + 1 <= (n + 1) - 0 /\ \A i \in ((n + 1) + 1)..((n + 1) - 0) : i \notin U
      /\ o.failures = Capped(0) /\ 0 < FailureThreshold /\ s2 \in Nat
  BY <1>7 DEF Capped
<1> HIDE DEF V, o, s2
<1>10. /\ o.state = "Healthy" => o.successes = 0
       /\ o.state # "Healthy" => p + 1 < SuccessThreshold /\ o.successes = p + 1
       /\ o.state # "Unhealthy" => 0 < FailureThreshold
  BY <1>7, <1>9, Zenon
<1>11. /\ IsLatest(RunsOf(U, n + 1, FailureThreshold), u)
       /\ o.state = Verdict(RunsOf(V, n + 1, SuccessThreshold),
                            RunsOf(U, n + 1, FailureThreshold), s2, u)
  BY <1>1, <1>4, <1>8, Zenon
<1>12. Tells(o, n + 1, V, U, p + 1, 0, n + 1, s2, u)
  BY <1>3, <1>4, <1>5, <1>6, <1>9, <1>10, <1>11, Zenon DEF Tells
<1> QED BY <1>9, <1>12, Zenon DEF V, o

(* A counted failure, appended.                                            *)
LEMMA FailureTells ==
    ASSUME NEW n \in Nat, NEW S \in SUBSET (1..n), NEW U \in SUBSET (1..n), NEW t \in Trackers,
           NEW p \in Nat, NEW f \in Nat, NEW l \in Nat, NEW s \in Nat, NEW u \in Nat,
           Tells(t, n, S, U, p, f, l, s, u), NEW b \in BOOLEAN, t.graceEnded \/ ~b
    PROVE  \E u2 \in Nat : Tells(ObserveUnhealthy(t, b), n + 1, S, U \cup {n + 1},
                                 0, f + 1, l, s, u2)
<1> DEFINE V == U \cup {n + 1}
           o == ObserveUnhealthy(t, b)
           R == RunsOf(S, n, SuccessThreshold)
           Q == RunsOf(U, n, FailureThreshold)
           u2 == IF f + 1 >= FailureThreshold THEN n + 1 ELSE u
<1>1. /\ Trails(S, n, p) /\ Trails(U, n, f) /\ IsLatest(S, l)
      /\ l <= n - f /\ \A i \in (l + 1)..(n - f) : i \notin U
      /\ t.failures = Capped(f)
      /\ t.state # "Unhealthy" => f < FailureThreshold
      /\ IsLatest(R, s) /\ IsLatest(Q, u)
      /\ t.state = Verdict(R, Q, s, u)
  BY Zenon DEF Tells
<1>2. R \in SUBSET (1..n) /\ Q \in SUBSET (1..n)
  BY RunsBounded
<1>3. /\ Trails(V, n + 1, f + 1)
      /\ f + 1 >= FailureThreshold => RunsOf(V, n + 1, FailureThreshold) = Q \cup {n + 1}
      /\ ~(f + 1 >= FailureThreshold) => RunsOf(V, n + 1, FailureThreshold) = Q
  <2>1. Trails(U, n, f) /\ FailureThreshold \in Nat \ {0}
    BY <1>1, ThresholdType, Zenon
  <2>2. Trails(V, n + 1, f + 1)
    BY <2>1, StreakGoesOn, Zenon
  <2>3. f + 1 >= FailureThreshold => RunsOf(V, n + 1, FailureThreshold) = Q \cup {n + 1}
    BY <2>1, RunReached, Zenon
  <2>4. ~(f + 1 >= FailureThreshold) => RunsOf(V, n + 1, FailureThreshold) = Q
    BY <2>1, RunNotReached, Zenon
  <2> QED BY <2>2, <2>3, <2>4, Zenon
<1>4. Trails(S, n + 1, 0) /\ RunsOf(S, n + 1, SuccessThreshold) = R
  BY StreakEnds
<1>5. s \in 0..n /\ u \in 0..n
  BY <1>1, <1>2, LatestGrows, Zenon
<1>6. IsLatest(RunsOf(V, n + 1, FailureThreshold), u2)
  <2>1. CASE f + 1 >= FailureThreshold
    BY <1>1, <1>2, <1>3, <2>1, LatestGrows, Zenon
  <2>2. CASE ~(f + 1 >= FailureThreshold)
    <3>1. RunsOf(V, n + 1, FailureThreshold) = Q
      BY <1>3, <2>2, Zenon
    <3> QED BY <1>1, <2>2, <3>1
  <2> QED BY <2>1, <2>2, Zenon
<1>7. /\ o.failures = Capped(f + 1)
      /\ o.state = IF f + 1 >= FailureThreshold THEN "Unhealthy" ELSE t.state
      /\ o.successes = 0
  <2>1. saturating_add(t.failures) = Capped(f + 1)
    BY <1>1 DEF saturating_add, Capped
  <2>2. saturating_add(t.failures) >= FailureThreshold <=> f + 1 >= FailureThreshold
    BY <2>1 DEF Capped
  <2>3. ~(~t.graceEnded /\ b)
    OBVIOUS
  <2> QED BY <2>1, <2>2, <2>3 DEF ObserveUnhealthy
<1>8. o.state = Verdict(R, RunsOf(V, n + 1, FailureThreshold), s, u2)
  <2>1. CASE f + 1 >= FailureThreshold
    <3>1. o.state = "Unhealthy"
      BY <1>7, <2>1, Zenon
    <3>2. RunsOf(V, n + 1, FailureThreshold) # {} /\ ~(s > u2)
      BY <1>3, <1>5, <2>1
    <3> QED BY <3>1, <3>2, Zenon DEF Verdict
  <2>2. CASE ~(f + 1 >= FailureThreshold)
    <3>1. RunsOf(V, n + 1, FailureThreshold) = Q /\ u2 = u
      BY <1>3, <2>2, Zenon
    <3>2. o.state = t.state
      BY <1>7, <2>2, Zenon
    <3> QED BY <1>1, <3>1, <3>2, Zenon
  <2> QED BY <2>1, <2>2, Zenon
<1>9. /\ l <= (n + 1) - (f + 1) /\ \A i \in (l + 1)..((n + 1) - (f + 1)) : i \notin V
      /\ 0 < SuccessThreshold /\ u2 \in Nat
      /\ o.state # "Unhealthy" => f + 1 < FailureThreshold
  BY <1>1, <1>7
<1> HIDE DEF V, o, u2
<1>10. /\ o.state = "Healthy" => o.successes = 0
       /\ o.state # "Healthy" => 0 < SuccessThreshold /\ o.successes = 0
       /\ IsLatest(RunsOf(S, n + 1, SuccessThreshold), s)
  BY <1>1, <1>4, <1>7, <1>9, Zenon
<1>11. o.state = Verdict(RunsOf(S, n + 1, SuccessThreshold),
                         RunsOf(V, n + 1, FailureThreshold), s, u2)
  BY <1>4, <1>8, Zenon
<1>13. o.failures = Capped(f + 1)
  BY <1>7, Zenon
<1>14. IsLatest(S, l)
  BY <1>1, Zenon
<1>12. Tells(o, n + 1, S, V, 0, f + 1, l, s, u2)
  BY <1>3, <1>4, <1>6, <1>9, <1>10, <1>11, <1>13, <1>14, Zenon DEF Tells
<1> QED BY <1>9, <1>12, Zenon DEF V, o

(* A failure excused by the start period, appended.                        *)
LEMMA ExcusedTells ==
    ASSUME NEW n \in Nat, NEW t \in Trackers, ~t.graceEnded,
           NEW p \in Nat, NEW f \in Nat, NEW l \in Nat, NEW s \in Nat, NEW u \in Nat,
           Tells(t, n, {}, {}, p, f, l, s, u)
    PROVE  Tells(ObserveUnhealthy(t, TRUE), n + 1, {}, {}, 0, 0, l, s, u)
<1> DEFINE o == ObserveUnhealthy(t, TRUE)
<1>1. /\ Trails({}, n, p) /\ Trails({}, n, f) /\ IsLatest({}, l)
      /\ t.failures = Capped(f)
      /\ t.state # "Unhealthy" => f < FailureThreshold
      /\ IsLatest(RunsOf({}, n, SuccessThreshold), s)
      /\ IsLatest(RunsOf({}, n, FailureThreshold), u)
      /\ t.state = Verdict(RunsOf({}, n, SuccessThreshold), RunsOf({}, n, FailureThreshold), s, u)
  BY Zenon DEF Tells
<1>2. f = 0 /\ l = 0
  BY <1>1 DEF Trails, IsLatest
<1>3. o.state = t.state /\ o.failures = t.failures /\ o.successes = 0
  BY DEF ObserveUnhealthy
<1>4. /\ Trails({}, n + 1, 0)
      /\ RunsOf({}, n + 1, SuccessThreshold) = RunsOf({}, n, SuccessThreshold)
      /\ RunsOf({}, n + 1, FailureThreshold) = RunsOf({}, n, FailureThreshold)
  BY StreakEnds
<1>5. l <= (n + 1) - 0 /\ (\A i \in (l + 1)..((n + 1) - 0) : i \notin {}) /\ 0 < SuccessThreshold
  BY <1>2
<1> HIDE DEF o
<1>6. /\ o.failures = Capped(0)
      /\ o.state = "Healthy" => o.successes = 0
      /\ o.state # "Healthy" => 0 < SuccessThreshold /\ o.successes = 0
      /\ o.state # "Unhealthy" => 0 < FailureThreshold
  BY <1>1, <1>2, <1>3
<1>7. /\ IsLatest(RunsOf({}, n + 1, SuccessThreshold), s)
      /\ IsLatest(RunsOf({}, n + 1, FailureThreshold), u)
      /\ o.state = Verdict(RunsOf({}, n + 1, SuccessThreshold),
                           RunsOf({}, n + 1, FailureThreshold), s, u)
  BY <1>1, <1>3, <1>4, Zenon
<1>8. IsLatest({}, l)
  BY <1>1, Zenon
<1>9. Tells(o, n + 1, {}, {}, 0, 0, l, s, u)
  BY <1>4, <1>5, <1>6, <1>7, <1>8, Zenon DEF Tells
<1> QED BY <1>9, Zenon DEF o

-----------------------------------------------------------------------------
Results == [healthy : BOOLEAN, inStartPeriod : BOOLEAN]

(* The positions of successes, and of failures that count.                 *)
SuccessesOf(h) == {i \in 1..Len(h) : h[i].healthy}
FailuresOf(h) == {i \in 1..Len(h) : /\ ~h[i].healthy
                                    /\ ~h[i].inStartPeriod \/ \E j \in 1..i : h[j].healthy}

(* The fields of the tracker tell what the history shows; the grace has    *)
(* ended with the first success.                                           *)
HealthInv ==
    /\ tracker \in Trackers /\ history \in Seq(Results)
    /\ tracker.graceEnded <=> SuccessesOf(history) # {}
    /\ \E p, f, l, s, u \in Nat :
          Tells(tracker, Len(history), SuccessesOf(history), FailuresOf(history), p, f, l, s, u)

(* A history with one more result.                                         *)
LEMMA AppendedResult ==
    ASSUME NEW h \in Seq(Results), NEW r \in Results
    PROVE  /\ Append(h, r) \in Seq(Results) /\ Len(h) \in Nat
           /\ Len(Append(h, r)) = Len(h) + 1
           /\ \A i \in 1..Len(h) : Append(h, r)[i] = h[i]
           /\ Append(h, r)[Len(h) + 1] = r
OBVIOUS

(* The positions of a history with one more result.                        *)
LEMMA OneMore ==
    ASSUME NEW n \in Nat
    PROVE  /\ \A i \in 1..(n + 1) : i \in 1..n \/ i = n + 1
           /\ \A i \in 1..n : i \in 1..(n + 1) /\ i # n + 1 /\ \A j \in 1..i : j \in 1..n
           /\ n + 1 \in 1..(n + 1)
OBVIOUS

(* A success is no failure, a failure no success, and one result changes   *)
(* nothing about those before it.                                          *)
LEMMA SuccessAppended ==
    ASSUME NEW h \in Seq(Results), NEW r \in Results, r.healthy
    PROVE  /\ SuccessesOf(Append(h, r)) = SuccessesOf(h) \cup {Len(h) + 1}
           /\ FailuresOf(Append(h, r)) = FailuresOf(h)
<1> DEFINE g == Append(h, r)
           n == Len(h)
<1>1. /\ n \in Nat /\ Len(g) = n + 1 /\ g[n + 1] = r
      /\ \A i \in 1..n : g[i] = h[i]
  BY AppendedResult, Zenon
<1>2. /\ \A i \in 1..(n + 1) : i \in 1..n \/ i = n + 1
      /\ \A i \in 1..n : i \in 1..(n + 1) /\ i # n + 1 /\ \A j \in 1..i : j \in 1..n
      /\ n + 1 \in 1..(n + 1)
  BY <1>1, OneMore, Zenon
<1> HIDE DEF g, n
<1>3. SuccessesOf(g) = {i \in 1..n : h[i].healthy} \cup {n + 1}
  BY <1>1, <1>2, Zenon DEF SuccessesOf
<1> DEFINE U == {i \in 1..n : /\ ~h[i].healthy
                              /\ ~h[i].inStartPeriod \/ \E j \in 1..i : h[j].healthy}
<1>4. \A i \in 1..n : i \in FailuresOf(g) <=> i \in U
  BY <1>1, <1>2, Zenon DEF FailuresOf
<1>5. n + 1 \notin FailuresOf(g) /\ FailuresOf(g) \subseteq 1..(n + 1) /\ U \subseteq 1..n
  BY <1>1, Zenon DEF FailuresOf
<1> HIDE DEF U
<1>6. FailuresOf(g) = U
  BY <1>2, <1>4, <1>5, Zenon
<1> QED BY <1>3, <1>6, Zenon DEF SuccessesOf, FailuresOf, U, g, n

(* What an appended failure adds to the positions.                         *)
LEMMA FailureAppended ==
    ASSUME NEW h \in Seq(Results), NEW r \in Results, ~r.healthy
    PROVE  /\ SuccessesOf(Append(h, r)) = SuccessesOf(h)
           /\ ~r.inStartPeriod \/ SuccessesOf(h) # {} =>
                 FailuresOf(Append(h, r)) = FailuresOf(h) \cup {Len(h) + 1}
           /\ r.inStartPeriod /\ SuccessesOf(h) = {} =>
                 FailuresOf(Append(h, r)) = FailuresOf(h)
<1> DEFINE g == Append(h, r)
           n == Len(h)
<1>1. /\ n \in Nat /\ Len(g) = n + 1 /\ g[n + 1] = r
      /\ \A i \in 1..n : g[i] = h[i]
  BY AppendedResult, Zenon
<1>2. /\ \A i \in 1..(n + 1) : i \in 1..n \/ i = n + 1
      /\ \A i \in 1..n : i \in 1..(n + 1) /\ i # n + 1 /\ \A j \in 1..i : j \in 1..n
      /\ n + 1 \in 1..(n + 1)
  BY <1>1, OneMore, Zenon
<1> DEFINE S == {i \in 1..n : h[i].healthy}
           U == {i \in 1..n : /\ ~h[i].healthy
                              /\ ~h[i].inStartPeriod \/ \E j \in 1..i : h[j].healthy}
<1> HIDE DEF g, n
<1>3. SuccessesOf(g) = S
  BY <1>1, <1>2, Zenon DEF SuccessesOf
<1>4. \A i \in 1..n : i \in FailuresOf(g) <=> i \in U
  BY <1>1, <1>2, Zenon DEF FailuresOf
<1>5. n + 1 \in FailuresOf(g) <=> ~r.inStartPeriod \/ S # {}
  BY <1>1, <1>2, Zenon DEF FailuresOf
<1>6. FailuresOf(g) \subseteq 1..(n + 1) /\ U \subseteq 1..n
  BY <1>1, Zenon DEF FailuresOf
<1> HIDE DEF U
<1>7. ~r.inStartPeriod \/ S # {} => FailuresOf(g) = U \cup {n + 1}
  BY <1>2, <1>4, <1>5, <1>6, Zenon
<1>8. r.inStartPeriod /\ S = {} => FailuresOf(g) = U
  BY <1>2, <1>4, <1>5, <1>6, Zenon
<1>9. S = SuccessesOf(h) /\ U = FailuresOf(h)
  BY Zenon DEF SuccessesOf, FailuresOf, U, n
<1> QED BY <1>3, <1>7, <1>8, <1>9, Zenon DEF g, n

(* Positions lie within the history.                                       *)
LEMMA PositionsBounded ==
    ASSUME NEW h
    PROVE  SuccessesOf(h) \in SUBSET (1..Len(h)) /\ FailuresOf(h) \in SUBSET (1..Len(h))
  BY Zenon DEF SuccessesOf, FailuresOf

(* observe keeps the type, and a success ends the grace for good.          *)
LEMMA ObserveType ==
    ASSUME NEW t \in Trackers, NEW healthy \in BOOLEAN, NEW inStartPeriod \in BOOLEAN
    PROVE  /\ Observe(t, healthy, inStartPeriod) \in Trackers
           /\ Observe(t, healthy, inStartPeriod).graceEnded <=> t.graceEnded \/ healthy
<1>1. \A k \in 0..CounterMax : saturating_add(k) \in 0..CounterMax
  BY DEF saturating_add
<1>2. /\ t.state \in TrackerStates /\ t.failures \in 0..CounterMax
      /\ t.successes \in 0..CounterMax /\ t.graceEnded \in BOOLEAN /\ 0 \in 0..CounterMax
  BY DEF Trackers
<1>3. /\ saturating_add(t.successes) \in 0..CounterMax
      /\ saturating_add(t.failures) \in 0..CounterMax
  BY <1>1, <1>2, Zenon
<1>4. CASE healthy
  BY <1>2, <1>3, <1>4, Zenon DEF Observe, ObserveHealthy, Trackers, TrackerStates
<1>5. CASE ~healthy
  BY <1>2, <1>3, <1>5, Zenon DEF Observe, ObserveUnhealthy, Trackers, TrackerStates
<1> QED BY <1>4, <1>5, Zenon

(* The new tracker tells of no result.                                     *)
LEMMA HealthStarts == HealthInit => HealthInv
<1> SUFFICES ASSUME HealthInit PROVE HealthInv
  BY Zenon
<1>1. tracker = NewTracker /\ history = <<>>
  BY Zenon DEF HealthInit
<1>2. NewTracker \in Trackers /\ <<>> \in Seq(Results) /\ Len(<<>>) = 0
  BY DEF NewTracker, Trackers, TrackerStates
<1>3. SuccessesOf(<<>>) = {} /\ FailuresOf(<<>>) = {}
  BY DEF SuccessesOf, FailuresOf
<1>4. /\ RunsOf({}, 0, SuccessThreshold) = {} /\ RunsOf({}, 0, FailureThreshold) = {}
      /\ Trails({}, 0, 0) /\ IsLatest({}, 0)
  BY DEF RunsOf, Trails, IsLatest
<1>5. Tells(NewTracker, 0, {}, {}, 0, 0, 0, 0, 0)
  BY <1>4 DEF Tells, NewTracker, Capped, Verdict
<1>6. ~NewTracker.graceEnded /\ 0 \in Nat
  BY DEF NewTracker
<1> QED BY <1>1, <1>2, <1>3, <1>5, <1>6, Zenon DEF HealthInv

(* The invariant is inductive.                                             *)
LEMMA HealthStep == HealthInv /\ [HealthNext]_healthVars => HealthInv'
<1> SUFFICES ASSUME HealthInv, [HealthNext]_healthVars PROVE HealthInv'
  BY Zenon
<1>1. CASE UNCHANGED healthVars
  BY <1>1, Zenon DEF healthVars, HealthInv
<1>2. CASE HealthNext
  <2>1. PICK healthy \in BOOLEAN, inStartPeriod \in BOOLEAN : FeedResult(healthy, inStartPeriod)
    BY <1>2, Zenon DEF HealthNext
  <2> DEFINE r == [healthy |-> healthy, inStartPeriod |-> inStartPeriod]
             n == Len(history)
             S == SuccessesOf(history)
             U == FailuresOf(history)
             o == Observe(tracker, healthy, inStartPeriod)
  <2>2. /\ tracker' = o /\ history' = Append(history, r)
        /\ inStartPeriod => \A i \in 1..n : history[i].inStartPeriod
    BY <2>1, Zenon DEF FeedResult
  <2>3. r \in Results /\ (r.healthy <=> healthy) /\ (r.inStartPeriod <=> inStartPeriod)
    BY Zenon DEF Results
  <2>4. /\ tracker \in Trackers /\ history \in Seq(Results) /\ (tracker.graceEnded <=> S # {})
    BY Zenon DEF HealthInv
  <2>5. PICK p \in Nat, f \in Nat, l \in Nat, s \in Nat, u \in Nat :
           Tells(tracker, n, S, U, p, f, l, s, u)
    BY Zenon DEF HealthInv
  <2>6. /\ n \in Nat /\ Len(history') = n + 1 /\ history' \in Seq(Results)
        /\ S \in SUBSET (1..n) /\ U \in SUBSET (1..n)
    BY <2>2, <2>3, <2>4, AppendedResult, PositionsBounded, Zenon
  <2>7. o \in Trackers /\ (o.graceEnded <=> tracker.graceEnded \/ healthy)
    BY <2>1, <2>4, ObserveType, Zenon
  <2> HIDE DEF r, n, S, U, o
  <2> SUFFICES /\ tracker'.graceEnded <=> SuccessesOf(history') # {}
               /\ \E p2, f2, l2, s2, u2 \in Nat :
                     Tells(tracker', Len(history'), SuccessesOf(history'), FailuresOf(history'),
                           p2, f2, l2, s2, u2)
    BY <2>2, <2>6, <2>7, Zenon DEF HealthInv
  <2>8. n + 1 \in Nat /\ p + 1 \in Nat /\ f + 1 \in Nat /\ 0 \in Nat
    BY <2>6
  <2>9. CASE healthy
    <3>1. SuccessesOf(history') = S \cup {n + 1} /\ FailuresOf(history') = U
      BY <2>2, <2>3, <2>4, <2>9, SuccessAppended, Zenon DEF S, U, n
    <3>2. o = ObserveHealthy(tracker)
      BY <2>9, Zenon DEF o, Observe
    <3>3. PICK s2 \in Nat : Tells(o, n + 1, S \cup {n + 1}, U, p + 1, 0, n + 1, s2, u)
      BY <2>4, <2>5, <2>6, <3>2, SuccessTells, Zenon
    <3>4. tracker'.graceEnded /\ SuccessesOf(history') # {}
      BY <2>2, <2>7, <2>9, <3>1, Zenon
    <3>5. Tells(tracker', Len(history'), SuccessesOf(history'), FailuresOf(history'),
                p + 1, 0, n + 1, s2, u)
      BY <2>2, <2>6, <3>1, <3>3, Zenon
    <3> QED BY <2>8, <3>4, <3>5, Zenon
  <2>10. ASSUME ~healthy
         PROVE  /\ SuccessesOf(history') = S /\ o = ObserveUnhealthy(tracker, inStartPeriod)
                /\ tracker'.graceEnded <=> tracker.graceEnded
                /\ ~inStartPeriod \/ S # {} => FailuresOf(history') = U \cup {n + 1}
                /\ inStartPeriod /\ S = {} => FailuresOf(history') = U
    <3>1. /\ SuccessesOf(history') = S
          /\ ~inStartPeriod \/ S # {} => FailuresOf(history') = U \cup {n + 1}
          /\ inStartPeriod /\ S = {} => FailuresOf(history') = U
      BY <2>2, <2>3, <2>4, <2>10, FailureAppended, Zenon DEF S, U, n
    <3>2. o = ObserveUnhealthy(tracker, inStartPeriod)
      BY <2>10, Zenon DEF o, Observe
    <3>3. tracker'.graceEnded <=> tracker.graceEnded
      BY <2>2, <2>7, <2>10, Zenon
    <3> QED BY <3>1, <3>2, <3>3, Zenon
  <2>11. CASE ~healthy /\ (~inStartPeriod \/ S # {})
    <3>1. FailuresOf(history') = U \cup {n + 1} /\ (tracker.graceEnded \/ ~inStartPeriod)
      BY <2>4, <2>10, <2>11, Zenon
    <3>2. PICK u2 \in Nat : Tells(o, n + 1, S, U \cup {n + 1}, 0, f + 1, l, s, u2)
      <4>1. \E u2 \in Nat : Tells(ObserveUnhealthy(tracker, inStartPeriod), n + 1, S,
                                  U \cup {n + 1}, 0, f + 1, l, s, u2)
        BY <2>1, <2>4, <2>5, <2>6, <3>1, FailureTells, Zenon
      <4> QED BY <2>10, <2>11, <4>1, Zenon
    <3>3. Tells(tracker', Len(history'), SuccessesOf(history'), FailuresOf(history'),
                0, f + 1, l, s, u2)
      BY <2>2, <2>6, <2>10, <2>11, <3>1, <3>2, Zenon
    <3>4. tracker'.graceEnded <=> SuccessesOf(history') # {}
      BY <2>4, <2>10, <2>11, Zenon
    <3> QED BY <2>8, <3>3, <3>4, Zenon
  <2>12. CASE ~healthy /\ inStartPeriod /\ S = {}
    <3>1. U = {}
      <4>1. \A i \in 1..n : history[i].inStartPeriod /\ \A j \in 1..i : j \in 1..n
        BY <2>2, <2>6, <2>12, OneMore, Zenon
      <4> QED BY <2>12, <4>1, Zenon DEF S, U, n, SuccessesOf, FailuresOf
    <3>2. inStartPeriod = TRUE /\ ~tracker.graceEnded
      BY <2>1, <2>4, <2>12, Zenon
    <3>3. Tells(o, n + 1, {}, {}, 0, 0, l, s, u)
      <4>1. Tells(tracker, n, {}, {}, p, f, l, s, u)
        BY <2>5, <2>12, <3>1, Zenon
      <4>2. Tells(ObserveUnhealthy(tracker, TRUE), n + 1, {}, {}, 0, 0, l, s, u)
        BY <2>4, <2>6, <3>2, <4>1, ExcusedTells, Zenon
      <4> QED BY <2>10, <2>12, <3>2, <4>2, Zenon
    <3>4. SuccessesOf(history') = {} /\ FailuresOf(history') = {}
      BY <2>10, <2>12, <3>1, Zenon
    <3>5. Tells(tracker', Len(history'), SuccessesOf(history'), FailuresOf(history'),
                0, 0, l, s, u)
      BY <2>2, <2>6, <3>3, <3>4, Zenon
    <3>6. tracker'.graceEnded <=> SuccessesOf(history') # {}
      BY <2>10, <2>12, <3>2, <3>4, Zenon
    <3> QED BY <2>8, <3>5, <3>6, Zenon
  <2> QED BY <2>9, <2>11, <2>12, Zenon
<1> QED BY <1>1, <1>2, Zenon

(* What the fields tell is what the reference says.                        *)
LEMMA HealthShows == HealthInv => TrackerFollowsHistory
<1> SUFFICES ASSUME HealthInv PROVE TrackerFollowsHistory
  BY Zenon
<1> DEFINE n == Len(history)
           S == SuccessesOf(history)
           U == FailuresOf(history)
           R == RunsOf(S, n, SuccessThreshold)
           Q == RunsOf(U, n, FailureThreshold)
<1>1. PICK p \in Nat, f \in Nat, l \in Nat, s \in Nat, u \in Nat :
         Tells(tracker, n, S, U, p, f, l, s, u)
  BY Zenon DEF HealthInv
<1>2. n \in Nat
  BY DEF HealthInv
<1>3. S \in SUBSET (1..n) /\ U \in SUBSET (1..n)
  BY PositionsBounded, Zenon
<1>4. /\ \A i \in 1..n : i \in S <=> history[i].healthy
      /\ \A i \in 1..n : i \in U <=> Counted(i)
  BY Zenon DEF SuccessesOf, FailuresOf, Counted
<1> HIDE DEF n, S, U
<1>5. /\ \A i \in SuccessThreshold..n : \A j \in (i - SuccessThreshold + 1)..i : j \in 1..n
      /\ \A i \in FailureThreshold..n : \A j \in (i - FailureThreshold + 1)..i : j \in 1..n
  BY <1>2
<1>6. SuccessRuns = R
  BY <1>4, <1>5, Zenon DEF SuccessRuns, RunsOf, n
<1>7. FailureRuns = Q
  BY <1>4, <1>5, Zenon DEF FailureRuns, RunsOf, n
<1>8. R \in SUBSET Nat /\ Q \in SUBSET Nat /\ S \in SUBSET Nat
  BY <1>2, <1>3 DEF RunsOf
<1> HIDE DEF R, Q
<1>9. /\ Trails(U, n, f) /\ IsLatest(S, l) /\ IsLatest(R, s) /\ IsLatest(Q, u)
      /\ l <= n - f /\ \A i \in (l + 1)..(n - f) : i \notin U
      /\ tracker.failures = Capped(f) /\ tracker.state = Verdict(R, Q, s, u)
  BY <1>1, Zenon DEF Tells, R, Q
<1>10. LatestOf(R) = s /\ LatestOf(Q) = u /\ LatestOf(S) = l
  BY <1>8, <1>9, LatestIs, Zenon
<1>11. StateIsHysteresis
  BY <1>6, <1>7, <1>9, <1>10, Zenon DEF StateIsHysteresis, Verdict
<1>12. FailuresAreTrailing
  <2>1. S = {i \in 1..n : history[i].healthy}
    BY Zenon DEF S, n, SuccessesOf
  <2>2. f \in 0..n /\ \A i \in ((n - f) + 1)..n : i \in U
    BY <1>9, <1>2 DEF Trails
  <2>3. {i \in (l + 1)..n : Counted(i)} = ((n - f) + 1)..n
    <3>1. \A i \in (l + 1)..n : i \in 1..n /\ (i \in (l + 1)..(n - f) \/ i \in ((n - f) + 1)..n)
      BY <1>2, <2>2
    <3>2. \A i \in ((n - f) + 1)..n : i \in (l + 1)..n
      BY <1>2, <1>9, <2>2
    <3> QED BY <1>4, <1>9, <2>2, <3>1, <3>2, Zenon
  <2>4. Cardinality(((n - f) + 1)..n) = f
    <3>1. (n - f) + 1 \in Int /\ n \in Int
      BY <1>2
    <3>2. Cardinality(((n - f) + 1)..n) = IF (n - f) + 1 > n THEN 0 ELSE n - ((n - f) + 1) + 1
      BY <3>1, FS_Interval, Zenon
    <3> QED BY <1>2, <2>2, <3>2
  <2>5. Min({CounterMax, f}) = Capped(f)
    <3>1. CounterMax \in Nat
      BY Zenon
    <3> QED BY <3>1, MinOfTwo, Zenon DEF Capped
  <2> QED BY <1>9, <1>10, <2>1, <2>3, <2>4, <2>5, Zenon DEF FailuresAreTrailing, n
<1> QED BY <1>11, <1>12, Zenon DEF TrackerFollowsHistory

(* HealthTracker::observe (health/mod.rs), for any thresholds, any width   *)
(* of the counters and any number of results: the state and the failure    *)
(* count that clients see are what the whole history of results says.      *)
THEOREM TrackerTellsHistory == HealthInit /\ [][HealthNext]_healthVars => []TrackerFollowsHistory
  BY HealthStarts, HealthStep, HealthShows, PTL

-----------------------------------------------------------------------------
(* The log directory for any budget of files and any number of frames,     *)
(* runs and failing disk operations: how many files are left.              *)

USE LimitAssumption

(* The files of S that are newer than s.                                   *)
Newer(S, s) == {n \in S : n > s}

(* A file has fewer newer ones than an older file has.                     *)
LEMMA NewerCount ==
    ASSUME NEW S \in SUBSET Nat, IsFiniteSet(S), NEW s \in S, NEW t \in S,
           Cardinality(Newer(S, s)) = Cardinality(Newer(S, t))
    PROVE  s = t
<1>1. IsFiniteSet(Newer(S, s)) /\ IsFiniteSet(Newer(S, t))
  BY FS_Subset DEF Newer
<1>2. Newer(S, s) \subseteq Newer(S, t) \/ Newer(S, t) \subseteq Newer(S, s)
  <2>1. s \in Nat /\ t \in Nat /\ (s <= t \/ t <= s)
    OBVIOUS
  <2>2. \A n \in S : n \in Nat
    OBVIOUS
  <2>3. \A a, b, n \in Nat : a <= b /\ n > b => n > a
    OBVIOUS
  <2>4. s <= t => Newer(S, t) \subseteq Newer(S, s)
    BY <2>1, <2>2, <2>3, Zenon DEF Newer
  <2>5. t <= s => Newer(S, s) \subseteq Newer(S, t)
    BY <2>1, <2>2, <2>3, Zenon DEF Newer
  <2> QED BY <2>1, <2>4, <2>5, Zenon
<1>3. Newer(S, s) = Newer(S, t)
  BY <1>1, <1>2, FS_Subset
<1>4. ~(s < t) /\ ~(t < s)
  BY <1>3 DEF Newer
<1> QED BY <1>4

(* prune_targets leaves no more files than it is told to keep.             *)
LEMMA PruneCounts ==
    ASSUME NEW S \in SUBSET Nat, IsFiniteSet(S), NEW keep \in Nat
    PROVE  Cardinality(S \ prune_targets(S, keep)) <= keep
<1> DEFINE K == S \ prune_targets(S, keep)
           f == [s \in K |-> Cardinality(Newer(S, s))]
<1>1. \A s \in K : s \in S /\ Cardinality(Newer(S, s)) \in Nat
                   /\ ~(Cardinality(Newer(S, s)) >= keep)
  <2> TAKE s \in K
  <2>1. IsFiniteSet(Newer(S, s))
    BY FS_Subset DEF Newer
  <2>2. Cardinality(Newer(S, s)) \in Nat
    BY <2>1, FS_CardinalityType
  <2>3. ~(Cardinality(Newer(S, s)) >= keep)
    BY Zenon DEF prune_targets, Newer
  <2> QED BY <2>2, <2>3, Zenon
<1>2. f \in [K -> 0..(keep - 1)]
  <2>1. \A s \in K : Cardinality(Newer(S, s)) \in 0..(keep - 1)
    BY <1>1
  <2> QED BY <2>1, Zenon
<1>3. \A s, t \in K : f[s] = f[t] => s = t
  BY <1>1, NewerCount, Zenon
<1>4. f \in Injection(K, 0..(keep - 1))
  BY <1>2, <1>3, Zenon DEF Injection, IsInjective
<1>5. IsFiniteSet(0..(keep - 1)) /\ Cardinality(0..(keep - 1)) = keep
  BY FS_Interval
<1>6. Cardinality(K) <= Cardinality(0..(keep - 1))
  <2> HIDE DEF f, K
  <2> QED BY <1>4, <1>5, FS_Injection, Zenon
<1> QED BY <1>5, <1>6, Zenon

(* A finite directory that is not empty has a newest file.                 *)
LEMMA NewestExists ==
    ASSUME NEW S \in SUBSET Nat, IsFiniteSet(S), S # {}
    PROVE  Max(S) \in S /\ \A n \in S : n <= Max(S)
<1> DEFINE k == Cardinality(S)
           f == [s \in S |-> Cardinality(Newer(S, s))]
<1>1. k \in Nat \ {0}
  BY FS_CardinalityType, FS_EmptySet
<1>2. \A s \in S : Cardinality(Newer(S, s)) \in 0..(k - 1)
  <2> TAKE s \in S
  <2>1. Newer(S, s) \in SUBSET S /\ s \notin Newer(S, s)
    BY DEF Newer
  <2>2. IsFiniteSet(Newer(S, s)) /\ Cardinality(Newer(S, s)) <= k /\ Cardinality(Newer(S, s)) # k
    BY <2>1, FS_Subset
  <2> QED BY <2>2, <1>1, FS_CardinalityType
<1>3. f \in [S -> 0..(k - 1)]
  BY <1>2, Zenon
<1>4. \A s, t \in S : f[s] = f[t] => s = t
  BY NewerCount, Zenon
<1>5. f \in Injection(S, 0..(k - 1))
  BY <1>3, <1>4, Zenon DEF Injection, IsInjective
<1>6. IsFiniteSet(0..(k - 1)) /\ Cardinality(0..(k - 1)) = k
  BY <1>1, FS_Interval
<1>7. f \in Surjection(S, 0..(k - 1))
  <2> HIDE DEF f
  <2> QED BY <1>5, <1>6, FS_Injection, Zenon
<1>8. 0 \in 0..(k - 1)
  BY <1>1
<1>9. PICK s \in S : f[s] = 0
  <2> HIDE DEF f
  <2> QED BY <1>7, <1>8, Zenon DEF Surjection
<1>10. Newer(S, s) = {}
  <2>1. IsFiniteSet(Newer(S, s)) /\ Cardinality(Newer(S, s)) = 0
    BY <1>9, FS_Subset DEF Newer
  <2> QED BY <2>1, FS_EmptySet, Zenon
<1>11. \A n \in S : s >= n
  BY <1>10 DEF Newer
<1>12. Max(S) \in S /\ \A n \in S : Max(S) >= n
  BY <1>9, <1>11, Zenon DEF Max
<1> QED BY <1>12

-----------------------------------------------------------------------------
SinkFields == {"pc", "arm", "batch", "buffer", "last", "written", "seq"}

(* The sink writes to the newest file, or has written to it last.          *)
ArchiveInv ==
    /\ maxFiles \in Nat \ {0} /\ sinkFaults \in Nat
    /\ DOMAIN sink = SinkFields /\ sink.seq \in Nat
    /\ DOMAIN dir \in SUBSET Nat /\ \A s \in DOMAIN dir : s <= sink.seq

(* The directory under the invariant.                                      *)
LEMMA FilesFinite ==
    ASSUME ArchiveInv
    PROVE  IsFiniteSet(DOMAIN dir)
BY FS_BoundedSetOfNaturals, Zenon DEF ArchiveInv

(* What a prune leaves, and that it leaves too much only at a cost.        *)
LEMMA PruneEffect ==
    ASSUME NEW d, NEW keep, NEW protect, NEW cost \in Nat,
           NEW p \in prune_dir(d, keep, protect, cost)
    PROVE  /\ DOMAIN p[1] \subseteq DOMAIN d
           /\ p[2] \in Nat /\ p[2] >= cost
           /\ p[2] = cost => DOMAIN p[1] = DOMAIN d \ (prune_targets(DOMAIN d, keep) \ protect)
<1> DEFINE targets == prune_targets(DOMAIN d, keep) \ protect
<1>1. \/ p = <<Without(d, targets), cost>>
      \/ \E gone \in SUBSET targets : p = <<Without(d, gone), cost + 1>>
  BY Zenon DEF prune_dir
<1>2. \A gone : DOMAIN Without(d, gone) = DOMAIN d \ gone
  BY Zenon DEF Without
<1> HIDE DEF targets
<1>3. CASE p = <<Without(d, targets), cost>>
  <2>1. p[1] = Without(d, targets) /\ p[2] = cost /\ p[2] >= cost
    BY <1>3
  <2> QED BY <1>2, <2>1, Zenon DEF targets
<1>4. CASE \E gone \in SUBSET targets : p = <<Without(d, gone), cost + 1>>
  <2>1. PICK gone \in SUBSET targets : p = <<Without(d, gone), cost + 1>>
    BY <1>4, Zenon
  <2>2. p[1] = Without(d, gone) /\ p[2] \in Nat /\ p[2] > cost
    BY <2>1
  <2>3. DOMAIN p[1] \subseteq DOMAIN d
    BY <1>2, <2>2, Zenon
  <2> QED BY <2>2, <2>3
<1> QED BY <1>1, <1>3, <1>4, Zenon DEF targets

(* A flush changes the content of files only.                              *)
LEMMA FlushEffect ==
    ASSUME NEW w, NEW f \in flush_pending(w)
    PROVE  DOMAIN f.d = DOMAIN dir /\ f.cost \in Nat
<1> DEFINE file(s) == [dir EXCEPT ![w.seq] = @ \o s]
           counted == w.written + Bytes(w.buffer)
           Cut == IF Faulty(0) THEN Cuts(w.buffer) ELSE {}
           Nothing == {[d |-> dir, written |-> w.written, cost |-> 0]}
           Everything == {[d |-> file(w.buffer), written |-> counted, cost |-> 0]}
           Partly == {[d |-> file(s), written |-> n, cost |-> 1] :
                       s \in Cut, n \in {w.written, counted}}
<1>1. f \in IF w.buffer = <<>> THEN Nothing ELSE Everything \cup Partly
  <2>1. flush_pending(w) = IF w.buffer = <<>> THEN Nothing ELSE Everything \cup Partly
    BY SMT DEF flush_pending
  <2> HIDE DEF Nothing, Everything, Partly
  <2> QED BY <2>1, Zenon
<1>2. \A s : DOMAIN file(s) = DOMAIN dir
  OBVIOUS
<1> HIDE DEF file, counted, Cut
<1>3. f \in Nothing => DOMAIN f.d = DOMAIN dir /\ f.cost = 0
  OBVIOUS
<1>4. f \in Everything => DOMAIN f.d = DOMAIN dir /\ f.cost = 0
  BY <1>2
<1>5. f \in Partly => DOMAIN f.d = DOMAIN dir /\ f.cost = 1
  BY <1>2
<1> HIDE DEF Nothing, Everything, Partly
<1>6. f \in Nothing \/ f \in Everything \/ f \in Partly
  BY <1>1
<1> QED BY <1>3, <1>4, <1>5, <1>6

(* A rotation that gets its new file leaves at most max_files of them,     *)
(* unless a delete failed; one that does not goes on with the old file.    *)
LEMMA RotateEffect ==
    ASSUME ArchiveInv, NEW f, DOMAIN f.d = DOMAIN dir, f.cost \in Nat,
           NEW r \in rotate(f, sink.seq)
    PROVE  /\ r.cost \in Nat
           /\ \/ r.seq = sink.seq /\ DOMAIN r.d \subseteq DOMAIN dir
              \/ /\ r.seq = sink.seq + 1 /\ DOMAIN r.d \subseteq DOMAIN dir \cup {sink.seq + 1}
                 /\ r.cost = 0 => Cardinality(DOMAIN r.d) <= maxFiles
<1>1. PICK p \in prune_dir(f.d, maxFiles - 1, {sink.seq}, f.cost) :
        \/ \E q \in TrailingPrune(create(p[1], sink.seq + 1), sink.seq + 1, p[2]) :
              r = [d |-> q[1], written |-> 0, seq |-> sink.seq + 1, cost |-> q[2]]
        \/ r = [d |-> p[1], written |-> f.written, seq |-> sink.seq, cost |-> p[2] + 1]
  BY Zenon DEF rotate
<1>2. DOMAIN p[1] \subseteq DOMAIN dir /\ p[2] \in Nat
  BY PruneEffect, Zenon
<1>3. CASE r = [d |-> p[1], written |-> f.written, seq |-> sink.seq, cost |-> p[2] + 1]
  BY <1>2, <1>3
<1>4. CASE \E q \in TrailingPrune(create(p[1], sink.seq + 1), sink.seq + 1, p[2]) :
              r = [d |-> q[1], written |-> 0, seq |-> sink.seq + 1, cost |-> q[2]]
  <2> DEFINE c == create(p[1], sink.seq + 1)
             S == DOMAIN p[1] \cup {sink.seq + 1}
  <2>1. PICK q \in prune_dir(c, maxFiles, {sink.seq + 1}, p[2]) :
               r = [d |-> q[1], written |-> 0, seq |-> sink.seq + 1, cost |-> q[2]]
    BY <1>4, Zenon DEF TrailingPrune
  <2>2. r.d = q[1] /\ r.seq = sink.seq + 1 /\ r.cost = q[2]
    BY <2>1
  <2>3. DOMAIN c = S
    BY Zenon DEF create
  <2> HIDE DEF c
  <2>4. /\ DOMAIN q[1] \subseteq S /\ q[2] \in Nat /\ q[2] >= p[2]
        /\ q[2] = p[2] => DOMAIN q[1] = S \ (prune_targets(S, maxFiles) \ {sink.seq + 1})
    <3>1. /\ DOMAIN q[1] \subseteq DOMAIN c /\ q[2] \in Nat /\ q[2] >= p[2]
          /\ q[2] = p[2] =>
               DOMAIN q[1] = DOMAIN c \ (prune_targets(DOMAIN c, maxFiles) \ {sink.seq + 1})
      BY <1>2, PruneEffect
    <3> HIDE DEF S
    <3> QED BY <2>3, <3>1, Zenon
  <2>5. S \in SUBSET Nat /\ IsFiniteSet(S) /\ \A s \in S : s <= sink.seq + 1
    <3>1. S \in SUBSET Nat /\ sink.seq + 1 \in Nat /\ \A s \in S : s <= sink.seq + 1
      BY <1>2 DEF ArchiveInv
    <3> QED BY <3>1, FS_BoundedSetOfNaturals, Zenon
  <2>6. sink.seq + 1 \notin prune_targets(S, maxFiles)
    <3>1. {n \in S : n > sink.seq + 1} = {}
      BY <2>5 DEF ArchiveInv
    <3>2. Cardinality({n \in S : n > sink.seq + 1}) = 0
      BY <3>1, FS_EmptySet, Zenon
    <3>3. ~(0 >= maxFiles)
      BY DEF ArchiveInv
    <3> HIDE DEF S
    <3> QED BY <3>2, <3>3, Zenon DEF prune_targets
  <2>7. Cardinality(S \ prune_targets(S, maxFiles)) <= maxFiles
    <3>1. maxFiles \in Nat
      BY DEF ArchiveInv
    <3> QED BY <2>5, <3>1, PruneCounts, Zenon
  <2>8. r.cost = 0 => q[2] = p[2]
    BY <1>2, <2>2, <2>4
  <2>9. prune_targets(S, maxFiles) \ {sink.seq + 1} = prune_targets(S, maxFiles)
    BY <2>6, Zenon
  <2>10. r.cost = 0 => Cardinality(DOMAIN r.d) <= maxFiles
    BY <2>2, <2>4, <2>7, <2>8, <2>9, Zenon
  <2>11. DOMAIN r.d \subseteq DOMAIN dir \cup {sink.seq + 1}
    BY <1>2, <2>2, <2>4, Zenon
  <2> QED BY <2>2, <2>4, <2>10, <2>11, Zenon
<1> QED BY <1>1, <1>3, <1>4, Zenon

(* What a step does to the files: it keeps the sink's file and creates     *)
(* none, or goes on to a newest one within the budget.                     *)
FilesMove ==
    /\ maxFiles' = maxFiles /\ sinkFaults' \in Nat
    /\ DOMAIN sink' = SinkFields
    /\ \/ sink'.seq = sink.seq /\ DOMAIN dir' \subseteq DOMAIN dir
       \/ /\ sink'.seq \in Nat /\ DOMAIN dir' \in SUBSET Nat
          /\ \A s \in DOMAIN dir' : s <= sink'.seq
          /\ sinkFaults' = sinkFaults => Cardinality(DOMAIN dir') <= maxFiles

(* Opening the archive.                                                    *)
LEMMA OpenMove ==
    ASSUME ArchiveInv, Open
    PROVE  FilesMove
<1> DEFINE next == next_seq(dir)
<1>1. PICK p \in prune_dir(dir, maxFiles - 1, {}, 0) :
        dir' = create(p[1], next) /\ sinkFaults' = sinkFaults + p[2]
  BY Zenon DEF Open
<1>2. IsFiniteSet(DOMAIN dir)
  BY FilesFinite, Zenon
<1>3. next \in Nat /\ \A s \in DOMAIN dir : s < next
  <2>1. CASE DOMAIN dir = {}
    BY <2>1 DEF next_seq
  <2>2. CASE DOMAIN dir # {}
    <3>1. Max(DOMAIN dir) \in DOMAIN dir /\ \A n \in DOMAIN dir : n <= Max(DOMAIN dir)
      BY <1>2, <2>2, NewestExists, Zenon DEF ArchiveInv
    <3>2. next = Max(DOMAIN dir) + 1
      BY <2>2, Zenon DEF next_seq
    <3>3. DOMAIN dir \in SUBSET Nat
      BY Zenon DEF ArchiveInv
    <3> HIDE DEF next
    <3> QED BY <3>1, <3>2, <3>3
  <2> QED BY <2>1, <2>2, Zenon
<1> HIDE DEF next
<1>4. DOMAIN dir' = DOMAIN p[1] \cup {next}
  BY <1>1, Zenon DEF create
<1>5. /\ DOMAIN p[1] \subseteq DOMAIN dir /\ p[2] \in Nat
      /\ p[2] = 0 => DOMAIN p[1] = DOMAIN dir \ prune_targets(DOMAIN dir, maxFiles - 1)
  <2>1. 0 \in Nat
    OBVIOUS
  <2>2. prune_targets(DOMAIN dir, maxFiles - 1) \ {} = prune_targets(DOMAIN dir, maxFiles - 1)
    BY Zenon
  <2>3. /\ DOMAIN p[1] \subseteq DOMAIN dir /\ p[2] \in Nat
        /\ p[2] = 0 => DOMAIN p[1] = DOMAIN dir \ (prune_targets(DOMAIN dir, maxFiles - 1) \ {})
    BY <2>1, PruneEffect
  <2> QED BY <2>2, <2>3, Zenon
<1>6. sink' = [Off EXCEPT !.pc = "select", !.seq = next] /\ maxFiles' = maxFiles
  BY Zenon DEF Open, next
<1>7. DOMAIN sink' = SinkFields /\ sink'.seq = next
  BY <1>6 DEF Off, SinkFields
<1>8. DOMAIN dir' \in SUBSET Nat /\ \A s \in DOMAIN dir' : s <= sink'.seq
  BY <1>3, <1>4, <1>5, <1>7 DEF ArchiveInv
<1>9. sinkFaults' \in Nat /\ (sinkFaults' = sinkFaults => p[2] = 0)
  BY <1>1, <1>5 DEF ArchiveInv
<1>10. p[2] = 0 => Cardinality(DOMAIN dir') <= maxFiles
  <2> SUFFICES ASSUME p[2] = 0
               PROVE  Cardinality(DOMAIN dir') <= maxFiles
    OBVIOUS
  <2>1. maxFiles - 1 \in Nat
    BY DEF ArchiveInv
  <2>2. DOMAIN p[1] = DOMAIN dir \ prune_targets(DOMAIN dir, maxFiles - 1)
    BY <1>5, Zenon
  <2>3. Cardinality(DOMAIN p[1]) <= maxFiles - 1
    BY <1>2, <2>1, <2>2, PruneCounts, Zenon DEF ArchiveInv
  <2>4. IsFiniteSet(DOMAIN p[1])
    BY <1>2, <1>5, FS_Subset
  <2>5. Cardinality(DOMAIN p[1]) \in Nat
    BY <2>4, FS_CardinalityType, Zenon
  <2>6. Cardinality(DOMAIN dir') \in {Cardinality(DOMAIN p[1]), Cardinality(DOMAIN p[1]) + 1}
    BY <1>4, <2>4, FS_AddElement
  <2> QED BY <2>3, <2>5, <2>6 DEF ArchiveInv
<1> QED BY <1>3, <1>6, <1>7, <1>8, <1>9, <1>10, Zenon DEF FilesMove

(* Writing, with and without a rotation.                                   *)
LEMMA WriteMove ==
    ASSUME ArchiveInv, WriteRecord \/ WriteEnds
    PROVE  FilesMove
<1>1. CASE WriteRecord /\ ~OverLimit(sink)
  <2>1. /\ sink' = [sink EXCEPT !.batch = Tail(sink.batch),
                                !.buffer = Append(@, Head(sink.batch))]
        /\ UNCHANGED <<dir, sinkFaults, maxFiles>>
    BY <1>1, Zenon DEF WriteRecord
  <2>2. DOMAIN sink' = SinkFields /\ sink'.seq = sink.seq
    BY <2>1 DEF ArchiveInv, SinkFields
  <2> QED BY <2>1, <2>2, Zenon DEF FilesMove, ArchiveInv
<1>2. CASE WriteRecord /\ OverLimit(sink)
  <2>0. PICK f \in flush_pending(sink) :
          \E r \in rotate(f, sink.seq) :
             /\ sink' = [sink EXCEPT !.batch = Tail(sink.batch),
                                     !.buffer = Append(<<>>, Head(sink.batch)),
                                     !.written = r.written, !.seq = r.seq]
             /\ dir' = r.d /\ sinkFaults' = sinkFaults + r.cost /\ maxFiles' = maxFiles
    BY <1>2, Zenon DEF WriteRecord
  <2>1. PICK r \in rotate(f, sink.seq) :
          /\ sink' = [sink EXCEPT !.batch = Tail(sink.batch),
                                  !.buffer = Append(<<>>, Head(sink.batch)),
                                  !.written = r.written, !.seq = r.seq]
          /\ dir' = r.d /\ sinkFaults' = sinkFaults + r.cost /\ maxFiles' = maxFiles
    BY <2>0, Zenon
  <2>2. DOMAIN sink' = SinkFields /\ sink'.seq = r.seq
    BY <2>1 DEF ArchiveInv, SinkFields
  <2>3. DOMAIN f.d = DOMAIN dir /\ f.cost \in Nat
    BY FlushEffect, Zenon
  <2>4. /\ r.cost \in Nat
        /\ \/ r.seq = sink.seq /\ DOMAIN r.d \subseteq DOMAIN dir
           \/ /\ r.seq = sink.seq + 1 /\ DOMAIN r.d \subseteq DOMAIN dir \cup {sink.seq + 1}
              /\ r.cost = 0 => Cardinality(DOMAIN r.d) <= maxFiles
    BY <2>3, RotateEffect, Zenon
  <2>5. sinkFaults' \in Nat /\ (sinkFaults' = sinkFaults => r.cost = 0)
    BY <2>1, <2>4 DEF ArchiveInv
  <2>6. CASE r.seq = sink.seq /\ DOMAIN r.d \subseteq DOMAIN dir
    BY <2>1, <2>2, <2>5, <2>6, Zenon DEF FilesMove
  <2>7. CASE /\ r.seq = sink.seq + 1 /\ DOMAIN r.d \subseteq DOMAIN dir \cup {sink.seq + 1}
             /\ r.cost = 0 => Cardinality(DOMAIN r.d) <= maxFiles
    <3>1. /\ sink'.seq \in Nat /\ DOMAIN dir' \in SUBSET Nat
          /\ \A s \in DOMAIN dir' : s <= sink'.seq
      BY <2>1, <2>2, <2>7 DEF ArchiveInv
    <3>2. sinkFaults' = sinkFaults => Cardinality(DOMAIN dir') <= maxFiles
      BY <2>1, <2>5, <2>7, Zenon
    <3> QED BY <2>1, <2>2, <2>5, <3>1, <3>2, Zenon DEF FilesMove
  <2> QED BY <2>4, <2>6, <2>7, Zenon
<1>3. CASE WriteEnds
  <2>1. PICK f \in flush_pending(sink) :
          /\ sink' = [sink EXCEPT !.pc = IF sink.last THEN "done" ELSE "select",
                                  !.buffer = << >>, !.written = f.written]
          /\ dir' = f.d /\ sinkFaults' = sinkFaults + f.cost /\ maxFiles' = maxFiles
    BY <1>3, Zenon DEF WriteEnds
  <2>2. DOMAIN sink' = SinkFields /\ sink'.seq = sink.seq
    BY <2>1 DEF ArchiveInv, SinkFields
  <2>3. DOMAIN f.d = DOMAIN dir /\ f.cost \in Nat
    BY FlushEffect, Zenon
  <2>4. sinkFaults' \in Nat
    BY <2>1, <2>3 DEF ArchiveInv
  <2> QED BY <2>1, <2>2, <2>3, <2>4, Zenon DEF FilesMove
<1> QED BY <1>1, <1>2, <1>3, Zenon

(* A task or a process cut short leaves its file as the newest.            *)
LEMMA CutMove ==
    ASSUME ArchiveInv, AbortTask \/ ProcessEnds
    PROVE  FilesMove
<1>1. PICK pc : CutShort(pc) /\ UNCHANGED <<maxFiles, sinkFaults>>
  BY Zenon DEF AbortTask, ProcessEnds
<1>2. PICK s : /\ dir' = IF sink.seq \in DOMAIN dir
                         THEN [dir EXCEPT ![sink.seq] = @ \o s] ELSE dir
               /\ sink' = [Off EXCEPT !.pc = pc, !.seq = sink.seq]
  BY <1>1, Zenon DEF CutShort
<1>3. DOMAIN dir' = DOMAIN dir
  BY <1>2
<1>4. DOMAIN sink' = SinkFields /\ sink'.seq = sink.seq
  BY <1>2 DEF Off, SinkFields
<1> QED BY <1>1, <1>3, <1>4, Zenon DEF FilesMove, ArchiveInv

(* Every other step leaves the files alone, but for the prune of an open   *)
(* that fails.                                                             *)
LEMMA QuietMove ==
    ASSUME ArchiveInv,
           \/ Publish \/ CloseChannel \/ SinkShutdown \/ OpenFails \/ TakeFirst
           \/ SeeClosed \/ SeeCancelled \/ drain \/ DrainEnds
    PROVE  FilesMove
<1>1. CASE Publish \/ CloseChannel \/ SinkShutdown
  BY <1>1, Zenon DEF Publish, CloseChannel, SinkShutdown, FilesMove, ArchiveInv
<1>2. CASE OpenFails
  <2>1. PICK p \in {<<dir, 1>>} \cup prune_dir(dir, maxFiles - 1, {}, 1) :
          dir' = p[1] /\ sinkFaults' = sinkFaults + p[2] /\ maxFiles' = maxFiles /\ sink' = sink
    BY <1>2, Zenon DEF OpenFails
  <2>2. 1 \in Nat
    OBVIOUS
  <2>3. DOMAIN p[1] \subseteq DOMAIN dir /\ p[2] \in Nat
    <3>1. CASE p = <<dir, 1>>
      BY <3>1
    <3>2. CASE p \in prune_dir(dir, maxFiles - 1, {}, 1)
      BY <2>2, <3>2, PruneEffect, Zenon
    <3> QED BY <2>1, <3>1, <3>2, Zenon
  <2>4. sinkFaults' \in Nat
    BY <2>1, <2>3 DEF ArchiveInv
  <2> QED BY <2>1, <2>3, <2>4, Zenon DEF FilesMove, ArchiveInv
<1>3. CASE TakeFirst \/ SeeClosed \/ SeeCancelled \/ drain \/ DrainEnds
  <2>1. UNCHANGED <<maxFiles, dir, sinkFaults>>
    BY <1>3, Zenon DEF TakeFirst, SeeClosed, SeeCancelled, drain, DrainEnds, OnlySink
  <2>2. DOMAIN sink' = SinkFields /\ sink'.seq = sink.seq
    BY <1>3 DEF TakeFirst, SeeClosed, SeeCancelled, drain, DrainEnds, ArchiveInv, SinkFields
  <2> QED BY <2>1, <2>2, Zenon DEF FilesMove, ArchiveInv
<1> QED BY <1>1, <1>2, <1>3, Zenon

(* The invariant is inductive, and every step moves the files as stated.   *)
LEMMA ArchiveStep ==
    ASSUME ArchiveInv, ArchiveNext
    PROVE  ArchiveInv' /\ FilesMove
<1>1. FilesMove
  BY OpenMove, WriteMove, CutMove, QuietMove, Zenon DEF ArchiveNext, SinkStep
<1>2. CASE sink'.seq = sink.seq /\ DOMAIN dir' \subseteq DOMAIN dir
  BY <1>1, <1>2, Zenon DEF FilesMove, ArchiveInv
<1>3. CASE ~(sink'.seq = sink.seq /\ DOMAIN dir' \subseteq DOMAIN dir)
  BY <1>1, <1>3, Zenon DEF FilesMove, ArchiveInv
<1> QED BY <1>1, <1>2, <1>3, Zenon

(* rotate and open (log_sink.rs), for any budget, any size of records and  *)
(* any number of runs and failures: a step that switches to a new file and *)
(* meets no failing disk operation leaves at most max_files files, however *)
(* many earlier prunes failed.                                             *)
THEOREM RetentionHolds == ArchiveInit /\ [][ArchiveNext]_archiveVars => RetentionConverges
<1> DEFINE A == sink'.seq # sink.seq /\ sinkFaults' = sinkFaults
                  => Cardinality(DOMAIN dir') <= maxFiles
<1>1. ArchiveInit => ArchiveInv
  <2> SUFFICES ASSUME ArchiveInit PROVE ArchiveInv
    OBVIOUS
  <2>1. maxFiles \in Nat \ {0} /\ sinkFaults \in Nat
    BY DEF ArchiveInit
  <2>2. DOMAIN sink = SinkFields /\ sink.seq \in Nat
    BY DEF ArchiveInit, Off, SinkFields
  <2>3. DOMAIN dir = {}
    BY DEF ArchiveInit
  <2> QED BY <2>1, <2>2, <2>3, Zenon DEF ArchiveInv
<1>2. ArchiveInv /\ [ArchiveNext]_archiveVars => ArchiveInv'
  <2>1. ASSUME ArchiveInv, UNCHANGED archiveVars PROVE ArchiveInv'
    BY <2>1, Zenon DEF archiveVars, ArchiveInv
  <2> QED BY <2>1, ArchiveStep, Zenon
<1>3. ArchiveInv /\ [ArchiveNext]_archiveVars => [A]_archiveVars
  BY ArchiveStep, Zenon DEF FilesMove
<1> QED BY <1>1, <1>2, <1>3, PTL DEF RetentionConverges
=============================================================================
