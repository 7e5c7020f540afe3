------------------------------ MODULE ServiceCli ------------------------------
(***************************************************************************)
(* The command line of the service (cmds/*.rs): install, uninstall, start,   *)
(* stop, restart, update and status, each a process of its own that queries  *)
(* the service manager, acts, sleeps, and queries again to confirm.  Nothing *)
(* locks them against each other or against the service, so every query may  *)
(* be stale when the next step acts on it.                                   *)
(*                                                                          *)
(* A command in progress is the sequence `todo` of the steps it has left.    *)
(* A "query" step replaces itself by the steps the status calls for, or      *)
(* ends the command with an exit code.                                       *)
(***************************************************************************)
EXTENDS ServiceHost, Sequences

CONSTANTS Clis,         \* concurrent invocations
          MaxCommands   \* bound: commands issued over a behaviour

VARIABLES cli,       \* [Clis -> the invocation's state]
          commands   \* how many were issued

cliVars == <<cli, commands>>
vars == <<hostVars, cliVars>>

Commands == {"install", "uninstall", "start", "stop", "restart", "update",
             "update_check", "status", "rpc"}

\* commands that only read state run without elevation
Unprivileged == {"status", "rpc", "update_check"}

Exits == {"ok", "denied", "not_installed", "installed", "stopped", "running", "other"}

\* `version` is that of the binary the command runs from, `source` that of
\* the binary it copies (another one under --from); `alone` tells whether no
\* other privileged command has overlapped this one.
Idle == [cmd |-> "none", todo |-> <<>>, version |-> 1, source |-> 1,
         elevated |-> FALSE, worker |-> "none", exit |-> "none", alone |-> FALSE]

Steps == {"copy_exec", "grant", "define", "is_defined", "undefine", "is_undefined",
          "halt", "halted", "launch", "is_running", "stop_worker", "stop_wait",
          "stop_drop", "is_stopped", "probe", "plan", "copy_data", "call"}

TypeOK ==
  /\ HostTypeOK
  /\ commands \in 0..MaxCommands
  /\ \A c \in Clis :
       /\ cli[c].cmd \in Commands \cup {"none"}
       /\ cli[c].todo \in Seq(Steps \cup Commands)
       /\ cli[c].version \in Versions /\ cli[c].source \in Versions
       /\ cli[c].worker \in {"none", "calling", "waiting", "returned", "failed"}
       /\ cli[c].exit \in Exits \cup {"none"}

Init == HostInit /\ cli = [c \in Clis |-> Idle] /\ commands = 0

Busy(c) == cli[c].cmd # "none"
At(c, step) == Busy(c) /\ cli[c].todo # <<>> /\ Head(cli[c].todo) = step
Mutating(c) == Busy(c) /\ cli[c].cmd \notin Unprivileged

(***************************************************************************)
(* What the service manager answers.  A pending state maps to either side.   *)
(* On macOS a booted-out job is unknown to launchd; its plist still says     *)
(* that it is installed, and normalize_status puts that right.               *)
(***************************************************************************)
ManagerStatus ==
  IF ~unit.defined \/ (os = "macos" /\ ~unit.loaded) THEN {"NotInstalled"}
  ELSE CASE scm = "running" -> {"Running"}
         [] scm = "stopped" -> {"Stopped"}
         [] OTHER -> {"Running", "Stopped"}

NormalizeStatus(s) ==
  IF os = "macos" /\ s = "NotInstalled" /\ unit.defined THEN "Stopped" ELSE s

Status == {NormalizeStatus(s) : s \in ManagerStatus}

(***************************************************************************)
(* The branch table of each command over the status it reads first: the     *)
(* steps to take, or the exit code.                                         *)
(***************************************************************************)
InstallSteps == <<"copy_exec", "grant", "define", "is_defined">>
StatusSteps == <<"probe">>

Branches == [
  install   |-> [NotInstalled |-> InstallSteps,
                 Stopped |-> <<"installed">>, Running |-> <<"installed">>],
  uninstall |-> [NotInstalled |-> <<"not_installed">>,
                 Stopped |-> <<"undefine", "is_undefined">>,
                 Running |-> <<"halt", "halted", "undefine", "is_undefined">>],
  start     |-> [NotInstalled |-> <<"not_installed">>,
                 Stopped |-> <<"launch", "is_running">>, Running |-> <<"running">>],
  stop      |-> [NotInstalled |-> <<"not_installed">>, Stopped |-> <<"stopped">>,
                 Running |-> <<"stop_worker", "stop_wait", "is_stopped">>],
  restart   |-> [NotInstalled |-> <<"not_installed">>,
                 Stopped |-> <<"launch", "is_running">>,
                 Running |-> <<"halt", "halted", "launch", "is_running">>],
  status    |-> [NotInstalled |-> <<"not_installed">>, Stopped |-> <<"stopped">>,
                 Running |-> StatusSteps]]

Keep == UNCHANGED <<hostVars, commands>>
Exit(c, code) == cli' = [cli EXCEPT ![c] = [Idle EXCEPT !.exit = code]]
Go(c, steps) ==
  IF steps = <<>> THEN Exit(c, "ok") ELSE cli' = [cli EXCEPT ![c].todo = steps]
Step(c) == Go(c, Tail(cli[c].todo))

\* invocations are interchangeable
FreeCli == CHOOSE c \in Clis : ~Busy(c)

\* process(): the elevation check comes before anything else.
Elevated(cmd, elevated) == cmd \in Unprivileged \/ elevated

FirstStep(cmd) ==
  CASE cmd \in {"update", "update_check"} -> <<"plan">>
    [] cmd = "rpc" -> <<"call">>
    [] OTHER -> <<cmd>>

\* Bounds on the inputs: updates come from the newest binary, everything else
\* from the first; --from names another one only while no command runs.
Newest == CHOOSE v \in Versions : \A w \in Versions : w <= v
Invocation(cmd, version, source) ==
  IF cmd = "update"
    THEN /\ version = Newest
         /\ source # version => commands > 0 /\ \A d \in Clis : ~Busy(d)
    ELSE version = 1 /\ source = 1

Begin(c) ==
  /\ ~Busy(c) /\ c = FreeCli /\ commands < MaxCommands /\ commands' = commands + 1
  /\ \E cmd \in Commands, v, src \in Versions, e \in BOOLEAN :
       /\ Invocation(cmd, v, src)
       /\ (e => cmd \notin Unprivileged)
       /\ cli' = [d \in Clis |->
            IF d # c THEN [cli[d] EXCEPT !.alone = @ /\ cmd \in Unprivileged]
            ELSE IF ~Elevated(cmd, e) THEN [Idle EXCEPT !.exit = "denied"]
            ELSE [Idle EXCEPT !.cmd = cmd, !.version = v, !.source = src, !.elevated = e,
                    !.alone = ~\E o \in Clis \ {c} : Mutating(o), !.todo = FirstStep(cmd)]]
  /\ UNCHANGED hostVars

\* The early return of a branch that only names an exit code.
Follow(c, branch) ==
  IF Head(branch) \in Exits THEN Exit(c, Head(branch)) ELSE Go(c, branch \o Tail(cli[c].todo))

\* service::status, then the branch of the command; inside an update the
\* steps of stop and start are followed by the rest of the update.
QueryStatus(c) ==
  /\ Busy(c) /\ cli[c].todo # <<>> /\ Head(cli[c].todo) \in DOMAIN Branches
  /\ \E s \in Status : Follow(c, Branches[Head(cli[c].todo)][s])
  /\ Keep

Confirms == [is_defined |-> {"Stopped", "Running"}, is_undefined |-> {"NotInstalled"},
             is_running |-> {"Running"}, is_stopped |-> {"Stopped"}]

\* The sleep is over: ask again, and fail on any other answer.
Confirm(c) ==
  /\ Busy(c) /\ cli[c].todo # <<>> /\ Head(cli[c].todo) \in DOMAIN Confirms
  /\ \E s \in Status :
       IF s \in Confirms[Head(cli[c].todo)] THEN Step(c) ELSE Exit(c, "other")
  /\ Keep

(***************************************************************************)
(* install                                                                  *)
(***************************************************************************)
\* A running executable cannot be opened for writing, except on macOS.
TextBusy(path) == Alive /\ path = ExecPath /\ os # "macos"
Target(c) == IF At(c, "copy_exec") THEN ExecPath ELSE UpdatePath
Copying(c) == At(c, "copy_exec") \/ At(c, "copy_data")

OwnVersion(c) == cli[c].version
CopiedVersion(c) == cli[c].source

Copy(c) ==
  /\ Copying(c) /\ ~TextBusy(Target(c))
  /\ file' = [file EXCEPT ![Target(c)] = CopiedVersion(c)]
  /\ Step(c)
  /\ UNCHANGED <<os, unit, access, proc, scm, sock, launches, faults, commands>>

\* install run from the very file it would copy to
CopySkipped(c) ==
  /\ At(c, "copy_exec") /\ file[ExecPath] = cli[c].version
  /\ Step(c) /\ Keep

CopyRefused(c) ==
  /\ Copying(c) /\ TextBusy(Target(c))
  /\ Exit(c, "other") /\ Keep

CopyUnchecked(c) ==
  /\ Copying(c) /\ ~TextBusy(Target(c)) /\ Fault
  /\ file' = [file EXCEPT ![Target(c)] = Torn]
  /\ Step(c)
  /\ UNCHANGED <<os, unit, access, proc, scm, sock, launches, commands>>

\* The copy truncates first: a failure half-way leaves no usable binary.
CopyTorn(c) ==
  /\ Copying(c) /\ ~TextBusy(Target(c)) /\ Fault
  /\ file' = [file EXCEPT ![Target(c)] = Torn]
  /\ Exit(c, "other")
  /\ UNCHANGED <<os, unit, access, proc, scm, sock, launches, commands>>

\* Unix: the group and the user's membership; Windows: the ACL file, read,
\* extended by the user, and written back.
Grant(c) ==
  /\ At(c, "grant") /\ access' = TRUE /\ Step(c)
  /\ UNCHANGED <<os, unit, file, proc, scm, sock, launches, faults, commands>>

\* write_acl_file truncates the list before it writes the new one.
GrantFails(c) ==
  /\ At(c, "grant") /\ Fault /\ Exit(c, "other")
  /\ access' = (access /\ os # "windows")
  /\ UNCHANGED <<os, unit, file, proc, scm, sock, launches, commands>>

\* The SCM refuses a second definition of the label, the others overwrite it.
Define(c) ==
  /\ At(c, "define")
  /\ IF os = "windows" /\ unit.defined
       THEN Exit(c, "other") /\ UNCHANGED unit
       ELSE /\ Step(c)
            /\ \E l \in BOOLEAN :
                 /\ l => os = "macos"
                 /\ unit' = [defined |-> TRUE, loaded |-> l, wanted |-> l]
  /\ UNCHANGED <<os, file, access, proc, scm, sock, launches, faults, commands>>

(***************************************************************************)
(* uninstall, start, restart                                                *)
(***************************************************************************)
Undefine(c) ==
  /\ At(c, "undefine")
  /\ IF ~unit.defined \/ (os = "windows" /\ Alive)
       THEN Exit(c, "other") /\ UNCHANGED unit
       ELSE Step(c) /\ unit' = [defined |-> FALSE, loaded |-> FALSE, wanted |-> FALSE]
  /\ UNCHANGED <<os, file, access, proc, scm, sock, launches, faults, commands>>

\* manager.stop or launchctl bootout: what the call does at once.
StopAccepted ==
  CASE os = "windows" -> unit.defined /\ ControlAccepted
    [] os = "linux" -> unit.defined
    [] os = "macos" -> unit.loaded
StopRequested ==
  /\ unit' = [unit EXCEPT !.wanted = FALSE, !.loaded = FALSE]
  /\ proc' = IF Alive THEN [proc EXCEPT !.control = TRUE] ELSE proc

Halt(c) ==
  /\ At(c, "halt")
  /\ IF StopAccepted THEN StopRequested /\ Step(c)
                     ELSE Exit(c, "other") /\ UNCHANGED <<unit, proc>>
  /\ UNCHANGED <<os, file, access, scm, sock, launches, faults, commands>>

\* systemctl and launchctl return once the process is gone, sc at once.
StopReturns == os = "windows" \/ ~Alive
Halted(c) == At(c, "halted") /\ StopReturns /\ Step(c) /\ Keep

\* manager.start or launchctl bootstrap
CanLaunch == /\ unit.defined /\ Runnable(file[ExecPath]) /\ launches < MaxLaunches
             /\ ~Alive /\ ~unit.loaded
StartService(c) ==
  /\ At(c, "launch")
  /\ IF CanLaunch
       THEN /\ Launch /\ Step(c)
            /\ unit' = [unit EXCEPT !.wanted = TRUE, !.loaded = (os = "macos")]
       ELSE /\ IF os = "linux" /\ Alive /\ unit.defined THEN Step(c) ELSE Exit(c, "other")
            /\ UNCHANGED <<unit, proc, scm, launches>>
  /\ UNCHANGED <<os, file, access, sock, faults, commands>>

(***************************************************************************)
(* stop: the call runs on a worker thread; after eight seconds the processes *)
(* of the service are killed.  Leaving the function drops the runtime, which *)
(* still waits for the worker.                                               *)
(***************************************************************************)
SpawnWorker(c) ==
  /\ At(c, "stop_worker")
  /\ cli' = [cli EXCEPT ![c].worker = "calling", ![c].todo = Tail(@)]
  /\ Keep

WorkerCalls(c) ==
  /\ cli[c].worker = "calling"
  /\ IF StopAccepted
       THEN StopRequested /\ cli' = [cli EXCEPT ![c].worker = "waiting"]
       ELSE cli' = [cli EXCEPT ![c].worker = "failed"] /\ UNCHANGED <<unit, proc>>
  /\ UNCHANGED <<os, file, access, scm, sock, launches, faults, commands>>

WorkerReturns(c) ==
  /\ cli[c].worker = "waiting" /\ StopReturns
  /\ cli' = [cli EXCEPT ![c].worker = "returned"]
  /\ Keep

StopJoined(c) ==
  /\ At(c, "stop_wait") /\ cli[c].worker \in {"returned", "failed"}
  /\ IF cli[c].worker = "failed" THEN Exit(c, "other") ELSE Step(c)
  /\ Keep

KillNothing == UNCHANGED <<proc, scm, sock>>
KillService == IF Alive THEN Gone ELSE UNCHANGED <<proc, scm, sock>>

\* The service is looked for by its working directory, which need not hold the
\* application's name, or be readable: the kill may miss it.
StopTimesOut(c) ==
  /\ At(c, "stop_wait") /\ cli[c].worker \in {"calling", "waiting"}
  /\ \/ KillService /\ UNCHANGED faults
     \/ KillNothing /\ Fault
  /\ Go(c, <<"stop_drop">> \o Tail(cli[c].todo))
  /\ UNCHANGED <<os, unit, file, access, launches, commands>>

StopAbandoned(c) == At(c, "stop_drop") /\ Step(c) /\ Keep
StopDropped(c) ==
  /\ At(c, "stop_drop") /\ cli[c].worker \in {"returned", "failed"}
  /\ Step(c) /\ Keep

(***************************************************************************)
(* update, status and the rpc shortcuts                                     *)
(***************************************************************************)
\* The service's version, if it answers: update and rpc set no timeout, so a
\* listener that never replies holds them.
Installed == IF Answers THEN proc.version ELSE 0
Replies == Answers \/ ~Listening

PlanUpdate(exists, version, installed) ==
  IF ~exists THEN "Seed"
  ELSE IF installed = 0 THEN "ReplaceOffline"
  ELSE IF version > installed THEN "StopReplaceStart" ELSE "UpToDate"

UpdateSteps == [Seed |-> <<"copy_data">>, ReplaceOffline |-> <<"copy_data">>,
                StopReplaceStart |-> <<"stop", "copy_data", "start">>, UpToDate |-> <<>>]

Plan(c) ==
  /\ At(c, "plan") /\ (file[UpdatePath] # 0 => Replies)
  /\ LET plan == PlanUpdate(file[UpdatePath] # 0, cli[c].version, Installed) IN
     Go(c, IF cli[c].cmd = "update_check" THEN <<>> ELSE UpdateSteps[plan])
  /\ Keep

\* The probe may also run into its three seconds; either way the manager's
\* Running is taken back.
Probe(c) ==
  /\ At(c, "probe")
  /\ \/ Answers /\ Exit(c, "ok")
     \/ Exit(c, "stopped")
  /\ Keep

Call(c) ==
  /\ At(c, "call") /\ Replies
  /\ Exit(c, IF Answers THEN "ok" ELSE "other") /\ Keep

\* stop's thread and its worker
StopStep(c) ==
  \/ WorkerCalls(c) \/ WorkerReturns(c)
  \/ StopJoined(c) \/ StopTimesOut(c) \/ StopDropped(c)

CliStep(c) ==
  \/ QueryStatus(c) \/ Confirm(c)
  \/ Copy(c) \/ CopySkipped(c) \/ CopyRefused(c) \/ CopyTorn(c)
  \/ Grant(c) \/ GrantFails(c) \/ Define(c)
  \/ Undefine(c) \/ Halt(c) \/ Halted(c) \/ StartService(c)
  \/ SpawnWorker(c) \/ StopStep(c)
  \/ Plan(c) \/ Probe(c) \/ Call(c)

Next ==
  \/ HostNext /\ UNCHANGED cliVars
  \/ \E c \in Clis : Begin(c) \/ CliStep(c)

\* The operating system schedules the threads of a stop command; of the other
\* commands nothing is promised.
Spec == Init /\ [][Next]_vars /\ HostFairness
          /\ \A c \in Clis : WF_vars(StopStep(c))
=============================================================================
