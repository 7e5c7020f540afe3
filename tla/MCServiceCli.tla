---------------------------- MODULE MCServiceCli ----------------------------
(***************************************************************************)
(* The properties of the service's lifecycle.                               *)
(***************************************************************************)
EXTENDS ServiceCli

Succeeds(c, cmd) == cli[c].cmd = cmd /\ cli[c].exit = "none" /\ cli'[c].exit = "ok"

\* install writes the definition last: whatever failed or was interrupted, a
\* defined service names a file that is there, torn perhaps by a later copy,
\* and has a group its socket can be given to.
DefinitionBacked ==
  unit.defined => file[ExecPath] # 0 /\ (os # "windows" => access)

\* An install that reports success, undisturbed by other privileged commands,
\* has defined a service whose binary can run, never one that a copy tore, and
\* has granted the user access.
InstallTakesEffect ==
  [][\A c \in Clis : Succeeds(c, "install") /\ cli[c].alone
       => unit.defined /\ Runnable(file[ExecPath]) /\ access]_vars

\* What install defines can be started: the definition never precedes the file
\* and the group, and success means a binary that runs (cmds/install.rs, install).
DefinitionUsable == []DefinitionBacked /\ InstallTakesEffect

\* A stop that reports success, undisturbed by other privileged commands, holds:
\* the manager will not relaunch the service, and its process is gone or, on
\* Windows, has been told to end.  The eight seconds may pass before the worker
\* has made its call; dropping the runtime still waits for that call, which off
\* Windows finds the service the kill left wanted, and on Windows may fail
\* unnoticed (cmds/stop.rs, stop_running_service).
StopHolds ==
  [][\A c \in Clis :
       Succeeds(c, "stop") /\ cli[c].alone /\ (os = "windows" => cli[c].worker = "returned")
         => ~unit.wanted /\ (Alive => os = "windows" /\ proc.control)]_vars

\* status says running only when the server answered: on Windows the manager
\* keeps saying Running for a process whose server has failed.
StatusIsProbed ==
  [][\A c \in Clis : cli[c].cmd = "status" /\ cli[c].exit = "none" /\ cli'[c].exit = "ok"
       => Listening]_vars

UpdateDone(c) ==
  /\ cli[c].cmd = "update" /\ At(c, "is_running") /\ cli'[c].exit = "ok"

\* Where install and update agree on the path of the binary, an update that
\* stopped, replaced and restarted the service, undisturbed by other privileged
\* commands, ends with the new version running (update, StopReplaceStart).
UpdateTakesEffectOffLinux ==
  [][\A c \in Clis : UpdateDone(c) /\ cli[c].alone /\ os # "linux"
       => proc.version = cli[c].source]_vars

\* What a command says on success is so: a running status comes from a server
\* that answered, and after an update the new version runs (cmds/status.rs,
\* status; cmds/update.rs, update).
ReportsAreTrue == StatusIsProbed /\ UpdateTakesEffectOffLinux

-----------------------------------------------------------------------------
Stopping(c) == At(c, "stop_wait") \/ At(c, "stop_drop")

\* A stop command whose call is waiting for a hung service goes on: the kill
\* after eight seconds frees the worker the dropped runtime still waits for,
\* provided that it finds the process, whose working directory must hold the
\* application's name (no fault is left for it to miss).
StopEnds ==
  \A c \in Clis :
    (At(c, "stop_wait") /\ cli[c].worker = "waiting" /\ cli[c].alone /\ faults = MaxFaults)
      ~> (~Stopping(c) \/ ~cli[c].alone)

\* A stop request that finds the server's token stored ends the process, also
\* when the pending stop cannot be reported.
StoredTokenStops ==
  (proc.control /\ proc.stored /\ proc.main \in {"wait", "pending"})
     ~> (~Alive \/ proc.hung)

\* Every stop request the Windows service accepted reaches the server.
StopReachesServer ==
  (os = "windows" /\ proc.control) ~>
     (proc.cancelled \/ proc.server = "done" \/ ~Alive \/ proc.hung)

\* A launched service whose access was granted comes to listen, over the
\* socket a dead predecessor left, unless it is stopped or killed.
LaunchedServes ==
  (proc.server = "boot" /\ ~proc.hung /\ access /\ faults = MaxFaults) ~>
     (Listening \/ proc.control \/ \E c \in Clis : At(c, "stop_drop"))

\* A stop gets to its end: the command past a hung service, and the process whose
\* token the control handler found (cmds/stop.rs, stop; win_service.rs,
\* run_service).
StopsEnd == StopEnds /\ StoredTokenStops
=============================================================================
