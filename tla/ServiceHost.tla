----------------------------- MODULE ServiceHost -----------------------------
(***************************************************************************)
(* The installed service as the operating system sees it: its definition   *)
(* in the service manager (SCM, systemd, launchd), the binary the           *)
(* definition runs, and the one process of the service from its entry       *)
(* (main.rs, win_service.rs) through cmds/server.rs to the IPC listener and *)
(* its end.  The service manager itself is external: it launches the        *)
(* process, delivers stop requests and answers status queries.              *)
(*                                                                         *)
(* On Windows two threads share the process: `main` runs run_service and    *)
(* talks to the SCM, `server` runs handler().  Elsewhere main only selects  *)
(* between the signal channel and the handler.                              *)
(***************************************************************************)
EXTENDS Integers, FiniteSets

CONSTANTS Platforms,    \* subset of {"windows", "linux", "macos"}
          Versions,     \* versions of the service binary, numbers from 1
          MaxLaunches,  \* bound: processes of the service over a behaviour
          MaxFaults     \* bound: crashes, hangs, torn copies, failed steps and
                        \* reports, missed kills, shutdowns

Torn == 99           \* a binary whose copy broke off: no version, cannot run

ASSUME PlatformsAssumption == Platforms \subseteq {"windows", "linux", "macos"}
ASSUME VersionsAssumption == Versions \subseteq Nat \ {0, Torn}

VARIABLES os,        \* the platform, fixed by the initial state
          unit,      \* [defined, loaded, wanted]: the service definition
          file,      \* [{"exec", "data"} -> version, 0 absent, Torn]
          access,    \* the user is in the group, or in the ACL file
          proc,      \* the service process
          scm,       \* state of the service in the service manager
          sock,      \* the listener: "none", "live", "stale"
          launches, faults

hostVars == <<os, unit, file, access, proc, scm, sock, launches, faults>>

NoProcess == [main |-> "none", server |-> "none", stored |-> FALSE,
              control |-> FALSE, cancelled |-> FALSE, hung |-> FALSE, version |-> 0]

Alive == proc.main # "none"
Mains == {"none", "enter", "wait", "pending", "join", "quiet", "failed"}
Servers == {"none", "boot", "bind", "serve", "closing", "done"}

HostTypeOK ==
  /\ os \in Platforms
  /\ unit \in [defined : BOOLEAN, loaded : BOOLEAN, wanted : BOOLEAN]
  /\ file \in [{"exec", "data"} -> Versions \cup {0, Torn}]
  /\ access \in BOOLEAN
  /\ proc \in [main : Mains, server : Servers, stored : BOOLEAN, control : BOOLEAN,
               cancelled : BOOLEAN, hung : BOOLEAN, version : Versions \cup {0}]
  /\ scm \in {"stopped", "start_pending", "running", "stop_pending"}
  /\ sock \in {"none", "live", "stale"}
  /\ launches \in 0..MaxLaunches
  /\ faults \in 0..MaxFaults

\* The path `install` puts into the definition and the one `update` writes.
\* Only Linux keeps them apart: /usr/bin against the service data directory.
ExecPath == IF os = "linux" THEN "exec" ELSE "data"
UpdatePath == "data"

Runnable(v) == v \in Versions

\* Nothing installed yet, or what an earlier install left: stopped, or about
\* to be started by the boot.
HostInit ==
  /\ os \in Platforms
  /\ \E installed, boot \in BOOLEAN :
       /\ boot => installed
       /\ unit = [defined |-> installed, loaded |-> boot /\ os = "macos", wanted |-> boot]
       /\ file = [p \in {"exec", "data"} |->
                   IF installed /\ p = ExecPath THEN 1 ELSE 0]
       /\ access = installed
  /\ proc = NoProcess
  /\ scm = "stopped"
  /\ sock = "none"
  /\ launches = 0
  /\ faults = 0

Fault == faults < MaxFaults /\ faults' = faults + 1

(***************************************************************************)
(* The process goes away: Windows drops the pipe with its last handle, a    *)
(* Unix socket file stays behind and refuses connections.                   *)
(***************************************************************************)
Gone ==
  /\ proc' = NoProcess
  /\ scm' = "stopped"
  /\ sock' = IF sock = "live" /\ os # "windows" THEN "stale"
             ELSE IF sock = "live" THEN "none" ELSE sock

\* The service manager executes the definition's binary.  Windows waits for
\* run_service to report; on Unix main has entered its select at once.
Launch ==
  /\ ~Alive /\ unit.defined /\ Runnable(file[ExecPath])
  /\ launches < MaxLaunches /\ launches' = launches + 1
  /\ proc' = [NoProcess EXCEPT
                !.version = file[ExecPath],
                !.main = IF os = "windows" THEN "enter" ELSE "wait",
                !.server = IF os = "windows" THEN "none" ELSE "boot"]
  /\ scm' = IF os = "windows" THEN "start_pending" ELSE "running"

\* Restart policy and autostart: the manager relaunches a wanted service.
Relaunch ==
  /\ unit.wanted /\ (os = "macos" => unit.loaded) /\ Launch
  /\ UNCHANGED <<os, unit, file, access, sock, faults>>

\* Any abort of the process, the panic of service_main when the handler cannot
\* be registered or Running cannot be reported included.
Crash ==
  /\ Alive /\ Fault /\ Gone
  /\ UNCHANGED <<os, unit, file, access, launches>>

\* The process stops making progress; only a kill ends it.  Where no call
\* waits for the process (Windows), nothing tells this from a slow one.
Hang ==
  /\ Alive /\ os # "windows" /\ ~proc.hung /\ Fault
  /\ proc' = [proc EXCEPT !.hung = TRUE]
  /\ UNCHANGED <<os, unit, file, access, scm, sock, launches>>

(***************************************************************************)
(* run_service on Windows                                                  *)
(***************************************************************************)
\* Register the control handler, report Running with STOP|PRESHUTDOWN
\* accepted, spawn the handler thread.
EnterService ==
  /\ proc.main = "enter" /\ ~proc.hung
  /\ proc' = [proc EXCEPT !.main = "wait", !.server = "boot"]
  /\ scm' = "running"
  /\ UNCHANGED <<os, unit, file, access, sock, launches, faults>>

\* event_handler: Stop and Preshutdown cancel the token main waits for.  The
\* SCM delivers them only while the reported state accepts them.
ControlAccepted == os = "windows" /\ scm = "running"
EventHandler == proc' = [proc EXCEPT !.control = TRUE]

Preshutdown ==
  /\ ControlAccepted /\ ~proc.control /\ Fault
  /\ EventHandler
  /\ UNCHANGED <<os, unit, file, access, scm, sock, launches>>

ReportStopPending ==
  /\ os = "windows" /\ proc.main = "wait" /\ proc.control /\ ~proc.hung
  /\ proc' = [proc EXCEPT !.main = "pending"]
  /\ scm' = "stop_pending"
  /\ UNCHANGED <<os, unit, file, access, sock, launches, faults>>

\* The report fails: `?` leaves run_service before the token is looked at, its
\* guard tells the SCM Stopped beside a running server, and service_main panics,
\* which ends the process.
ReportFails ==
  /\ os = "windows" /\ proc.main = "wait" /\ proc.control /\ ~proc.hung /\ Fault
  /\ proc' = [proc EXCEPT !.main = "failed"]
  /\ scm' = "stopped"
  /\ UNCHANGED <<os, unit, file, access, sock, launches>>

Panic ==
  /\ proc.main = "failed" /\ ~proc.hung
  /\ Gone
  /\ UNCHANGED <<os, unit, file, access, launches, faults>>

\* server_shutdown_token() is None until the server command has stored it.
CancelServer ==
  /\ proc.main = "pending" /\ ~proc.hung
  /\ proc' = [proc EXCEPT !.main = "join", !.cancelled = @ \/ proc.stored]
  /\ UNCHANGED <<os, unit, file, access, scm, sock, launches, faults>>

\* Past STOP_PENDING_DEADLINE the checkpoints cease; join() still waits.
DeadlinePassed ==
  /\ proc.main = "join" /\ proc.server # "done" /\ ~proc.hung
  /\ proc' = [proc EXCEPT !.main = "quiet"]
  /\ UNCHANGED <<os, unit, file, access, scm, sock, launches, faults>>

\* The handler thread has ended: the guard reports Stopped, main returns.
ServiceStopped ==
  /\ proc.main \in {"join", "quiet"} /\ proc.server = "done" /\ ~proc.hung
  /\ Gone
  /\ UNCHANGED <<os, unit, file, access, launches, faults>>

(***************************************************************************)
(* main() elsewhere: the biased select drops handler() on a signal, or      *)
(* returns the handler's exit code.                                         *)
(***************************************************************************)
SignalReturns ==
  /\ os # "windows" /\ proc.main = "wait" /\ proc.control /\ ~proc.hung
  /\ Gone
  /\ UNCHANGED <<os, unit, file, access, launches, faults>>

HandlerReturns ==
  /\ os # "windows" /\ proc.main = "wait" /\ proc.server = "done" /\ ~proc.hung
  /\ Gone
  /\ UNCHANGED <<os, unit, file, access, launches, faults>>

(***************************************************************************)
(* The server command: server(), server_inner(), run(), create_server().    *)
(* A step that fails ends the handler.                                      *)
(***************************************************************************)
ServerStep(from) == proc.server = from /\ ~proc.hung
Advance(to) == proc' = [proc EXCEPT !.server = to]

\* SHUTDOWN_TOKEN.set is the first statement of server().
StoreToken ==
  /\ ServerStep("boot")
  /\ proc' = [proc EXCEPT !.server = "bind", !.stored = TRUE]
  /\ UNCHANGED <<os, unit, file, access, scm, sock, launches, faults>>

\* server_inner and run: old pid file, directories, new pid file, ACL, manager;
\* then create_server: a socket file left by a dead process is removed before
\* the bind; the socket is given to the group, which must exist.
BindsFresh == {"none"}
BindsOver == {"none", "stale"}
Bind ==
  /\ ServerStep("bind") /\ ~proc.cancelled
  /\ IF sock \in BindsOver /\ (os = "windows" \/ access)
       THEN sock' = "live" /\ Advance("serve")
       ELSE sock' = sock /\ Advance("done")
  /\ UNCHANGED <<os, unit, file, access, scm, launches, faults>>

PrepareFails ==
  /\ ServerStep("bind") /\ Fault /\ Advance("done")
  /\ UNCHANGED <<os, unit, file, access, scm, sock, launches>>

\* run(): the cancelled token wins the select; the manager shuts down first.
BeginClose ==
  /\ proc.server \in {"bind", "serve"} /\ proc.cancelled /\ ~proc.hung
  /\ Advance("closing")
  /\ UNCHANGED <<os, unit, file, access, scm, sock, launches, faults>>

\* The manager is down and the connections are drained, or abandoned after
\* SERVER_DRAIN_TIMEOUT.
Drained ==
  /\ ServerStep("closing") /\ Advance("done")
  /\ sock' = IF sock # "live" THEN sock ELSE IF os = "windows" THEN "none" ELSE "stale"
  /\ UNCHANGED <<os, unit, file, access, scm, launches, faults>>

\* A request finds the listener, and a process that replies.
Listening == sock = "live" /\ proc.server = "serve"
Answers == Listening /\ ~proc.hung

ServerNext ==
  \/ StoreToken \/ Bind \/ PrepareFails
  \/ BeginClose \/ Drained

ProcessNext ==
  \/ Relaunch \/ Crash \/ Hang
  \/ EnterService \/ Preshutdown \/ ReportStopPending \/ ReportFails \/ Panic
  \/ CancelServer \/ DeadlinePassed \/ ServiceStopped
  \/ SignalReturns \/ HandlerReturns

HostNext == ServerNext \/ ProcessNext

\* The two threads of a process that has not hung are scheduled; connections,
\* faults and the service manager's own decisions are not promised.
MainThread ==
  \/ EnterService \/ ReportStopPending \/ Panic \/ CancelServer \/ ServiceStopped
  \/ SignalReturns \/ HandlerReturns
ServerThread == StoreToken \/ Bind \/ BeginClose \/ Drained

HostFairness == WF_hostVars(MainThread) /\ WF_hostVars(ServerThread)
=============================================================================
