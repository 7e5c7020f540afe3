-------------------------- MODULE ServiceCliProofs --------------------------
(***************************************************************************)
(* The installed service and any number of concurrent invocations of its   *)
(* command line, over any number of commands, launches and faults: what    *)
(* install leaves behind, and what the success of install, stop, status    *)
(* and update means.                                                       *)
(***************************************************************************)
EXTENDS MCServiceCli, TLAPS

USE VersionsAssumption

Procs == [main : Mains, server : Servers, stored : BOOLEAN, control : BOOLEAN,
          cancelled : BOOLEAN, hung : BOOLEAN, version : Nat]
Units == [defined : BOOLEAN, loaded : BOOLEAN, wanted : BOOLEAN]

HostTypes ==
    /\ unit \in Units
    /\ file \in [{"exec", "data"} -> Nat]
    /\ access \in BOOLEAN
    /\ proc \in Procs

(* The service manager's view of the process: without one it says stopped. *)
(* The converse fails on Windows between a report that could not be made   *)
(* and the panic that ends the process.                                    *)
HostInv == ~Alive => scm = "stopped"

(* Both paths of the binary are among the two modelled.                    *)
LEMMA Paths == ExecPath \in {"exec", "data"} /\ UpdatePath \in {"exec", "data"}
BY Zenon DEF ExecPath, UpdatePath

(* The process that is not there.                                          *)
LEMMA NoProcessTypes == /\ NoProcess \in Procs
                        /\ NoProcess.main = "none"
BY Zenon DEF NoProcess, Procs, Mains, Servers

-----------------------------------------------------------------------------
(* The process.                                                            *)

(* The service manager is told when the process ends.                      *)
LEMMA GoneEffect ==
    ASSUME Gone
    PROVE  proc' \in Procs /\ ~Alive' /\ scm' = "stopped"
BY NoProcessTypes, Zenon DEF Gone, Alive

(* A launch runs what the definition points to.                            *)
LEMMA LaunchEffect ==
    ASSUME HostTypes, Launch
    PROVE  /\ ~Alive /\ unit.defined
           /\ proc' \in Procs /\ Alive'
           /\ proc'.version = file[ExecPath]
           /\ scm' \in {"start_pending", "running"}
<1> DEFINE m == IF os = "windows" THEN "enter" ELSE "wait"
           s == IF os = "windows" THEN "none" ELSE "boot"
           v == file[ExecPath]
<1>1. v \in Nat /\ m \in Mains \ {"none"} /\ s \in Servers
  BY Paths, Zenon DEF HostTypes, Mains, Servers
<1>2. proc' = [NoProcess EXCEPT !.version = v, !.main = m, !.server = s]
  BY Zenon DEF Launch
<1> HIDE DEF m, s, v
<1>3. proc' \in Procs /\ proc'.main = m /\ proc'.version = v
  BY <1>1, <1>2, NoProcessTypes, Zenon DEF Procs
<1> QED BY <1>1, <1>3, Zenon DEF Launch, Alive, v

(* What a step of the process does to what the commands look at.           *)
ProcessEffect ==
    /\ UNCHANGED <<os, unit, file, access>>
    /\ proc' \in Procs
    /\ Alive' /\ Alive => proc'.version = proc.version /\ (proc.control => proc'.control)
    /\ Alive' /\ ~Alive => /\ proc'.version = file[ExecPath]
                           /\ unit.wanted /\ (os = "macos" => unit.loaded)

(* A step that leaves the life of the process and its version alone.       *)
LEMMA Lives ==
    ASSUME HostTypes, HostInv, proc' \in Procs, proc'.main = "none" <=> proc.main = "none",
           proc'.version = proc.version, proc.control => proc'.control,
           UNCHANGED <<os, unit, file, access>>, scm' = scm \/ Alive
    PROVE  ProcessEffect /\ HostInv'
BY Zenon DEF ProcessEffect, HostInv, Alive

(* A step of the server thread keeps the host invariant.                   *)
LEMMA ServerEffect ==
    ASSUME HostTypes, HostInv, ServerNext
    PROVE  ProcessEffect /\ HostInv'
<1>1. proc \in Procs
  BY Zenon DEF HostTypes
<1>2. /\ UNCHANGED <<os, unit, file, access, scm>>
      /\ \/ \E to \in Servers : Advance(to)
         \/ proc' = [proc EXCEPT !.server = "bind", !.stored = TRUE]
  BY Zenon DEF ServerNext, StoreToken, Bind, PrepareFails, BeginClose, Drained, Servers
<1>3. /\ proc' \in Procs /\ proc'.main = proc.main /\ proc'.version = proc.version
      /\ proc'.control = proc.control
  <2>1. CASE \E to \in Servers : Advance(to)
    BY <1>1, <2>1, Zenon DEF Advance, Procs
  <2>2. CASE proc' = [proc EXCEPT !.server = "bind", !.stored = TRUE]
    BY <1>1, <2>2, Zenon DEF Procs, Servers
  <2> QED BY <1>2, <2>1, <2>2, Zenon
<1> QED BY <1>2, <1>3, Lives, Zenon

(* So does a step of the process.                                          *)
LEMMA MainEffect ==
    ASSUME HostTypes, HostInv, ProcessNext
    PROVE  ProcessEffect /\ HostInv'
<1>1. proc \in Procs
  BY Zenon DEF HostTypes
<1>2. ASSUME Gone, Alive, UNCHANGED <<os, unit, file, access>>
      PROVE  ProcessEffect /\ HostInv'
  BY <1>2, GoneEffect, Zenon DEF ProcessEffect, HostInv
<1>3. CASE Relaunch
  BY <1>3, LaunchEffect, Zenon DEF Relaunch, ProcessEffect, HostInv
<1>4. CASE Crash \/ ServiceStopped \/ SignalReturns \/ HandlerReturns \/ Panic
  BY <1>2, <1>4, Zenon DEF Crash, ServiceStopped, SignalReturns, HandlerReturns, Panic, Alive
<1>5. CASE Hang
  <2>1. proc' = [proc EXCEPT !.hung = TRUE] /\ UNCHANGED <<os, unit, file, access, scm>>
    BY <1>5, Zenon DEF Hang
  <2> QED BY <1>1, <2>1, Lives, Zenon DEF Procs
<1>6. CASE EnterService
  <2>1. /\ proc' = [proc EXCEPT !.main = "wait", !.server = "boot"] /\ scm' = "running"
        /\ UNCHANGED <<os, unit, file, access>> /\ proc.main = "enter"
    BY <1>6, Zenon DEF EnterService
  <2> QED BY <1>1, <2>1, Lives, Zenon DEF Procs, Mains, Servers, Alive
<1>7. CASE Preshutdown
  <2>1. proc' = [proc EXCEPT !.control = TRUE] /\ UNCHANGED <<os, unit, file, access, scm>>
    BY <1>7, Zenon DEF Preshutdown, EventHandler
  <2> QED BY <1>1, <2>1, Lives, Zenon DEF Procs
<1>8. CASE ReportStopPending
  <2>1. /\ proc' = [proc EXCEPT !.main = "pending"] /\ scm' = "stop_pending"
        /\ UNCHANGED <<os, unit, file, access>> /\ proc.main = "wait"
    BY <1>8, Zenon DEF ReportStopPending
  <2> QED BY <1>1, <2>1, Lives, Zenon DEF Procs, Mains, Alive
<1>9. CASE CancelServer
  <2> DEFINE t == proc.cancelled \/ proc.stored
  <2>1. t \in BOOLEAN
    BY Zenon
  <2>2. /\ proc' = [proc EXCEPT !.main = "join", !.cancelled = t]
        /\ UNCHANGED <<os, unit, file, access, scm>> /\ proc.main = "pending"
    BY <1>9, Zenon DEF CancelServer
  <2> HIDE DEF t
  <2> QED BY <1>1, <2>1, <2>2, Lives, Zenon DEF Procs, Mains
<1>10. CASE DeadlinePassed
  <2>1. /\ proc' = [proc EXCEPT !.main = "quiet"]
        /\ UNCHANGED <<os, unit, file, access, scm>> /\ proc.main = "join"
    BY <1>10, Zenon DEF DeadlinePassed
  <2> QED BY <1>1, <2>1, Lives, Zenon DEF Procs, Mains
<1>11. CASE ReportFails
  <2>1. /\ proc' = [proc EXCEPT !.main = "failed"]
        /\ UNCHANGED <<os, unit, file, access>> /\ proc.main = "wait"
    BY <1>11, Zenon DEF ReportFails
  <2> QED BY <1>1, <2>1, Lives, Zenon DEF Procs, Mains, Alive
<1> QED BY <1>3, <1>4, <1>5, <1>6, <1>7, <1>8, <1>9, <1>10, <1>11, Zenon DEF ProcessNext

-----------------------------------------------------------------------------
(* One invocation.                                                         *)

Words == Steps \cup Commands
Workers == {"none", "calling", "waiting", "returned", "failed"}

Clients == [cmd : Commands \cup {"none"}, todo : Seq(Words), version : Nat \ {0},
            source : Nat \ {0}, elevated : BOOLEAN, worker : Workers,
            exit : Exits \cup {"none"}, alone : BOOLEAN]

CliTypes == cli \in [Clis -> Clients]

Ended(code) == [Idle EXCEPT !.exit = code]

(* A command that has not begun, and one that has ended.                   *)
LEMMA IdleTypes ==
    /\ Idle \in Clients
    /\ Idle.cmd = "none" /\ Idle.todo = <<>> /\ Idle.worker = "none"
    /\ \A code \in Exits : /\ Ended(code) \in Clients
                           /\ Ended(code).cmd = "none" /\ Ended(code).todo = <<>>
                           /\ Ended(code).worker = "none" /\ Ended(code).exit = code
<1>1. << >> \in Seq(Words)
  OBVIOUS
<1>2. Idle \in Clients /\ Idle.cmd = "none" /\ Idle.todo = <<>> /\ Idle.worker = "none"
  BY <1>1 DEF Idle, Clients, Workers
<1> QED BY <1>2, Zenon DEF Ended, Clients

(* How a step of invocation c may leave it: ended, with other steps to     *)
(* take, or with its worker elsewhere; the others are not touched.         *)
Ends(c, code) == cli' = [cli EXCEPT ![c] = Ended(code)]
Goes(c, steps) == cli' = [cli EXCEPT ![c] = [cli[c] EXCEPT !.todo = steps]]

(* A command goes on with its steps, or ends when there are none.          *)
LEMMA GoEffect ==
    ASSUME CliTypes, NEW c \in Clis, NEW steps, Go(c, steps)
    PROVE  IF steps = <<>> THEN Ends(c, "ok") ELSE Goes(c, steps)
BY Zenon DEF Go, Exit, Ends, Goes, Ended, CliTypes

(* The end of a command changes no other.                                  *)
LEMMA EndEffect ==
    ASSUME CliTypes, NEW c \in Clis, NEW code \in Exits, Ends(c, code)
    PROVE  /\ CliTypes'
           /\ cli'[c] = Ended(code)
           /\ \A d \in Clis : d # c => cli'[d] = cli[d]
BY IdleTypes, Zenon DEF CliTypes, Ends

(* Going on changes the list of steps only.                                *)
LEMMA GoesEffect ==
    ASSUME CliTypes, NEW c \in Clis, NEW steps \in Seq(Words), Goes(c, steps)
    PROVE  /\ CliTypes'
           /\ cli'[c] = [cli[c] EXCEPT !.todo = steps]
           /\ cli'[c].todo = steps /\ cli'[c].cmd = cli[c].cmd /\ cli'[c].exit = cli[c].exit
           /\ cli'[c].worker = cli[c].worker /\ cli'[c].source = cli[c].source
           /\ cli'[c].alone = cli[c].alone /\ cli'[c].version = cli[c].version
           /\ \A d \in Clis : d # c => cli'[d] = cli[d]
<1> DEFINE k == [cli[c] EXCEPT !.todo = steps]
<1>1. cli[c] \in Clients
  BY Zenon DEF CliTypes
<1>2. k \in Clients
  BY <1>1, Zenon DEF Clients
<1>3. /\ k.todo = steps /\ k.cmd = cli[c].cmd /\ k.exit = cli[c].exit
      /\ k.worker = cli[c].worker /\ k.source = cli[c].source /\ k.alone = cli[c].alone
      /\ k.version = cli[c].version
  BY <1>1, Zenon DEF Clients
<1>4. cli' = [cli EXCEPT ![c] = k]
  BY Zenon DEF Goes
<1> HIDE DEF k
<1>5. cli'[c] = k /\ cli' \in [Clis -> Clients] /\ \A d \in Clis : d # c => cli'[d] = cli[d]
  BY <1>2, <1>4, Zenon DEF CliTypes
<1> QED BY <1>3, <1>5, Zenon DEF CliTypes, k

-----------------------------------------------------------------------------
(* Sequences of steps.                                                     *)

(* The list without its first step.                                        *)
LEMMA TailWords ==
    ASSUME NEW t \in Seq(Words), t # <<>>
    PROVE  /\ Head(t) = t[1] /\ Head(t) \in Words /\ Tail(t) \in Seq(Words)
           /\ Len(t) \in Nat \ {0} /\ Len(Tail(t)) = Len(t) - 1
           /\ \A i \in 1..Len(Tail(t)) : Tail(t)[i] = t[i + 1]
OBVIOUS

(* Two lists in a row.                                                     *)
LEMMA ConcatWords ==
    ASSUME NEW s \in Seq(Words), NEW t \in Seq(Words)
    PROVE  /\ s \o t \in Seq(Words) /\ Len(s \o t) = Len(s) + Len(t)
           /\ \A i \in 1..Len(s \o t) :
                 (s \o t)[i] = IF i <= Len(s) THEN s[i] ELSE t[i - Len(s)]
OBVIOUS

(* The steps t come to "define" without doing w before.                    *)
Misses(t, w) == \E i \in 1..Len(t) : t[i] = "define" /\ \A j \in 1..(i - 1) : t[j] # w

(* Only the step just done goes missing.                                   *)
LEMMA MissTail ==
    ASSUME NEW t \in Seq(Words), NEW w, t # <<>>, Misses(Tail(t), w)
    PROVE  Misses(t, w) \/ Head(t) = w
<1>1. PICK i \in 1..Len(Tail(t)) :
         Tail(t)[i] = "define" /\ \A j \in 1..(i - 1) : Tail(t)[j] # w
  BY Zenon DEF Misses
<1>2. i + 1 \in 1..Len(t) /\ t[i + 1] = "define"
  BY <1>1, TailWords
<1>3. ASSUME Head(t) # w, NEW j \in 1..i
      PROVE  t[j] # w
  <2>1. CASE j = 1
    BY <1>3, <2>1, TailWords, Zenon
  <2>2. CASE j # 1
    <3>1. j - 1 \in 1..(i - 1) /\ j - 1 \in 1..Len(Tail(t)) /\ (j - 1) + 1 = j
      BY <1>1, <1>3, <2>2, TailWords
    <3>2. Tail(t)[j - 1] = t[(j - 1) + 1]
      BY <3>1, TailWords, Zenon
    <3> QED BY <1>1, <3>1, <3>2, Zenon
  <2> QED BY <2>1, <2>2, Zenon
<1>4. (i + 1) - 1 = i
  BY <1>1
<1> QED BY <1>2, <1>3, <1>4, Zenon DEF Misses

(* A step missing of two lists in a row is missing of one.                 *)
LEMMA MissConcat ==
    ASSUME NEW s \in Seq(Words), NEW t \in Seq(Words), NEW w, Misses(s \o t, w)
    PROVE  Misses(s, w) \/ Misses(t, w)
<1> DEFINE m == Len(s)
           u == s \o t
<1>1. PICK i \in 1..Len(u) : u[i] = "define" /\ \A j \in 1..(i - 1) : u[j] # w
  BY Zenon DEF Misses
<1>2. m \in Nat /\ Len(t) \in Nat /\ Len(u) = m + Len(t)
  BY ConcatWords
<1>3. \A j \in 1..Len(u) : u[j] = IF j <= m THEN s[j] ELSE t[j - m]
  BY ConcatWords, Zenon
<1> HIDE DEF m, u
<1>4. CASE i <= m
  <2>1. i \in 1..m /\ s[i] = "define" /\ \A j \in 1..(i - 1) : s[j] # w
    BY <1>1, <1>2, <1>3, <1>4
  <2> QED BY <2>1, Zenon DEF Misses, m
<1>5. CASE i > m
  <2>1. i - m \in 1..Len(t) /\ t[i - m] = "define"
    BY <1>1, <1>2, <1>3, <1>5
  <2>2. ASSUME NEW j \in 1..((i - m) - 1)
        PROVE  t[j] # w
    <3>1. j + m \in 1..(i - 1) /\ j + m \in 1..Len(u) /\ j + m > m /\ (j + m) - m = j
      BY <1>1, <1>2, <1>5, <2>2
    <3>2. u[j + m] = t[(j + m) - m]
      BY <1>2, <1>3, <3>1
    <3> QED BY <1>1, <3>1, <3>2, Zenon
  <2> QED BY <2>1, <2>2, Zenon DEF Misses
<1> QED BY <1>1, <1>2, <1>4, <1>5

(* No step is "define".                                                    *)
LEMMA MissNone ==
    ASSUME NEW t, NEW w, \A i \in 1..Len(t) : t[i] # "define"
    PROVE  ~Misses(t, w)
BY Zenon DEF Misses

(* The branch of a command is an exit code, or steps of which only those   *)
(* of install define the service, after the copy and the grant.            *)
StatusValues == {"NotInstalled", "Stopped", "Running"}

(* No branch of a status query skips the copy or the grant.                *)
LEMMA BranchSteps ==
    ASSUME NEW x \in DOMAIN Branches, NEW s \in StatusValues,
           Head(Branches[x][s]) \notin Exits
    PROVE  /\ Branches[x][s] \in Seq(Words)
           /\ Branches[x][s] # <<>>
           /\ ~Misses(Branches[x][s], "copy_exec") /\ ~Misses(Branches[x][s], "grant")
<1>1. x \in {"install", "uninstall", "start", "stop", "restart", "status"}
  BY Zenon DEF Branches
<1>2. CASE x = "install"
  <2>1. s = "NotInstalled" /\ Branches[x][s] = InstallSteps
    BY <1>2 DEF Branches, StatusValues, Exits
  <2>2. InstallSteps \in Seq(Words) /\ Len(InstallSteps) = 4 /\ InstallSteps # <<>>
    BY DEF InstallSteps, Words, Steps
  <2>3. /\ InstallSteps[1] = "copy_exec" /\ InstallSteps[2] = "grant"
        /\ InstallSteps[3] = "define" /\ InstallSteps[4] = "is_defined"
    BY Zenon DEF InstallSteps
  <2> QED BY <2>1, <2>2, <2>3 DEF Misses
<1>3. CASE x = "uninstall"
  <2>1. \/ Branches[x][s] = <<"undefine", "is_undefined">>
        \/ Branches[x][s] = <<"halt", "halted", "undefine", "is_undefined">>
    BY <1>3 DEF Branches, StatusValues, Exits
  <2>2. CASE Branches[x][s] = <<"undefine", "is_undefined">>
    BY <2>2, MissNone DEF Words, Steps
  <2>3. CASE Branches[x][s] = <<"halt", "halted", "undefine", "is_undefined">>
    BY <2>3, MissNone DEF Words, Steps
  <2> QED BY <2>1, <2>2, <2>3, Zenon
<1>4. CASE x = "start"
  <2>1. Branches[x][s] = <<"launch", "is_running">>
    BY <1>4 DEF Branches, StatusValues, Exits
  <2> QED BY <2>1, MissNone DEF Words, Steps
<1>5. CASE x = "stop"
  <2>1. Branches[x][s] = <<"stop_worker", "stop_wait", "is_stopped">>
    BY <1>5 DEF Branches, StatusValues, Exits
  <2> QED BY <2>1, MissNone DEF Words, Steps
<1>6. CASE x = "restart"
  <2>1. \/ Branches[x][s] = <<"launch", "is_running">>
        \/ Branches[x][s] = <<"halt", "halted", "launch", "is_running">>
    BY <1>6 DEF Branches, StatusValues, Exits
  <2>2. CASE Branches[x][s] = <<"launch", "is_running">>
    BY <2>2, MissNone DEF Words, Steps
  <2>3. CASE Branches[x][s] = <<"halt", "halted", "launch", "is_running">>
    BY <2>3, MissNone DEF Words, Steps
  <2> QED BY <2>1, <2>2, <2>3, Zenon
<1>7. CASE x = "status"
  <2>1. Branches[x][s] = <<"probe">>
    BY <1>7 DEF Branches, StatusValues, Exits, StatusSteps
  <2> QED BY <2>1, MissNone DEF Words, Steps
<1> QED BY <1>1, <1>2, <1>3, <1>4, <1>5, <1>6, <1>7, Zenon

-----------------------------------------------------------------------------
(* install: the definition comes after the file and the group.             *)

Placed == file[ExecPath] # 0
Granted == os # "windows" => access

InstallInv ==
    /\ unit.defined => Placed /\ Granted
    /\ \A c \in Clis : /\ Misses(cli[c].todo, "copy_exec") => Placed
                       /\ Misses(cli[c].todo, "grant") => Granted

(* A step of c that only changes c, and whose new list misses nothing that *)
(* the old one did not, unless the step itself has just done it.           *)
Only(c) == CliTypes' /\ \A d \in Clis : d # c => cli'[d] = cli[d]
KeepsOrder(c, w) == Misses(cli'[c].todo, w) => Misses(cli[c].todo, w)

(* An exit leaves no list behind that misses a step.                       *)
LEMMA ExitPlan ==
    ASSUME CliTypes, NEW c \in Clis, NEW code \in Exits, Exit(c, code)
    PROVE  Only(c) /\ \A w : KeepsOrder(c, w)
<1>1. Ends(c, code)
  BY Zenon DEF Exit, Ends, Ended
<1>2. Only(c) /\ cli'[c].todo = <<>>
  BY <1>1, EndEffect, IdleTypes, Zenon DEF Only
<1> QED BY <1>2 DEF KeepsOrder, Misses

(* Going on with other steps.                                              *)
LEMMA GoPlan ==
    ASSUME CliTypes, NEW c \in Clis, NEW steps \in Seq(Words), Go(c, steps)
    PROVE  /\ Only(c)
           /\ \A w : Misses(cli'[c].todo, w) => Misses(steps, w)
<1>1. CASE steps = <<>>
  <2>1. Ends(c, "ok")
    BY <1>1, GoEffect, Zenon
  <2>2. Only(c) /\ cli'[c].todo = <<>>
    BY <2>1, EndEffect, IdleTypes, Zenon DEF Only, Exits
  <2> QED BY <1>1, <2>2, Zenon
<1>2. CASE steps # <<>>
  <2>1. Goes(c, steps)
    BY <1>2, GoEffect, Zenon
  <2>2. Only(c) /\ cli'[c].todo = steps
    BY <2>1, GoesEffect, Zenon DEF Only
  <2> QED BY <2>2, Zenon
<1> QED BY <1>1, <1>2, Zenon

(* A step done is the only one that goes missing.                          *)
LEMMA StepPlan ==
    ASSUME CliTypes, NEW c \in Clis, cli[c].todo # <<>>, Step(c)
    PROVE  /\ Only(c)
           /\ \A w : Head(cli[c].todo) # w => KeepsOrder(c, w)
<1> DEFINE t == cli[c].todo
<1>1. t \in Seq(Words) /\ t # <<>>
  BY Zenon DEF CliTypes, Clients
<1>2. Tail(t) \in Seq(Words) /\ Go(c, Tail(t))
  BY <1>1, TailWords, Zenon DEF Step
<1> HIDE DEF t
<1>3. Only(c) /\ \A w : Misses(cli'[c].todo, w) => Misses(Tail(t), w)
  BY <1>2, GoPlan, Zenon
<1> QED BY <1>1, <1>3, MissTail, Zenon DEF KeepsOrder, t

(* What a step has to show to keep the installation invariant.             *)
LEMMA InstallKept ==
    ASSUME InstallInv, NEW c \in Clis, Only(c),
           Placed => Placed', Granted => Granted',
           unit'.defined => unit.defined \/ (Placed' /\ Granted'),
           KeepsOrder(c, "copy_exec") \/ Placed', KeepsOrder(c, "grant") \/ Granted'
    PROVE  InstallInv'
BY Zenon DEF InstallInv, Only, KeepsOrder

(* A step that changes no file, no group and no definition.                *)
LEMMA InstallUndisturbed ==
    ASSUME InstallInv, NEW c \in Clis, Only(c), UNCHANGED <<os, file, access>>,
           unit'.defined => unit.defined,
           KeepsOrder(c, "copy_exec"), KeepsOrder(c, "grant")
    PROVE  InstallInv'
<1>1. Placed' = Placed /\ Granted' = Granted
  BY Zenon DEF Placed, Granted, ExecPath
<1> QED BY <1>1, InstallKept, Zenon

(* The answers of the service manager.                                     *)
LEMMA StatusAnswers == Status \subseteq StatusValues
BY Zenon DEF Status, NormalizeStatus, ManagerStatus, StatusValues

(* The step a command is at is the first of its list.                      *)
LEMMA AtHead ==
    ASSUME NEW c \in Clis, NEW step, At(c, step)
    PROVE  cli[c].todo # <<>> /\ Head(cli[c].todo) = step
BY Zenon DEF At

(* The first query of a command, and the confirmation at its end.          *)
LEMMA QueryPlan ==
    ASSUME CliTypes, NEW c \in Clis, QueryStatus(c) \/ Confirm(c)
    PROVE  Only(c) /\ KeepsOrder(c, "copy_exec") /\ KeepsOrder(c, "grant")
<1> DEFINE t == cli[c].todo
<1>1. t \in Seq(Words) /\ t # <<>>
  BY Zenon DEF CliTypes, Clients, QueryStatus, Confirm
<1>2. CASE Confirm(c)
  <2>1. Head(t) \in DOMAIN Confirms /\ (Step(c) \/ Exit(c, "other"))
    BY <1>2, Zenon DEF Confirm
  <2>2. Head(t) # "copy_exec" /\ Head(t) # "grant"
    BY <2>1, Zenon DEF Confirms
  <2> QED BY <1>1, <2>1, <2>2, StepPlan, ExitPlan, Zenon DEF Exits
<1>3. CASE QueryStatus(c)
  <2>1. Head(t) \in DOMAIN Branches
    BY <1>3, Zenon DEF QueryStatus
  <2>2. PICK s \in Status : Follow(c, Branches[Head(t)][s])
    BY <1>3, Zenon DEF QueryStatus
  <2> DEFINE b == Branches[Head(t)][s]
  <2>3. CASE Head(b) \in Exits
    <3>1. Exit(c, Head(b))
      BY <2>2, <2>3, Zenon DEF Follow
    <3> QED BY <2>3, <3>1, ExitPlan, Zenon
  <2>4. CASE Head(b) \notin Exits
    <3>1. Go(c, b \o Tail(t))
      BY <2>2, <2>4, Zenon DEF Follow
    <3>2. /\ b \in Seq(Words) /\ ~Misses(b, "copy_exec") /\ ~Misses(b, "grant")
      BY <2>1, <2>2, <2>4, BranchSteps, StatusAnswers, Zenon
    <3>3. Tail(t) \in Seq(Words)
      BY <1>1, TailWords, Zenon
    <3>4. Head(t) # "copy_exec" /\ Head(t) # "grant"
      BY <2>1, Zenon DEF Branches
    <3> HIDE DEF b, t
    <3>5. b \o Tail(t) \in Seq(Words)
      BY <3>2, <3>3, ConcatWords, Zenon
    <3>6. Only(c) /\ \A w : Misses(cli'[c].todo, w) => Misses(b \o Tail(t), w)
      BY <3>1, <3>5, GoPlan, Zenon
    <3>7. /\ Misses(cli'[c].todo, "copy_exec") => Misses(t, "copy_exec")
          /\ Misses(cli'[c].todo, "grant") => Misses(t, "grant")
      BY <1>1, <3>2, <3>3, <3>4, <3>6, MissConcat, MissTail, Zenon
    <3> QED BY <3>6, <3>7, Zenon DEF KeepsOrder, t
  <2> QED BY <2>3, <2>4, Zenon
<1> QED BY <1>2, <1>3, Zenon

(* stop, with its worker.                                                  *)
LEMMA StopPlan ==
    ASSUME CliTypes, NEW c \in Clis, SpawnWorker(c) \/ StopStep(c)
    PROVE  Only(c) /\ KeepsOrder(c, "copy_exec") /\ KeepsOrder(c, "grant")
<1> DEFINE t == cli[c].todo
<1>1. t \in Seq(Words) /\ cli[c] \in Clients
  BY Zenon DEF CliTypes, Clients
<1>2. ASSUME NEW k \in Clients, cli' = [cli EXCEPT ![c] = k],
             \A w : w \in {"copy_exec", "grant"} /\ Misses(k.todo, w) => Misses(t, w)
      PROVE  Only(c) /\ KeepsOrder(c, "copy_exec") /\ KeepsOrder(c, "grant")
  <2>1. cli'[c] = k /\ Only(c)
    BY <1>2, Zenon DEF CliTypes, Only
  <2> QED BY <1>2, <2>1, Zenon DEF KeepsOrder
<1>3. CASE SpawnWorker(c)
  <2> DEFINE k == [cli[c] EXCEPT !.worker = "calling", !.todo = Tail(t)]
  <2>1. At(c, "stop_worker") /\ cli' = [cli EXCEPT ![c] = k]
    BY <1>1, <1>3, Zenon DEF SpawnWorker, CliTypes
  <2>2. t # <<>> /\ Head(t) = "stop_worker" /\ Tail(t) \in Seq(Words)
    BY <1>1, <2>1, AtHead, TailWords, Zenon
  <2>3. k \in Clients /\ k.todo = Tail(t)
    BY <1>1, <2>2, Zenon DEF Clients, Workers
  <2> HIDE DEF k
  <2> QED BY <1>1, <1>2, <2>1, <2>2, <2>3, MissTail, Zenon
<1>4. CASE WorkerCalls(c) \/ WorkerReturns(c)
  <2>1. PICK x \in Workers : cli' = [cli EXCEPT ![c] = [cli[c] EXCEPT !.worker = x]]
    BY <1>1, <1>4, Zenon DEF WorkerCalls, WorkerReturns, Workers, CliTypes
  <2> DEFINE k == [cli[c] EXCEPT !.worker = x]
  <2>2. k \in Clients /\ k.todo = t
    BY <1>1, <2>1, Zenon DEF Clients
  <2> HIDE DEF k
  <2> QED BY <1>2, <2>1, <2>2, Zenon DEF k
<1>5. CASE StopJoined(c) \/ StopDropped(c)
  <2>1. t # <<>> /\ Head(t) \in {"stop_wait", "stop_drop"} /\ (Step(c) \/ Exit(c, "other"))
    BY <1>5, Zenon DEF StopJoined, StopDropped, At
  <2> QED BY <2>1, StepPlan, ExitPlan DEF Exits
<1>6. CASE StopTimesOut(c)
  <2> DEFINE u == <<"stop_drop">>
  <2>1. t # <<>> /\ Head(t) = "stop_wait" /\ Go(c, u \o Tail(t))
    BY <1>6, Zenon DEF StopTimesOut, At
  <2>2. u \in Seq(Words) /\ \A w : ~Misses(u, w)
    BY MissNone DEF Words, Steps
  <2>3. Tail(t) \in Seq(Words)
    BY <1>1, <2>1, TailWords, Zenon
  <2> HIDE DEF u, t
  <2>4. u \o Tail(t) \in Seq(Words)
    BY <2>2, <2>3, ConcatWords, Zenon
  <2>5. Only(c) /\ \A w : Misses(cli'[c].todo, w) => Misses(u \o Tail(t), w)
    BY <2>1, <2>4, GoPlan, Zenon
  <2>6. \A w : w # "stop_wait" /\ Misses(cli'[c].todo, w) => Misses(t, w)
    BY <1>1, <2>1, <2>2, <2>3, <2>5, MissConcat, MissTail, Zenon
  <2> QED BY <2>5, <2>6, Zenon DEF KeepsOrder, t
<1> QED BY <1>3, <1>4, <1>5, <1>6, Zenon DEF StopStep

(* The steps that only end the command or go on to the next step.          *)
LEMMA PlainPlan ==
    ASSUME CliTypes, NEW c \in Clis, NEW step, At(c, step), step # "copy_exec", step # "grant",
           Step(c) \/ \E code \in Exits : Exit(c, code)
    PROVE  Only(c) /\ KeepsOrder(c, "copy_exec") /\ KeepsOrder(c, "grant")
BY AtHead, StepPlan, ExitPlan

(* The plan of an update copies nothing over the installed file and grants *)
(* nothing.                                                                *)
LEMMA UpdatePlan ==
    ASSUME CliTypes, NEW c \in Clis, Plan(c)
    PROVE  Only(c) /\ KeepsOrder(c, "copy_exec") /\ KeepsOrder(c, "grant")
<1>1. PICK steps : /\ Go(c, steps)
                   /\ steps \in {<<>>, <<"copy_data">>, <<"stop", "copy_data", "start">>}
  BY Zenon DEF Plan, PlanUpdate, UpdateSteps
<1>2. steps \in Seq(Words) /\ \A w : ~Misses(steps, w)
  <2>1. CASE steps = <<>>
    BY <2>1, MissNone
  <2>2. CASE steps = <<"copy_data">>
    BY <2>2, MissNone DEF Words, Steps
  <2>3. CASE steps = <<"stop", "copy_data", "start">>
    BY <2>3, MissNone DEF Words, Steps, Commands
  <2> QED BY <1>1, <2>1, <2>2, <2>3, Zenon
<1> QED BY <1>1, <1>2, GoPlan, Zenon DEF KeepsOrder

(* Every step of a command keeps the installation invariant.               *)
LEMMA InstallStep ==
    ASSUME HostTypes, CliTypes, InstallInv, NEW c \in Clis, CliStep(c)
    PROVE  InstallInv' /\ Only(c)
<1> USE DEF HostTypes
<1>0. cli[c] \in Clients /\ cli[c].version # 0 /\ cli[c].source \in Nat \ {0}
  BY Zenon DEF CliTypes, Clients
<1>1. CASE QueryStatus(c) \/ Confirm(c)
  BY <1>1, QueryPlan, InstallUndisturbed, Zenon DEF QueryStatus, Confirm, Keep, hostVars
<1>2. CASE SpawnWorker(c) \/ StopStep(c)
  <2>1. UNCHANGED <<os, file, access>> /\ (unit'.defined => unit.defined)
    BY <1>2, Zenon DEF SpawnWorker, StopStep, WorkerCalls, WorkerReturns, StopJoined, StopTimesOut,
                StopDropped, StopRequested, Keep, hostVars, Units
  <2> QED BY <1>2, <2>1, StopPlan, InstallUndisturbed, Zenon
<1>3. CASE Plan(c)
  BY <1>3, UpdatePlan, InstallUndisturbed, Zenon DEF Plan, Keep, hostVars
<1>4. CASE Probe(c) \/ Call(c) \/ Halted(c)
  <2>1. PICK step \in {"probe", "call", "halted"} :
          At(c, step) /\ (Step(c) \/ \E code \in Exits : Exit(c, code))
    BY <1>4, Zenon DEF Probe, Call, Halted, Exits
  <2>2. UNCHANGED <<os, file, access, unit>>
    BY <1>4, Zenon DEF Probe, Call, Halted, Keep, hostVars
  <2> QED BY <2>1, <2>2, PlainPlan, InstallUndisturbed, Zenon
<1>5. CASE Undefine(c) \/ Halt(c) \/ StartService(c)
  <2>1. PICK step \in {"undefine", "halt", "launch"} :
          At(c, step) /\ (Step(c) \/ \E code \in Exits : Exit(c, code))
    BY <1>5, Zenon DEF Undefine, Halt, StartService, Exits
  <2>2. UNCHANGED <<os, file, access>> /\ (unit'.defined => unit.defined)
    BY <1>5, Zenon DEF Undefine, Halt, StartService, StopRequested, Units
  <2> QED BY <2>1, <2>2, PlainPlan, InstallUndisturbed, Zenon
<1>6. CASE Copy(c)
  <2> DEFINE p == Target(c)
             v == CopiedVersion(c)
  <2>1. /\ file' = [file EXCEPT ![p] = v] /\ Step(c) /\ UNCHANGED <<os, unit, access>>
        /\ At(c, "copy_exec") \/ At(c, "copy_data")
    BY <1>6, Zenon DEF Copy, Copying
  <2>2. p \in {"exec", "data"} /\ v # 0 /\ (At(c, "copy_exec") => p = ExecPath)
    BY <1>0, Paths, Zenon DEF Target, CopiedVersion
  <2> HIDE DEF p, v
  <2>3. ExecPath' = ExecPath /\ ExecPath \in {"exec", "data"}
    BY <2>1, Paths, Zenon DEF ExecPath
  <2>4. file'[ExecPath] = IF p = ExecPath THEN v ELSE file[ExecPath]
    BY <2>1, <2>2, <2>3, Zenon
  <2>5. (Placed => Placed') /\ (At(c, "copy_exec") => Placed') /\ Granted' = Granted
    BY <2>1, <2>2, <2>3, <2>4, Zenon DEF Placed, Granted
  <2>6. Only(c) /\ KeepsOrder(c, "grant") /\ (KeepsOrder(c, "copy_exec") \/ Placed')
    BY <2>1, <2>5, AtHead, StepPlan
  <2> QED BY <2>1, <2>5, <2>6, InstallKept, Zenon
<1>7. CASE CopySkipped(c)
  <2>1. /\ At(c, "copy_exec") /\ file[ExecPath] = cli[c].version /\ Step(c)
        /\ UNCHANGED <<os, unit, access, file>>
    BY <1>7, Zenon DEF CopySkipped, Keep, hostVars
  <2>2. Placed' = Placed /\ Granted' = Granted /\ Placed'
    BY <1>0, <2>1, Zenon DEF Placed, Granted, ExecPath
  <2>3. Only(c) /\ KeepsOrder(c, "grant")
    BY <2>1, AtHead, StepPlan
  <2> QED BY <2>1, <2>2, <2>3, InstallKept, Zenon
<1>8. CASE CopyRefused(c)
  <2>1. Exit(c, "other") /\ UNCHANGED <<os, unit, access, file>>
    BY <1>8, Zenon DEF CopyRefused, Keep, hostVars
  <2> QED BY <2>1, ExitPlan, InstallUndisturbed, Zenon DEF Exits
<1>9. CASE CopyTorn(c)
  <2>1. Exit(c, "other") /\ UNCHANGED <<os, unit, access>> /\ file' = [file EXCEPT ![Target(c)] = Torn]
    BY <1>9, Zenon DEF CopyTorn
  <2>2. Target(c) \in {"exec", "data"} /\ ExecPath' = ExecPath /\ ExecPath \in {"exec", "data"}
    BY <2>1, Paths, Zenon DEF Target, ExecPath
  <2>3. file'[ExecPath] \in {file[ExecPath], Torn} /\ Torn # 0
    BY <2>1, <2>2 DEF Torn
  <2>4. (Placed => Placed') /\ Granted' = Granted
    BY <2>1, <2>2, <2>3, Zenon DEF Placed, Granted
  <2> QED BY <2>1, <2>4, ExitPlan, InstallKept, Zenon DEF Exits
<1>10. CASE Grant(c)
  <2>1. At(c, "grant") /\ access' = TRUE /\ Step(c) /\ UNCHANGED <<os, unit, file>>
    BY <1>10, Zenon DEF Grant
  <2>2. Placed' = Placed /\ Granted'
    BY <2>1, Zenon DEF Placed, Granted, ExecPath
  <2>3. Only(c) /\ KeepsOrder(c, "copy_exec")
    BY <2>1, AtHead, StepPlan
  <2> QED BY <2>1, <2>2, <2>3, InstallKept, Zenon
<1>11. CASE GrantFails(c)
  <2>1. access' = (access /\ os # "windows") /\ Exit(c, "other") /\ UNCHANGED <<os, unit, file>>
    BY <1>11, Zenon DEF GrantFails
  <2>2. Placed' = Placed /\ (Granted => Granted')
    BY <2>1, Zenon DEF Placed, Granted, ExecPath
  <2> QED BY <2>1, <2>2, ExitPlan, InstallKept, Zenon DEF Exits
<1>12. CASE Define(c)
  <2> DEFINE t == cli[c].todo
  <2>1. /\ At(c, "define") /\ UNCHANGED <<os, file, access>>
        /\ (Exit(c, "other") /\ unit' = unit) \/ Step(c)
    BY <1>12, Zenon DEF Define
  <2>2. t \in Seq(Words) /\ t # <<>> /\ Head(t) = "define"
    BY <1>0, <2>1, AtHead, Zenon DEF Clients
  <2>3. Misses(t, "copy_exec") /\ Misses(t, "grant")
    <3>1. 1 \in 1..Len(t) /\ t[1] = "define" /\ 1..(1 - 1) = {}
      BY <2>2, TailWords
    <3> QED BY <3>1, Zenon DEF Misses
  <2>4. Placed /\ Granted
    BY <2>3, Zenon DEF InstallInv
  <2>5. Placed' = Placed /\ Granted' = Granted
    BY <2>1, Zenon DEF Placed, Granted, ExecPath
  <2>6. Only(c)
    BY <2>1, <2>2, StepPlan, ExitPlan, Zenon DEF Exits
  <2> QED BY <2>4, <2>5, <2>6, InstallKept, Zenon
<1> QED BY <1>1, <1>2, <1>3, <1>4, <1>5, <1>6, <1>7, <1>8, <1>9, <1>10, <1>11, <1>12, Zenon DEF CliStep

-----------------------------------------------------------------------------
(* A new invocation.                                                       *)

(* The list a command begins with.                                         *)
LEMMA FirstSteps ==
    ASSUME NEW cmd \in Commands
    PROVE  /\ FirstStep(cmd) \in {<<"plan">>, <<"call">>, <<cmd>>}
           /\ FirstStep(cmd) \in Seq(Words)
           /\ \A w : ~Misses(FirstStep(cmd), w)
<1>1. CASE cmd \in {"update", "update_check"}
  <2>1. FirstStep(cmd) = <<"plan">>
    BY <1>1, Zenon DEF FirstStep
  <2> QED BY <2>1, MissNone DEF Words, Steps
<1>2. CASE cmd = "rpc"
  <2>1. FirstStep(cmd) = <<"call">>
    BY <1>2, Zenon DEF FirstStep
  <2> QED BY <2>1, MissNone DEF Words, Steps
<1>3. CASE cmd \notin {"update", "update_check", "rpc"}
  <2>1. FirstStep(cmd) = <<cmd>> /\ cmd # "define"
    BY <1>3, Zenon DEF FirstStep, Commands
  <2> QED BY <2>1, MissNone DEF Words
<1> QED BY <1>1, <1>2, <1>3, Zenon

(* The record of the new invocation, and what it does to the others.       *)
Begun(c, cmd, v, src, e, alone) ==
    [Idle EXCEPT !.cmd = cmd, !.version = v, !.source = src, !.elevated = e,
                 !.alone = alone, !.todo = FirstStep(cmd)]

Begins(c, cmd) ==
    /\ \/ cli'[c] = Ended("denied")
       \/ /\ cli'[c].cmd = cmd /\ cli'[c].todo = FirstStep(cmd)
          /\ cli'[c].worker = "none" /\ cli'[c].exit = "none"
          /\ cli'[c].version \in Versions /\ cli'[c].source \in Versions
          /\ cli'[c].alone => \A d \in Clis \ {c} : ~Mutating(d)
    /\ \A d \in Clis : d # c =>
         /\ cli'[d].todo = cli[d].todo /\ cli'[d].cmd = cli[d].cmd
         /\ cli'[d].worker = cli[d].worker /\ cli'[d].exit = cli[d].exit
         /\ cli'[d].source = cli[d].source /\ cli'[d].version = cli[d].version
         /\ cli'[d].alone => cli[d].alone /\ cmd \in Unprivileged

(* A command begins, or is denied.                                         *)
LEMMA BeginEffect ==
    ASSUME CliTypes, NEW c \in Clis, Begin(c)
    PROVE  /\ CliTypes' /\ ~Busy(c) /\ UNCHANGED hostVars
           /\ \E cmd \in Commands : Begins(c, cmd)
<1>1. PICK cmd \in Commands, v, src \in Versions, e \in BOOLEAN :
        /\ Invocation(cmd, v, src)
        /\ (e => cmd \notin Unprivileged)
        /\ cli' = [d \in Clis |->
             IF d # c THEN [cli[d] EXCEPT !.alone = @ /\ cmd \in Unprivileged]
             ELSE IF ~Elevated(cmd, e) THEN [Idle EXCEPT !.exit = "denied"]
             ELSE [Idle EXCEPT !.cmd = cmd, !.version = v, !.source = src, !.elevated = e,
                     !.alone = ~\E o \in Clis \ {c} : Mutating(o), !.todo = FirstStep(cmd)]]
  BY Zenon DEF Begin
<1> DEFINE al == ~\E o \in Clis \ {c} : Mutating(o)
           k == Begun(c, cmd, v, src, e, al)
<1>2. cli'[c] = IF ~Elevated(cmd, e) THEN Ended("denied") ELSE k
  BY <1>1, Zenon DEF Ended, Begun
<1>3. \A d \in Clis : d # c =>
         cli'[d] = [cli[d] EXCEPT !.alone = cli[d].alone /\ cmd \in Unprivileged]
  BY <1>1, Zenon DEF CliTypes, Clients
<1>4. al \in BOOLEAN /\ v \in Nat \ {0} /\ src \in Nat \ {0} /\ FirstStep(cmd) \in Seq(Words)
  BY <1>1, FirstSteps, Zenon
<1>5. k \in Clients /\ k.cmd = cmd /\ k.todo = FirstStep(cmd) /\ k.worker = "none"
      /\ k.exit = "none" /\ k.alone = al /\ k.version = v /\ k.source = src
  <2> HIDE DEF al
  <2>1. Idle \in Clients /\ Idle.worker = "none" /\ Idle.exit = "none"
    BY IdleTypes, Zenon DEF Idle
  <2> QED BY <1>1, <1>4, <2>1, Zenon DEF Clients, Begun
<1> HIDE DEF k
<1>6. ASSUME NEW d \in Clis, d # c
      PROVE  /\ cli'[d] \in Clients
             /\ cli'[d].todo = cli[d].todo /\ cli'[d].cmd = cli[d].cmd
             /\ cli'[d].worker = cli[d].worker /\ cli'[d].exit = cli[d].exit
             /\ cli'[d].source = cli[d].source /\ cli'[d].version = cli[d].version
             /\ cli'[d].alone => cli[d].alone /\ cmd \in Unprivileged
  <2> DEFINE x == cli[d].alone /\ cmd \in Unprivileged
  <2>1. x \in BOOLEAN /\ cli'[d] = [cli[d] EXCEPT !.alone = x] /\ cli[d] \in Clients
    BY <1>3, <1>6, Zenon DEF CliTypes
  <2> HIDE DEF x
  <2>2. cli'[d] \in Clients /\ cli'[d].alone = x
        /\ cli'[d].todo = cli[d].todo /\ cli'[d].cmd = cli[d].cmd
        /\ cli'[d].worker = cli[d].worker /\ cli'[d].exit = cli[d].exit
        /\ cli'[d].source = cli[d].source /\ cli'[d].version = cli[d].version
    BY <2>1, Zenon DEF Clients
  <2> QED BY <2>2, Zenon DEF x
<1>7. CliTypes'
  <2>1. \A d \in Clis : cli'[d] \in Clients
    BY <1>2, <1>5, <1>6, IdleTypes DEF Exits
  <2>2. DOMAIN cli' = Clis /\ cli' = [d \in Clis |-> cli'[d]]
    BY <1>1, Zenon
  <2> QED BY <2>1, <2>2, Zenon DEF CliTypes
<1>8. ~Busy(c) /\ UNCHANGED hostVars
  BY Zenon DEF Begin
<1>9. \/ cli'[c] = Ended("denied")
      \/ /\ cli'[c].cmd = cmd /\ cli'[c].todo = FirstStep(cmd)
         /\ cli'[c].worker = "none" /\ cli'[c].exit = "none"
         /\ cli'[c].version \in Versions /\ cli'[c].source \in Versions
         /\ cli'[c].alone => \A d \in Clis \ {c} : ~Mutating(d)
  BY <1>1, <1>2, <1>5, Zenon
<1> HIDE DEF al
<1>10. Begins(c, cmd)
  BY <1>6, <1>9, Zenon DEF Begins
<1> QED BY <1>1, <1>7, <1>8, <1>10, Zenon

-----------------------------------------------------------------------------
(* What the commands do to the service.                                    *)

(* A stop request leaves the process alive and unwanted.                   *)
LEMMA StopEffect ==
    ASSUME HostTypes, HostInv, StopRequested, UNCHANGED <<os, file, access, scm>>
    PROVE  /\ HostTypes' /\ HostInv' /\ (Alive' <=> Alive) /\ proc'.version = proc.version
           /\ ~unit'.wanted /\ ~unit'.loaded /\ unit'.defined = unit.defined
           /\ Alive => proc'.control
<1>1. unit \in Units /\ proc \in Procs
  BY Zenon DEF HostTypes
<1>2. unit' \in Units /\ ~unit'.wanted /\ ~unit'.loaded /\ unit'.defined = unit.defined
  BY <1>1, Zenon DEF StopRequested, Units
<1>3. /\ proc' \in Procs /\ proc'.main = proc.main /\ proc'.version = proc.version
      /\ Alive => proc'.control
  BY <1>1, Zenon DEF StopRequested, Procs
<1> QED BY <1>2, <1>3, Zenon DEF HostTypes, HostInv, Alive

(* A kill ends the process, or misses it.                                  *)
LEMMA KillEffect ==
    ASSUME HostTypes, HostInv, KillService \/ KillNothing, UNCHANGED <<os, unit, file, access>>
    PROVE  HostTypes' /\ HostInv' /\ (~Alive' \/ proc' = proc)
<1>1. CASE Gone
  BY <1>1, GoneEffect, Zenon DEF HostTypes, HostInv
<1>2. CASE UNCHANGED <<proc, scm>>
  BY <1>2, Zenon DEF HostTypes, HostInv, Alive
<1> QED BY <1>1, <1>2, Zenon DEF KillService, KillNothing

(* A start launches the process.                                           *)
LEMMA StartEffect ==
    ASSUME HostTypes, HostInv, Launch, UNCHANGED <<os, file, access>>,
           unit' = [unit EXCEPT !.wanted = TRUE, !.loaded = (os = "macos")]
    PROVE  HostTypes' /\ HostInv' /\ unit'.defined = unit.defined
<1>1. (os = "macos") \in BOOLEAN /\ unit \in Units
  BY Zenon DEF HostTypes
<1>2. unit' \in Units /\ unit'.defined = unit.defined
  BY <1>1, Zenon DEF Units
<1> QED BY <1>2, LaunchEffect, Zenon DEF HostTypes, HostInv

(* The commands that only look.                                            *)
Looks(c) ==
    \/ QueryStatus(c) \/ Confirm(c) \/ CopySkipped(c) \/ CopyRefused(c) \/ Halted(c)
    \/ SpawnWorker(c) \/ WorkerReturns(c) \/ StopJoined(c) \/ StopDropped(c)
    \/ Plan(c) \/ Probe(c) \/ Call(c)

(* A step that only looks changes nothing of the host.                     *)
LEMMA LooksOnly == ASSUME NEW c, Looks(c) PROVE UNCHANGED hostVars
BY Zenon DEF Looks, QueryStatus, Confirm, CopySkipped, CopyRefused, Halted, SpawnWorker, WorkerReturns,
       StopJoined, StopDropped, Plan, Probe, Call, Keep

(* The host invariant depends on the host only.                            *)
LEMMA HostUnchanged ==
    ASSUME HostTypes, HostInv, UNCHANGED hostVars
    PROVE  HostTypes' /\ HostInv'
BY Zenon DEF HostTypes, HostInv, hostVars, Alive

(* Every step of a command keeps the host invariant.                       *)
LEMMA CliHost ==
    ASSUME HostTypes, HostInv, CliTypes, NEW c \in Clis, CliStep(c)
    PROVE  HostTypes' /\ HostInv' /\ os' = os
<1>1. /\ unit \in Units /\ proc \in Procs /\ file \in [{"exec", "data"} -> Nat]
      /\ access \in BOOLEAN /\ cli[c] \in Clients
  BY Zenon DEF HostTypes, CliTypes
<1>2. CASE Looks(c)
  BY <1>2, LooksOnly, HostUnchanged, Zenon DEF hostVars
<1>3. ASSUME UNCHANGED <<os, proc, scm>>, unit' \in Units, access' \in BOOLEAN,
             file' \in [{"exec", "data"} -> Nat]
      PROVE  HostTypes' /\ HostInv' /\ os' = os
  BY <1>1, <1>3, Zenon DEF HostTypes, HostInv, Alive
<1>4. CASE Copy(c) \/ CopyTorn(c)
  <2>1. CopiedVersion(c) \in Nat /\ Torn \in Nat
    BY <1>1, Zenon DEF CopiedVersion, Torn, Clients
  <2>2. \/ file' = [file EXCEPT ![Target(c)] = CopiedVersion(c)]
        \/ file' = [file EXCEPT ![Target(c)] = Torn]
    BY <1>4, Zenon DEF Copy, CopyTorn
  <2>3. UNCHANGED <<os, unit, access, proc, scm>>
    BY <1>4, Zenon DEF Copy, CopyTorn
  <2> QED BY <1>1, <1>3, <2>1, <2>2, <2>3, Zenon
<1>5. CASE Grant(c) \/ GrantFails(c)
  <2>1. UNCHANGED <<os, unit, file, proc, scm>> /\ access' \in BOOLEAN
    BY <1>5, Zenon DEF Grant, GrantFails
  <2> QED BY <1>1, <1>3, <2>1, Zenon
<1>6. CASE Define(c) \/ Undefine(c)
  <2>1. UNCHANGED <<os, access, file, proc, scm>>
    BY <1>6, Zenon DEF Define, Undefine
  <2>2. \/ unit' = unit
        \/ unit' = [defined |-> FALSE, loaded |-> FALSE, wanted |-> FALSE]
        \/ \E l \in BOOLEAN : unit' = [defined |-> TRUE, loaded |-> l, wanted |-> l]
    BY <1>6, Zenon DEF Define, Undefine
  <2>3. unit' \in Units
    <3>1. CASE unit' = unit
      BY <1>1, <3>1, Zenon
    <3>2. CASE unit' = [defined |-> FALSE, loaded |-> FALSE, wanted |-> FALSE]
      BY <3>2, Zenon DEF Units
    <3>3. CASE \E l \in BOOLEAN : unit' = [defined |-> TRUE, loaded |-> l, wanted |-> l]
      BY <3>3 DEF Units
    <3> QED BY <2>2, <3>1, <3>2, <3>3, Zenon
  <2> QED BY <1>1, <1>3, <2>1, <2>3, Zenon
<1>7. CASE Halt(c) \/ WorkerCalls(c)
  <2>1. /\ UNCHANGED <<os, file, access, scm>>
        /\ StopRequested \/ UNCHANGED <<unit, proc>>
    BY <1>7, Zenon DEF Halt, WorkerCalls
  <2> QED BY <1>1, <1>3, <2>1, StopEffect, Zenon
<1>8. CASE StartService(c)
  <2>1. /\ UNCHANGED <<os, file, access>>
        /\ \/ Launch /\ unit' = [unit EXCEPT !.wanted = TRUE, !.loaded = (os = "macos")]
           \/ UNCHANGED <<unit, proc, scm>>
    BY <1>8, Zenon DEF StartService
  <2> QED BY <1>1, <1>3, <2>1, StartEffect, Zenon
<1>9. CASE StopTimesOut(c)
  BY <1>9, KillEffect, Zenon DEF StopTimesOut
<1> QED BY <1>2, <1>4, <1>5, <1>6, <1>7, <1>8, <1>9, Zenon DEF CliStep, StopStep, Looks

-----------------------------------------------------------------------------
(* The invariant so far.                                                   *)

BaseInv == HostTypes /\ HostInv /\ CliTypes /\ InstallInv

(* Nothing is installed and nothing runs at first.                         *)
LEMMA BaseInit == Init => BaseInv
<1> SUFFICES ASSUME Init PROVE BaseInv
  BY Zenon
<1>1. PICK installed \in BOOLEAN, boot \in BOOLEAN :
        /\ unit = [defined |-> installed, loaded |-> boot /\ os = "macos", wanted |-> boot]
        /\ file = [p \in {"exec", "data"} |-> IF installed /\ p = ExecPath THEN 1 ELSE 0]
        /\ access = installed
  BY Zenon DEF Init, HostInit
<1>2. proc = NoProcess /\ scm = "stopped" /\ cli = [c \in Clis |-> Idle]
  BY Zenon DEF Init, HostInit
<1>3. unit \in Units /\ unit.defined = installed
  <2> DEFINE l == boot /\ os = "macos"
  <2>1. l \in BOOLEAN /\ unit = [defined |-> installed, loaded |-> l, wanted |-> boot]
    BY <1>1, Zenon
  <2> HIDE DEF l
  <2> QED BY <1>1, <2>1 DEF Units
<1>4. HostTypes /\ HostInv
  BY <1>1, <1>2, <1>3, NoProcessTypes, Zenon DEF HostTypes, HostInv, Alive
<1>5. CliTypes /\ \A c \in Clis : cli[c].todo = <<>>
  BY <1>2, IdleTypes, Zenon DEF CliTypes
<1>6. InstallInv
  <2>1. installed => Placed /\ Granted
    BY <1>1, Paths DEF Placed, Granted
  <2> QED BY <1>3, <1>5, <2>1 DEF InstallInv, Misses
<1> QED BY <1>4, <1>5, <1>6, Zenon DEF BaseInv

(* The invariant is inductive.                                             *)
LEMMA BaseStep == ASSUME BaseInv, [Next]_vars PROVE BaseInv'
<1>1. HostTypes /\ HostInv /\ CliTypes /\ InstallInv
  BY Zenon DEF BaseInv
<1>2. ASSUME UNCHANGED <<os, unit, file, access>>, CliTypes',
             \A d \in Clis : \A w : Misses(cli'[d].todo, w) => Misses(cli[d].todo, w)
      PROVE  InstallInv'
  <2>1. Placed' = Placed /\ Granted' = Granted
    BY <1>2, Zenon DEF Placed, Granted, ExecPath
  <2> QED BY <1>1, <1>2, <2>1, Zenon DEF InstallInv
<1>3. CASE HostNext /\ UNCHANGED cliVars
  <2>1. ProcessEffect /\ HostInv'
    BY <1>1, <1>3, ServerEffect, MainEffect, Zenon DEF HostNext
  <2>2. HostTypes' /\ CliTypes' /\ cli' = cli
    BY <1>1, <1>3, <2>1, Zenon DEF ProcessEffect, HostTypes, CliTypes, cliVars
  <2> QED BY <1>2, <2>1, <2>2, Zenon DEF ProcessEffect, BaseInv
<1>4. ASSUME NEW c \in Clis, Begin(c)
      PROVE  BaseInv'
  <2>1. CliTypes' /\ UNCHANGED hostVars
    BY <1>1, <1>4, BeginEffect, Zenon
  <2>2. \A d \in Clis : \A w : Misses(cli'[d].todo, w) => Misses(cli[d].todo, w)
    <3>1. \A d \in Clis : d # c => cli'[d].todo = cli[d].todo
      BY <1>1, <1>4, BeginEffect, Zenon DEF Begins
    <3>2. cli'[c].todo = <<>> \/ \E cmd \in Commands : cli'[c].todo = FirstStep(cmd)
      BY <1>1, <1>4, BeginEffect, IdleTypes, Zenon DEF Exits, Begins
    <3>3. \A w : ~Misses(<<>>, w)
      BY MissNone
    <3>4. \A w : ~Misses(cli'[c].todo, w)
      BY <3>2, <3>3, FirstSteps, Zenon
    <3> QED BY <3>1, <3>4, Zenon
  <2> QED BY <1>1, <1>2, <2>1, <2>2, HostUnchanged, Zenon DEF hostVars, BaseInv
<1>5. ASSUME NEW c \in Clis, CliStep(c)
      PROVE  BaseInv'
  BY <1>1, <1>5, InstallStep, CliHost, Zenon DEF BaseInv, Only
<1>6. CASE UNCHANGED vars
  <2>1. UNCHANGED hostVars /\ cli' = cli
    BY <1>6, Zenon DEF vars, cliVars
  <2>2. CliTypes'
    BY <1>1, <2>1, Zenon DEF CliTypes
  <2> QED BY <1>1, <1>2, <2>1, <2>2, HostUnchanged, Zenon DEF hostVars, BaseInv
<1> QED BY <1>3, <1>4, <1>5, <1>6, Zenon DEF Next

(* The host and the installation stay in the states BaseInv describes.     *)
LEMMA BaseInvariant == Spec => []BaseInv
<1> QED BY BaseInit, BaseStep, PTL DEF Spec

-----------------------------------------------------------------------------
(* The steps an action of invocation c is the head of.                     *)

(* The action of a command, by the first step of its list.                 *)
LEMMA Acts ==
    ASSUME NEW c \in Clis, CliStep(c), NEW h, cli[c].todo # <<>> => Head(cli[c].todo) = h
    PROVE  \/ WorkerCalls(c) \/ WorkerReturns(c)
           \/ /\ Busy(c) /\ cli[c].todo # <<>>
              /\ \/ h \in DOMAIN Branches /\ QueryStatus(c)
                 \/ h \in DOMAIN Confirms /\ Confirm(c)
                 \/ h \in {"copy_exec", "copy_data"}
                      /\ (Copy(c) \/ CopySkipped(c) \/ CopyRefused(c) \/ CopyTorn(c))
                 \/ h = "grant" /\ (Grant(c) \/ GrantFails(c))
                 \/ h = "define" /\ Define(c)
                 \/ h = "undefine" /\ Undefine(c)
                 \/ h = "halt" /\ Halt(c)
                 \/ h = "halted" /\ Halted(c)
                 \/ h = "launch" /\ StartService(c)
                 \/ h = "stop_worker" /\ SpawnWorker(c)
                 \/ h = "stop_wait" /\ (StopJoined(c) \/ StopTimesOut(c))
                 \/ h = "stop_drop" /\ StopDropped(c)
                 \/ h = "plan" /\ Plan(c)
                 \/ h = "probe" /\ Probe(c)
                 \/ h = "call" /\ Call(c)
<1>1. /\ QueryStatus(c) => Busy(c) /\ cli[c].todo # <<>> /\ Head(cli[c].todo) \in DOMAIN Branches
      /\ Confirm(c) => Busy(c) /\ cli[c].todo # <<>> /\ Head(cli[c].todo) \in DOMAIN Confirms
  BY Zenon DEF QueryStatus, Confirm
<1>2. /\ Copy(c) \/ CopySkipped(c) \/ CopyRefused(c) \/ CopyTorn(c)
            => At(c, "copy_exec") \/ At(c, "copy_data")
      /\ Grant(c) \/ GrantFails(c) => At(c, "grant")
  BY Zenon DEF Copy, CopySkipped, CopyRefused, CopyTorn, Copying, Grant, GrantFails
<1>3. /\ Define(c) => At(c, "define")
      /\ Undefine(c) => At(c, "undefine")
      /\ Halt(c) => At(c, "halt")
      /\ Halted(c) => At(c, "halted")
  BY Zenon DEF Define, Undefine, Halt, Halted
<1>4. /\ StartService(c) => At(c, "launch")
      /\ SpawnWorker(c) => At(c, "stop_worker")
      /\ StopJoined(c) \/ StopTimesOut(c) => At(c, "stop_wait")
      /\ StopDropped(c) => At(c, "stop_drop")
  BY Zenon DEF StartService, SpawnWorker, StopJoined, StopTimesOut, StopDropped
<1>5. /\ Plan(c) => At(c, "plan")
      /\ Probe(c) => At(c, "probe")
      /\ Call(c) => At(c, "call")
  BY Zenon DEF Plan, Probe, Call
<1> QED BY <1>1, <1>2, <1>3, <1>4, <1>5, Zenon DEF CliStep, StopStep, At

-----------------------------------------------------------------------------
(* The commands that only read: what they have left to do, and that they   *)
(* change nothing of the service.                                          *)

ReadPlan(k) ==
    /\ k.cmd = "status" => k.todo = <<"status">> \/ k.todo = <<"probe">>
    /\ k.cmd = "rpc" => k.todo = <<"call">>
    /\ k.cmd = "update_check" => k.todo = <<"plan">>
    /\ k.cmd \in Unprivileged \cup {"none"} => k.worker = "none"
    /\ k.cmd # "none" => k.exit = "none"

ReadInv == \A c \in Clis : ReadPlan(cli[c])

(* What a step of c leaves of the record of c.                             *)
Moved(k, l) ==
    /\ l.cmd = k.cmd /\ l.source = k.source /\ l.alone = k.alone /\ l.exit = k.exit
    /\ l.version = k.version

(* What an exit leaves of the record.                                      *)
LEMMA ExitMove ==
    ASSUME CliTypes, NEW c \in Clis, NEW code \in Exits, Exit(c, code)
    PROVE  cli'[c] = Ended(code)
<1>1. Ends(c, code)
  BY Zenon DEF Exit, Ends, Ended
<1> QED BY <1>1, EndEffect, Zenon

(* What going on leaves of the record.                                     *)
LEMMA GoMove ==
    ASSUME CliTypes, NEW c \in Clis, NEW steps \in Seq(Words), Go(c, steps)
    PROVE  \/ steps = <<>> /\ cli'[c] = Ended("ok")
           \/ /\ steps # <<>> /\ cli'[c].todo = steps
              /\ Moved(cli[c], cli'[c]) /\ cli'[c].worker = cli[c].worker
<1>1. CASE steps = <<>>
  <2>1. Ends(c, "ok")
    BY <1>1, GoEffect, Zenon
  <2> QED BY <1>1, <2>1, EndEffect, Zenon DEF Exits
<1>2. CASE steps # <<>>
  <2>1. Goes(c, steps)
    BY <1>2, GoEffect, Zenon
  <2> QED BY <1>2, <2>1, GoesEffect, Zenon DEF Moved
<1> QED BY <1>1, <1>2, Zenon

(* A command that ended reads nothing.                                     *)
LEMMA EndedReads == ASSUME NEW code \in Exits PROVE ReadPlan(Ended(code))
BY IdleTypes, Zenon DEF ReadPlan

(* A command that may change things has no reading plan to keep.           *)
LEMMA MovedReads ==
    ASSUME NEW k, NEW l, ReadPlan(k), Moved(k, l), k.cmd \notin Unprivileged \cup {"none"}
    PROVE  ReadPlan(l)
BY Zenon DEF ReadPlan, Moved, Unprivileged

(* What a step done leaves of the record.                                  *)
LEMMA StepMove ==
    ASSUME CliTypes, NEW c \in Clis, cli[c].todo # <<>>, Step(c)
    PROVE  \/ Tail(cli[c].todo) = <<>> /\ cli'[c] = Ended("ok")
           \/ /\ Tail(cli[c].todo) # <<>> /\ cli'[c].todo = Tail(cli[c].todo)
              /\ Moved(cli[c], cli'[c]) /\ cli'[c].worker = cli[c].worker
<1>1. cli[c].todo \in Seq(Words)
  BY Zenon DEF CliTypes, Clients
<1>2. Tail(cli[c].todo) \in Seq(Words) /\ Go(c, Tail(cli[c].todo))
  BY <1>1, TailWords, Zenon DEF Step
<1> QED BY <1>2, GoMove, Zenon

(* The worker of a stop moves, the rest of the record stays.               *)
LEMMA WorkerMove ==
    ASSUME CliTypes, NEW c \in Clis, WorkerCalls(c) \/ WorkerReturns(c)
    PROVE  /\ Moved(cli[c], cli'[c]) /\ cli'[c].todo = cli[c].todo
           /\ \/ WorkerCalls(c) /\ cli[c].worker = "calling"
                 /\ cli'[c].worker = (IF StopAccepted THEN "waiting" ELSE "failed")
              \/ WorkerReturns(c) /\ cli[c].worker = "waiting" /\ cli'[c].worker = "returned"
<1> DEFINE x == IF WorkerReturns(c) THEN "returned" ELSE IF StopAccepted THEN "waiting" ELSE "failed"
           k == [cli[c] EXCEPT !.worker = x]
<1>1. cli[c] \in Clients
  BY Zenon DEF CliTypes
<1>2. ~(WorkerCalls(c) /\ WorkerReturns(c))
  BY Zenon DEF WorkerCalls, WorkerReturns
<1>3. cli' = [cli EXCEPT ![c] = k]
  BY <1>1, <1>2, Zenon DEF WorkerCalls, WorkerReturns, CliTypes
<1>4. cli'[c] = k
  BY <1>3, Zenon DEF CliTypes
<1> HIDE DEF x
<1>5. Moved(cli[c], k) /\ k.todo = cli[c].todo /\ k.worker = x
  BY <1>1, Zenon DEF Clients, Moved
<1>6. /\ WorkerCalls(c) => cli[c].worker = "calling"
      /\ WorkerReturns(c) => cli[c].worker = "waiting"
  BY Zenon DEF WorkerCalls, WorkerReturns
<1> QED BY <1>2, <1>4, <1>5, <1>6, Zenon DEF x

(* The stop call moves to its worker.                                      *)
LEMMA SpawnMove ==
    ASSUME CliTypes, NEW c \in Clis, SpawnWorker(c)
    PROVE  /\ Moved(cli[c], cli'[c]) /\ cli'[c].worker = "calling"
           /\ cli'[c].todo = Tail(cli[c].todo)
<1> DEFINE u == Tail(cli[c].todo)
           k == [cli[c] EXCEPT !.worker = "calling", !.todo = u]
<1>1. cli[c] \in Clients
  BY Zenon DEF CliTypes
<1>2. cli' = [cli EXCEPT ![c] = k]
  BY <1>1, Zenon DEF SpawnWorker, CliTypes
<1>3. cli'[c] = k
  BY <1>2, Zenon DEF CliTypes
<1> HIDE DEF u
<1>4. Moved(cli[c], k) /\ k.worker = "calling" /\ k.todo = u
  BY <1>1, Zenon DEF Clients, Moved
<1> QED BY <1>3, <1>4, Zenon DEF u

(* Every step of c ends c or keeps what c is.                              *)
LEMMA AnyMove ==
    ASSUME CliTypes, NEW c \in Clis, CliStep(c)
    PROVE  (\E code \in Exits : cli'[c] = Ended(code)) \/ Moved(cli[c], cli'[c])
<1> DEFINE Fine == (\E code \in Exits : cli'[c] = Ended(code)) \/ Moved(cli[c], cli'[c])
<1> SUFFICES Fine
  BY Zenon
<1>1. ASSUME NEW code \in Exits, Exit(c, code) PROVE Fine
  BY <1>1, ExitMove, Zenon
<1>2. ASSUME cli[c].todo # <<>>, Step(c) PROVE Fine
  BY <1>2, StepMove, Zenon DEF Exits
<1>3. ASSUME NEW steps \in Seq(Words), Go(c, steps) PROVE Fine
  BY <1>3, GoMove, Zenon DEF Exits
<1> HIDE DEF Fine
<1>4. CASE WorkerCalls(c) \/ WorkerReturns(c)
  BY <1>4, WorkerMove, Zenon DEF Fine
<1>5. CASE SpawnWorker(c)
  BY <1>5, SpawnMove, Zenon DEF Fine
<1>6. cli[c].todo \in Seq(Words)
  BY Zenon DEF CliTypes, Clients
<1>7. CASE QueryStatus(c)
  <2>1. PICK s \in Status : Follow(c, Branches[Head(cli[c].todo)][s])
    BY <1>7, Zenon DEF QueryStatus
  <2>2. cli[c].todo # <<>> /\ Head(cli[c].todo) \in DOMAIN Branches /\ s \in StatusValues
    BY <1>7, StatusAnswers, Zenon DEF QueryStatus
  <2> DEFINE b == Branches[Head(cli[c].todo)][s]
  <2>3. CASE Head(b) \in Exits
    BY <1>1, <2>1, <2>3, Zenon DEF Follow
  <2>4. CASE Head(b) \notin Exits
    <3>1. b \in Seq(Words) /\ Tail(cli[c].todo) \in Seq(Words)
      BY <1>6, <2>2, <2>4, BranchSteps, TailWords, Zenon
    <3>2. Go(c, b \o Tail(cli[c].todo))
      BY <2>1, <2>4, Zenon DEF Follow
    <3> HIDE DEF b
    <3> QED BY <1>3, <3>1, <3>2, ConcatWords, Zenon
  <2> QED BY <2>3, <2>4, Zenon
<1>8. CASE Plan(c)
  <2>1. PICK steps : /\ Go(c, steps)
                     /\ steps \in {<<>>, <<"copy_data">>, <<"stop", "copy_data", "start">>}
    BY <1>8, Zenon DEF Plan, PlanUpdate, UpdateSteps
  <2>2. <<"copy_data">> \in Seq(Words) /\ <<"stop", "copy_data", "start">> \in Seq(Words)
    BY DEF Words, Steps, Commands
  <2>3. << >> \in Seq(Words)
    OBVIOUS
  <2> QED BY <1>3, <2>1, <2>2, <2>3, Zenon
<1>9. CASE StopTimesOut(c)
  <2>1. cli[c].todo # <<>> /\ Go(c, <<"stop_drop">> \o Tail(cli[c].todo))
    BY <1>9, Zenon DEF StopTimesOut, At
  <2>2. <<"stop_drop">> \in Seq(Words) /\ Tail(cli[c].todo) \in Seq(Words)
    BY <1>6, <2>1, TailWords DEF Words, Steps
  <2> QED BY <1>3, <2>1, <2>2, ConcatWords, Zenon
<1>10. CASE Probe(c) \/ Call(c)
  BY <1>1, <1>10, Zenon DEF Probe, Call, Exits
<1>11. ASSUME cli[c].todo # <<>>, Step(c) \/ Exit(c, "other") PROVE Fine
  BY <1>1, <1>2, <1>11, Zenon DEF Exits
<1>12. CASE Confirm(c) \/ Copy(c) \/ CopySkipped(c) \/ CopyRefused(c) \/ CopyTorn(c)
  BY <1>11, <1>12, Zenon DEF Confirm, Copy, CopySkipped, CopyRefused, CopyTorn, Copying, At
<1>13. CASE Grant(c) \/ GrantFails(c) \/ Define(c) \/ Undefine(c)
  BY <1>11, <1>13, Zenon DEF Grant, GrantFails, Define, Undefine, At
<1>14. CASE Halt(c) \/ Halted(c) \/ StartService(c) \/ StopJoined(c) \/ StopDropped(c)
  BY <1>11, <1>14, Zenon DEF Halt, Halted, StartService, StopJoined, StopDropped, At
<1> QED BY <1>4, <1>5, <1>7, <1>8, <1>9, <1>10, <1>12, <1>13, <1>14, Zenon DEF CliStep, StopStep

(* A list of one step.                                                     *)
LEMMA Single ==
    ASSUME NEW x
    PROVE  <<x>> # <<>> /\ Head(<<x>>) = x /\ Tail(<<x>>) = <<>>
OBVIOUS

(* A command that only reads.                                              *)
LEMMA ReadStep ==
    ASSUME CliTypes, NEW c \in Clis, CliStep(c), ReadPlan(cli[c]),
           cli[c].cmd \in Unprivileged \cup {"none"}
    PROVE  /\ ReadPlan(cli'[c]) /\ UNCHANGED hostVars
           /\ cli'[c].cmd \in {"none", cli[c].cmd}
           /\ cli[c].cmd = "status" /\ cli'[c].exit = "ok" => Listening
<1>1. ~WorkerCalls(c) /\ ~WorkerReturns(c)
  BY Zenon DEF ReadPlan, WorkerCalls, WorkerReturns
<1>2. Busy(c)
  BY <1>1, Acts, Zenon
<1>3. cli[c].cmd \in {"status", "rpc", "update_check"} /\ cli[c].exit = "none"
  BY <1>2, Zenon DEF Busy, Unprivileged, ReadPlan
<1>4. ASSUME NEW code \in Exits, Exit(c, code), UNCHANGED hostVars,
             cli[c].cmd = "status" /\ code = "ok" => Listening
      PROVE  /\ ReadPlan(cli'[c]) /\ UNCHANGED hostVars
             /\ cli'[c].cmd \in {"none", cli[c].cmd}
             /\ cli[c].cmd = "status" /\ cli'[c].exit = "ok" => Listening
  BY <1>4, ExitMove, EndedReads, IdleTypes, Zenon
<1>5. CASE cli[c].cmd = "status" /\ cli[c].todo = <<"status">>
  <2>1. QueryStatus(c)
    BY <1>1, <1>5, Acts, Single, Zenon DEF Confirms
  <2>2. UNCHANGED hostVars /\ \E s \in Status : Follow(c, Branches["status"][s])
    BY <1>5, <2>1, Single, Zenon DEF QueryStatus, Keep, hostVars
  <2>3. PICK s \in Status : Follow(c, Branches["status"][s])
    BY <2>2, Zenon
  <2>4. s \in StatusValues
    BY <2>3, StatusAnswers, Zenon
  <2>5. CASE s = "NotInstalled" \/ s = "Stopped"
    <3>1. Exit(c, "not_installed") \/ Exit(c, "stopped")
      BY <2>3, <2>5, Single DEF Follow, Branches, Exits
    <3> QED BY <1>4, <2>2, <3>1, Zenon DEF Exits
  <2>6. CASE s = "Running"
    <3>1. Branches["status"][s] = <<"probe">> /\ "probe" \notin Exits
      BY <2>6, Zenon DEF Branches, StatusSteps, Exits
    <3>2. Go(c, <<"probe">> \o Tail(<<"status">>))
      BY <1>5, <2>3, <3>1, Single, Zenon DEF Follow
    <3>3. <<"probe">> \in Seq(Words) /\ <<"probe">> \o Tail(<<"status">>) = <<"probe">>
      BY DEF Words, Steps
    <3>4. /\ cli'[c].todo = <<"probe">> /\ Moved(cli[c], cli'[c])
          /\ cli'[c].worker = cli[c].worker
      BY <3>2, <3>3, GoMove, Single, Zenon
    <3> QED BY <1>3, <1>5, <2>2, <3>4, Zenon DEF ReadPlan, Moved
  <2> QED BY <2>4, <2>5, <2>6, Zenon DEF StatusValues
<1>6. CASE cli[c].cmd = "status" /\ cli[c].todo = <<"probe">>
  <2>1. Probe(c)
    BY <1>1, <1>6, Acts, Single, Zenon DEF Confirms, Branches
  <2>2. UNCHANGED hostVars /\ ((Answers /\ Exit(c, "ok")) \/ Exit(c, "stopped"))
    BY <2>1, Zenon DEF Probe, Keep, hostVars
  <2> QED BY <1>4, <2>2, Zenon DEF Exits, Answers
<1>7. CASE cli[c].cmd = "rpc" /\ cli[c].todo = <<"call">>
  <2>1. Call(c)
    BY <1>1, <1>7, Acts, Single, Zenon DEF Confirms, Branches
  <2>2. UNCHANGED hostVars /\ (Exit(c, "ok") \/ Exit(c, "other"))
    BY <2>1, Zenon DEF Call, Keep, hostVars
  <2> QED BY <1>4, <1>7, <2>2, Zenon DEF Exits
<1>8. CASE cli[c].cmd = "update_check" /\ cli[c].todo = <<"plan">>
  <2>1. Plan(c)
    BY <1>1, <1>8, Acts, Single, Zenon DEF Confirms, Branches
  <2>2. UNCHANGED hostVars /\ Go(c, <<>>)
    BY <1>8, <2>1, Zenon DEF Plan, Keep, hostVars
  <2>3. cli'[c] = Ended("ok")
    <3>1. << >> \in Seq(Words)
      OBVIOUS
    <3> QED BY <2>2, <3>1, GoMove, Zenon
  <2> QED BY <1>8, <2>2, <2>3, EndedReads, IdleTypes, Zenon DEF Exits
<1> QED BY <1>3, <1>5, <1>6, <1>7, <1>8, Zenon DEF ReadPlan

-----------------------------------------------------------------------------
(* The steps an update has left, by phase.                                 *)

Phases == {"plan", "copy", "stop", "spawn", "wait", "drop", "confirm", "replace", "start",
           "launch", "running"}

Left(p) ==
    CASE p = "plan" -> <<"plan">>
      [] p = "copy" -> <<"copy_data">>
      [] p = "stop" -> <<"stop", "copy_data", "start">>
      [] p = "spawn" -> <<"stop_worker", "stop_wait", "is_stopped", "copy_data", "start">>
      [] p = "wait" -> <<"stop_wait", "is_stopped", "copy_data", "start">>
      [] p = "drop" -> <<"stop_drop", "is_stopped", "copy_data", "start">>
      [] p = "confirm" -> <<"is_stopped", "copy_data", "start">>
      [] p = "replace" -> <<"copy_data", "start">>
      [] p = "start" -> <<"start">>
      [] p = "launch" -> <<"launch", "is_running">>
      [] p = "running" -> <<"is_running">>

(* What an update still has to do in each phase.                           *)
LEMMA Lefts ==
    /\ Left("plan") = <<"plan">>
    /\ Left("copy") = <<"copy_data">>
    /\ Left("stop") = <<"stop", "copy_data", "start">>
    /\ Left("spawn") = <<"stop_worker", "stop_wait", "is_stopped", "copy_data", "start">>
    /\ Left("wait") = <<"stop_wait", "is_stopped", "copy_data", "start">>
    /\ Left("drop") = <<"stop_drop", "is_stopped", "copy_data", "start">>
    /\ Left("confirm") = <<"is_stopped", "copy_data", "start">>
    /\ Left("replace") = <<"copy_data", "start">>
    /\ Left("start") = <<"start">>
    /\ Left("launch") = <<"launch", "is_running">>
    /\ Left("running") = <<"is_running">>
BY Zenon DEF Left

(* Something is left to do in each phase.                                  *)
LEMMA LeftWords == \A p \in Phases : Left(p) \in Seq(Words) /\ Left(p) # <<>>
<1> USE DEF Words, Steps, Commands
<1>1. /\ <<"plan">> \in Seq(Words) /\ <<"copy_data">> \in Seq(Words)
      /\ <<"start">> \in Seq(Words) /\ <<"is_running">> \in Seq(Words)
  OBVIOUS
<1>2. <<"copy_data", "start">> \in Seq(Words) /\ <<"launch", "is_running">> \in Seq(Words)
  OBVIOUS
<1>3. /\ <<"stop", "copy_data", "start">> \in Seq(Words)
      /\ <<"is_stopped", "copy_data", "start">> \in Seq(Words)
  OBVIOUS
<1>4. /\ <<"stop_wait", "is_stopped", "copy_data", "start">> \in Seq(Words)
      /\ <<"stop_drop", "is_stopped", "copy_data", "start">> \in Seq(Words)
  OBVIOUS
<1>5. <<"stop_worker", "stop_wait", "is_stopped", "copy_data", "start">> \in Seq(Words)
  OBVIOUS
<1>6. \A p \in Phases : Left(p) \in Seq(Words)
  BY <1>1, <1>2, <1>3, <1>4, <1>5, Lefts, Zenon DEF Phases
<1>7. \A p \in Phases : Left(p) # <<>>
  BY Lefts DEF Phases
<1> QED BY <1>6, <1>7, Zenon

(* The step an update is at in each phase.                                 *)
LEMMA LeftHeads ==
    /\ Head(Left("plan")) = "plan" /\ Head(Left("copy")) = "copy_data"
    /\ Head(Left("stop")) = "stop" /\ Head(Left("spawn")) = "stop_worker"
    /\ Head(Left("wait")) = "stop_wait" /\ Head(Left("drop")) = "stop_drop"
    /\ Head(Left("confirm")) = "is_stopped" /\ Head(Left("replace")) = "copy_data"
    /\ Head(Left("start")) = "start" /\ Head(Left("launch")) = "launch"
    /\ Head(Left("running")) = "is_running"
<1>1. Head(Left("plan")) = "plan" /\ Head(Left("copy")) = "copy_data" /\ Head(Left("stop")) = "stop"
  BY Lefts
<1>2. /\ Head(Left("spawn")) = "stop_worker" /\ Head(Left("wait")) = "stop_wait"
      /\ Head(Left("drop")) = "stop_drop"
  BY Lefts
<1>3. /\ Head(Left("confirm")) = "is_stopped" /\ Head(Left("replace")) = "copy_data"
      /\ Head(Left("start")) = "start"
  BY Lefts
<1>4. Head(Left("launch")) = "launch" /\ Head(Left("running")) = "is_running"
  BY Lefts
<1> QED BY <1>1, <1>2, <1>3, <1>4, Zenon

(* Lists with the same steps are the same.                                 *)
LEMMA SameWords ==
    ASSUME NEW s \in Seq(Words), NEW t \in Seq(Words), Len(s) = Len(t),
           \A i \in 1..Len(s) : s[i] = t[i]
    PROVE  s = t
OBVIOUS

(* A list put together of two.                                             *)
LEMMA JoinWords ==
    ASSUME NEW s \in Seq(Words), NEW t \in Seq(Words), NEW r \in Seq(Words),
           Len(r) = Len(s) + Len(t), \A i \in 1..Len(s) : r[i] = s[i],
           \A i \in 1..Len(t) : r[Len(s) + i] = t[i]
    PROVE  s \o t = r
<1> DEFINE u == s \o t
           m == Len(s)
           n == Len(t)
<1>1. u \in Seq(Words) /\ Len(u) = m + n /\ m \in Nat /\ n \in Nat
  BY ConcatWords
<1>2. \A i \in 1..Len(u) : u[i] = IF i <= m THEN s[i] ELSE t[i - m]
  BY ConcatWords, Zenon
<1> HIDE DEF u
<1>3. ASSUME NEW i \in 1..Len(u) PROVE u[i] = r[i]
  <2>1. CASE i <= m
    BY <1>1, <1>2, <1>3, <2>1
  <2>2. CASE ~(i <= m)
    <3>1. i - m \in 1..n /\ m + (i - m) = i
      BY <1>1, <1>3, <2>2
    <3>2. u[i] = t[i - m] /\ r[m + (i - m)] = t[i - m]
      BY <1>2, <1>3, <2>2, <3>1, Zenon
    <3> QED BY <3>1, <3>2, Zenon
  <2> QED BY <2>1, <2>2, Zenon
<1>4. u = r
  BY <1>1, <1>3, SameWords, Zenon
<1> QED BY <1>4, Zenon DEF u

(* The phases follow each other.                                           *)
LEMMA LeftTails ==
    /\ Tail(Left("copy")) = <<>> /\ Tail(Left("running")) = <<>>
    /\ Tail(Left("spawn")) = Left("wait")
    /\ Tail(Left("wait")) = Left("confirm") /\ Tail(Left("drop")) = Left("confirm")
    /\ Tail(Left("confirm")) = Left("replace") /\ Tail(Left("replace")) = Left("start")
    /\ Tail(Left("launch")) = Left("running")
    /\ <<"stop_worker", "stop_wait", "is_stopped">> \o Tail(Left("stop")) = Left("spawn")
    /\ <<"stop_drop">> \o Tail(Left("wait")) = Left("drop")
    /\ <<"launch", "is_running">> \o Tail(Left("start")) = Left("launch")
<1>1. Tail(Left("copy")) = <<>> /\ Tail(Left("running")) = <<>> /\ Tail(Left("start")) = <<>>
  BY Lefts, Single, Zenon
<1>2. Tail(Left("replace")) = Left("start") /\ Tail(Left("launch")) = Left("running")
  <2>1. /\ Tail(<<"copy_data", "start">>) = <<"start">>
        /\ Tail(<<"launch", "is_running">>) = <<"is_running">>
    OBVIOUS
  <2> QED BY <2>1, Lefts, Zenon
<1>3. Tail(Left("confirm")) = Left("replace") /\ Tail(Left("stop")) = Left("replace")
  <2>1. /\ Tail(<<"is_stopped", "copy_data", "start">>) = <<"copy_data", "start">>
        /\ Tail(<<"stop", "copy_data", "start">>) = <<"copy_data", "start">>
    OBVIOUS
  <2> QED BY <2>1, Lefts, Zenon
<1>4. Tail(Left("wait")) = Left("confirm") /\ Tail(Left("drop")) = Left("confirm")
  <2>1. Tail(<<"stop_wait", "is_stopped", "copy_data", "start">>)
          = <<"is_stopped", "copy_data", "start">>
    OBVIOUS
  <2>2. Tail(<<"stop_drop", "is_stopped", "copy_data", "start">>)
          = <<"is_stopped", "copy_data", "start">>
    OBVIOUS
  <2> QED BY <2>1, <2>2, Lefts, Zenon
<1>5. Tail(Left("spawn")) = Left("wait")
  <2>1. Tail(<<"stop_worker", "stop_wait", "is_stopped", "copy_data", "start">>)
          = <<"stop_wait", "is_stopped", "copy_data", "start">>
    OBVIOUS
  <2> QED BY <2>1, Lefts, Zenon
<1>6. Left("confirm") \in Seq(Words) /\ Left("replace") \in Seq(Words)
  BY LeftWords, Zenon DEF Phases
<1>7. <<"stop_worker", "stop_wait", "is_stopped">> \o Left("replace") = Left("spawn")
  <2> DEFINE s == <<"stop_worker", "stop_wait", "is_stopped">>
  <2>1. /\ s \in Seq(Words) /\ Len(s) = 3
        /\ s[1] = "stop_worker" /\ s[2] = "stop_wait" /\ s[3] = "is_stopped"
    BY DEF Words, Steps
  <2>2. /\ Left("spawn") \in Seq(Words) /\ Len(Left("spawn")) = 5
        /\ Left("spawn")[1] = "stop_worker" /\ Left("spawn")[2] = "stop_wait"
        /\ Left("spawn")[3] = "is_stopped" /\ Left("spawn")[4] = "copy_data"
        /\ Left("spawn")[5] = "start"
    BY Lefts, LeftWords DEF Phases
  <2>3. /\ Len(Left("replace")) = 2 /\ Left("replace")[1] = "copy_data"
        /\ Left("replace")[2] = "start"
    BY Lefts
  <2> HIDE DEF s
  <2>4. /\ \A i \in 1..3 : Left("spawn")[i] = s[i]
        /\ \A i \in 1..2 : Left("spawn")[3 + i] = Left("replace")[i]
    BY <2>1, <2>2, <2>3
  <2>5. /\ 5 = 3 + 2 /\ Len(Left("spawn")) = Len(s) + Len(Left("replace"))
        /\ \A i \in 1..Len(s) : Left("spawn")[i] = s[i]
        /\ \A i \in 1..Len(Left("replace")) : Left("spawn")[Len(s) + i] = Left("replace")[i]
    <3>1. 5 = 3 + 2
      OBVIOUS
    <3> QED BY <2>1, <2>2, <2>3, <2>4, <3>1, Zenon
  <2>6. s \o Left("replace") = Left("spawn")
    BY <1>6, <2>1, <2>2, <2>5, JoinWords, Zenon
  <2> QED BY <2>6, Zenon DEF s
<1>8. <<"stop_drop">> \o Left("confirm") = Left("drop")
  <2> DEFINE s == <<"stop_drop">>
  <2>1. s \in Seq(Words) /\ Len(s) = 1 /\ s[1] = "stop_drop"
    BY DEF Words, Steps
  <2>2. /\ Left("drop") \in Seq(Words) /\ Len(Left("drop")) = 4
        /\ Left("drop")[1] = "stop_drop" /\ Left("drop")[2] = "is_stopped"
        /\ Left("drop")[3] = "copy_data" /\ Left("drop")[4] = "start"
    BY Lefts, LeftWords DEF Phases
  <2>3. /\ Len(Left("confirm")) = 3 /\ Left("confirm")[1] = "is_stopped"
        /\ Left("confirm")[2] = "copy_data" /\ Left("confirm")[3] = "start"
    BY Lefts
  <2> HIDE DEF s
  <2>4. /\ \A i \in 1..1 : Left("drop")[i] = s[i]
        /\ \A i \in 1..3 : Left("drop")[1 + i] = Left("confirm")[i]
    BY <2>1, <2>2, <2>3
  <2>5. /\ 4 = 1 + 3 /\ Len(Left("drop")) = Len(s) + Len(Left("confirm"))
        /\ \A i \in 1..Len(s) : Left("drop")[i] = s[i]
        /\ \A i \in 1..Len(Left("confirm")) : Left("drop")[Len(s) + i] = Left("confirm")[i]
    <3>1. 4 = 1 + 3
      OBVIOUS
    <3> QED BY <2>1, <2>2, <2>3, <2>4, <3>1, Zenon
  <2>6. s \o Left("confirm") = Left("drop")
    BY <1>6, <2>1, <2>2, <2>5, JoinWords, Zenon
  <2> QED BY <2>6, Zenon DEF s
<1>9. <<"launch", "is_running">> \o <<>> = Left("launch")
  BY Lefts
<1> QED BY <1>1, <1>2, <1>3, <1>4, <1>5, <1>7, <1>8, <1>9, Zenon

(* A step of an update from phase p to phase q, and what it does to the    *)
(* service.                                                                *)
Still(c) == cli'[c].worker = cli[c].worker /\ UNCHANGED hostVars

Advances(c, p, q) ==
    \/ p = "plan" /\ q \in {"copy", "stop"} /\ Still(c)
    \/ p = "stop" /\ q = "spawn" /\ Still(c) /\ "Running" \in Status
    \/ p = "spawn" /\ q = "wait" /\ cli'[c].worker = "calling" /\ UNCHANGED hostVars
    \/ /\ p = "wait" /\ q = "drop" /\ cli'[c].worker = cli[c].worker
       /\ cli[c].worker \in {"calling", "waiting"} /\ StopTimesOut(c)
    \/ p = "wait" /\ q = "confirm" /\ Still(c) /\ cli[c].worker = "returned"
    \/ p = "drop" /\ q = "confirm" /\ Still(c) /\ cli[c].worker \in {"returned", "failed"}
    \/ p = "confirm" /\ q = "replace" /\ Still(c)
    \/ p = "replace" /\ q = "start" /\ Copy(c) /\ cli'[c].worker = cli[c].worker
    \/ p = "start" /\ q = "launch" /\ Still(c)
    \/ p = "launch" /\ q = "running" /\ StartService(c) /\ cli'[c].worker = cli[c].worker
    \/ /\ p = q /\ WorkerCalls(c) /\ cli[c].worker = "calling"
       /\ cli'[c].worker = IF StopAccepted THEN "waiting" ELSE "failed"
    \/ p = q /\ WorkerReturns(c) /\ cli[c].worker = "waiting" /\ cli'[c].worker = "returned"

Closes(c, p) ==
    \E code \in Exits : cli'[c] = Ended(code) /\ (p = "running" /\ code = "ok" => "Running" \in Status)

(* A step of an update ends it or takes it to its next phase.              *)
LEMMA UpdateMoves ==
    ASSUME CliTypes, NEW c \in Clis, CliStep(c), cli[c].cmd = "update",
           NEW p \in Phases, cli[c].todo = Left(p)
    PROVE  \/ Closes(c, p)
           \/ \E q \in Phases : /\ cli'[c].todo = Left(q) /\ Moved(cli[c], cli'[c])
                                /\ Advances(c, p, q)
<1> DEFINE Goal == \/ Closes(c, p)
                   \/ \E q \in Phases : /\ cli'[c].todo = Left(q) /\ Moved(cli[c], cli'[c])
                                        /\ Advances(c, p, q)
<1> SUFFICES Goal
  BY Zenon
<1>1. Left(p) # <<>> /\ Left(p) \in Seq(Words)
  BY LeftWords, Zenon
<1>2. ASSUME NEW code \in Exits, Exit(c, code), p # "running" \/ code # "ok"
      PROVE  Goal
  BY <1>2, ExitMove, Zenon DEF Closes
<1>3. ASSUME NEW q \in Phases, Go(c, Left(q))
      PROVE  /\ cli'[c].todo = Left(q) /\ Moved(cli[c], cli'[c])
             /\ cli'[c].worker = cli[c].worker
  BY <1>3, LeftWords, GoMove, Zenon
<1>4. ASSUME NEW q \in Phases, Step(c), Tail(Left(p)) = Left(q)
      PROVE  /\ cli'[c].todo = Left(q) /\ Moved(cli[c], cli'[c])
             /\ cli'[c].worker = cli[c].worker
  BY <1>3, <1>4, Zenon DEF Step
<1>5. ASSUME NEW q \in Phases, cli'[c].todo = Left(q), Moved(cli[c], cli'[c]), Advances(c, p, q)
      PROVE  Goal
  BY <1>5, Zenon
<1> HIDE DEF Goal
<1>6. CASE WorkerCalls(c) \/ WorkerReturns(c)
  <2>1. cli'[c].todo = Left(p) /\ Moved(cli[c], cli'[c])
    BY <1>6, WorkerMove, Zenon
  <2>2. Advances(c, p, p)
    BY <1>6, WorkerMove, Zenon DEF Advances
  <2> QED BY <1>5, <2>1, <2>2, Zenon
<1>7. CASE ~WorkerCalls(c) /\ ~WorkerReturns(c)
  <2>1. CASE p = "plan"
    <3>1. Plan(c)
      BY <1>1, <1>7, <2>1, Acts, LeftHeads, Zenon DEF Branches, Confirms
    <3>2. /\ UNCHANGED hostVars
          /\ Go(c, <<>>) \/ Go(c, <<"copy_data">>) \/ Go(c, <<"stop", "copy_data", "start">>)
      BY <3>1, Zenon DEF Plan, PlanUpdate, UpdateSteps, Keep, hostVars
    <3>3. CASE Go(c, <<>>)
      <4>1. << >> \in Seq(Words)
        OBVIOUS
      <4>2. cli'[c] = Ended("ok")
        BY <3>3, <4>1, GoMove, Zenon
      <4> QED BY <2>1, <4>2, Zenon DEF Goal, Closes, Exits
    <3>4. CASE Go(c, <<"copy_data">>)
      BY <1>3, <1>5, <2>1, <3>2, <3>4, Lefts, Zenon DEF Advances, Still, Phases
    <3>5. CASE Go(c, <<"stop", "copy_data", "start">>)
      BY <1>3, <1>5, <2>1, <3>2, <3>5, Lefts, Zenon DEF Advances, Still, Phases
    <3> QED BY <3>2, <3>3, <3>4, <3>5, Zenon
  <2>2. CASE p = "copy" \/ p = "replace"
    <3>1. Copy(c) \/ CopySkipped(c) \/ CopyRefused(c) \/ CopyTorn(c)
      BY <1>1, <1>7, <2>2, Acts, LeftHeads, Zenon DEF Branches, Confirms
    <3>2. ~CopySkipped(c)
      BY <2>2, LeftHeads, Zenon DEF CopySkipped, At
    <3>3. CASE CopyRefused(c) \/ CopyTorn(c)
      BY <1>2, <3>3, Zenon DEF CopyRefused, CopyTorn, Exits
    <3>4. CASE Copy(c) /\ p = "copy"
      <4>1. Step(c) /\ Tail(cli[c].todo) = <<>>
        BY <3>4, LeftTails, Zenon DEF Copy
      <4>2. cli'[c] = Ended("ok")
        BY <1>1, <4>1, StepMove, Zenon
      <4> QED BY <3>4, <4>2, Zenon DEF Goal, Closes, Exits
    <3>5. CASE Copy(c) /\ p = "replace"
      <4>1. Step(c) /\ Tail(Left(p)) = Left("start") /\ "start" \in Phases
        BY <3>5, LeftTails, Zenon DEF Copy, Phases
      <4>2. Advances(c, p, "start")
        BY <1>4, <3>5, <4>1, Zenon DEF Advances
      <4> QED BY <1>4, <1>5, <4>1, <4>2, Zenon
    <3> QED BY <2>2, <3>1, <3>2, <3>3, <3>4, <3>5, Zenon
  <2>3. CASE p = "stop" \/ p = "start"
    <3>1. QueryStatus(c)
      BY <1>1, <1>7, <2>3, Acts, LeftHeads, Zenon DEF Confirms
    <3>2. UNCHANGED hostVars
      BY <3>1, Zenon DEF QueryStatus, Keep, hostVars
    <3>3. PICK s \in Status : Follow(c, Branches[p][s])
      BY <2>3, <3>1, LeftHeads, Zenon DEF QueryStatus
    <3>4. s \in StatusValues
      BY <3>3, StatusAnswers, Zenon
    <3>5. CASE p = "stop" /\ s = "Running"
      <4>1. /\ Branches[p][s] = <<"stop_worker", "stop_wait", "is_stopped">>
            /\ Head(Branches[p][s]) = "stop_worker" /\ "stop_worker" \notin Exits
        BY <3>5 DEF Branches, Exits
      <4>2. Go(c, Left("spawn"))
        BY <3>3, <3>5, <4>1, LeftTails, Zenon DEF Follow
      <4> QED BY <1>3, <1>5, <3>2, <3>3, <3>5, <4>2, Zenon DEF Advances, Still, Phases
    <3>6. CASE p = "start" /\ s = "Stopped"
      <4>1. /\ Branches[p][s] = <<"launch", "is_running">>
            /\ Head(Branches[p][s]) = "launch" /\ "launch" \notin Exits
        BY <3>6 DEF Branches, Exits
      <4>2. Go(c, Left("launch"))
        BY <3>3, <3>6, <4>1, LeftTails, Zenon DEF Follow
      <4> QED BY <1>3, <1>5, <3>2, <3>6, <4>2, Zenon DEF Advances, Still, Phases
    <3>7. CASE ~(p = "stop" /\ s = "Running") /\ ~(p = "start" /\ s = "Stopped")
      <4>1. Head(Branches[p][s]) \in {"not_installed", "stopped", "running"}
        BY <2>3, <3>4, <3>7 DEF Branches, StatusValues
      <4>2. Exit(c, Head(Branches[p][s])) /\ Head(Branches[p][s]) \in Exits
        BY <3>3, <4>1, Zenon DEF Follow, Exits
      <4> QED BY <1>2, <2>3, <4>2, Zenon
    <3> QED BY <3>5, <3>6, <3>7, Zenon
  <2>4. CASE p = "confirm" \/ p = "running"
    <3>1. Confirm(c)
      BY <1>1, <1>7, <2>4, Acts, LeftHeads, Zenon DEF Branches
    <3>2. UNCHANGED hostVars
      BY <3>1, Zenon DEF Confirm, Keep, hostVars
    <3>3. \/ Exit(c, "other")
          \/ Step(c) /\ (p = "running" => "Running" \in Status)
      BY <2>4, <3>1, LeftHeads DEF Confirm, Confirms
    <3>4. CASE Exit(c, "other")
      BY <1>2, <3>4, Zenon DEF Exits
    <3>5. CASE Step(c) /\ p = "confirm"
      <4>1. Tail(Left(p)) = Left("replace") /\ "replace" \in Phases
        BY <3>5, LeftTails, Zenon DEF Phases
      <4>2. Advances(c, p, "replace")
        BY <1>4, <3>2, <3>5, <4>1, Zenon DEF Advances, Still
      <4> QED BY <1>4, <1>5, <3>5, <4>1, <4>2, Zenon
    <3>6. CASE Step(c) /\ p = "running" /\ "Running" \in Status
      <4>1. cli'[c] = Ended("ok")
        BY <1>1, <3>6, StepMove, LeftTails, Zenon
      <4> QED BY <3>6, <4>1, Zenon DEF Goal, Closes, Exits
    <3> QED BY <2>4, <3>3, <3>4, <3>5, <3>6, Zenon
  <2>5. CASE p = "spawn"
    <3>1. SpawnWorker(c)
      BY <1>1, <1>7, <2>5, Acts, LeftHeads, Zenon DEF Branches, Confirms
    <3>2. UNCHANGED hostVars
      BY <3>1, Zenon DEF SpawnWorker, Keep, hostVars
    <3> QED BY <1>5, <2>5, <3>1, <3>2, SpawnMove, LeftTails, Zenon DEF Advances, Phases
  <2>6. CASE p = "wait"
    <3>1. StopJoined(c) \/ StopTimesOut(c)
      BY <1>1, <1>7, <2>6, Acts, LeftHeads, Zenon DEF Branches, Confirms
    <3>2. CASE StopTimesOut(c)
      <4>1. cli[c].worker \in {"calling", "waiting"} /\ Go(c, Left("drop"))
        BY <2>6, <3>2, LeftTails, Zenon DEF StopTimesOut
      <4> QED BY <1>3, <1>5, <2>6, <3>2, <4>1, Zenon DEF Advances, Phases
    <3>3. CASE StopJoined(c)
      <4>1. /\ UNCHANGED hostVars
            /\ Exit(c, "other") \/ (Step(c) /\ cli[c].worker = "returned")
        BY <3>3, Zenon DEF StopJoined, Keep, hostVars
      <4>2. CASE Exit(c, "other")
        BY <1>2, <4>2, Zenon DEF Exits
      <4>3. CASE Step(c) /\ cli[c].worker = "returned"
        <5>1. Tail(Left(p)) = Left("confirm") /\ "confirm" \in Phases
          BY <2>6, LeftTails, Zenon DEF Phases
        <5>2. Advances(c, p, "confirm")
          BY <1>4, <2>6, <4>1, <4>3, <5>1, Zenon DEF Advances, Still
        <5> QED BY <1>4, <1>5, <4>3, <5>1, <5>2, Zenon
      <4> QED BY <4>1, <4>2, <4>3, Zenon
    <3> QED BY <3>1, <3>2, <3>3, Zenon
  <2>7. CASE p = "drop"
    <3>1. StopDropped(c)
      BY <1>1, <1>7, <2>7, Acts, LeftHeads, Zenon DEF Branches, Confirms
    <3>2. /\ UNCHANGED hostVars /\ Step(c) /\ cli[c].worker \in {"returned", "failed"}
      BY <3>1, Zenon DEF StopDropped, Keep, hostVars
    <3>3. Tail(Left(p)) = Left("confirm") /\ "confirm" \in Phases
      BY <2>7, LeftTails, Zenon DEF Phases
    <3>4. Advances(c, p, "confirm")
      BY <1>4, <2>7, <3>2, <3>3, Zenon DEF Advances, Still
    <3> QED BY <1>4, <1>5, <3>2, <3>3, <3>4, Zenon
  <2>8. CASE p = "launch"
    <3>1. StartService(c)
      BY <1>1, <1>7, <2>8, Acts, LeftHeads, Zenon DEF Branches, Confirms
    <3>2. Step(c) \/ Exit(c, "other")
      BY <3>1, Zenon DEF StartService
    <3>3. Tail(Left(p)) = Left("running") /\ "running" \in Phases
      BY <2>8, LeftTails, Zenon DEF Phases
    <3>4. CASE Exit(c, "other")
      BY <1>2, <3>4, Zenon DEF Exits
    <3>5. CASE Step(c)
      <4>1. Advances(c, p, "running")
        BY <1>4, <2>8, <3>1, <3>3, <3>5, Zenon DEF Advances
      <4> QED BY <1>4, <1>5, <3>3, <3>5, <4>1, Zenon
    <3> QED BY <3>2, <3>4, <3>5, Zenon
  <2> QED BY <2>1, <2>2, <2>3, <2>4, <2>5, <2>6, <2>7, <2>8, Zenon DEF Phases
<1> QED BY <1>6, <1>7, Zenon

-----------------------------------------------------------------------------
(* What an update knows of the service in phase p: k is its record, o the  *)
(* platform, u the definition, a whether the process is alive, v its       *)
(* version and f the binary at the path the update writes.                 *)

StopPhases == {"wait", "drop", "confirm", "replace"}
Replaced == {"start", "launch", "running"}

Stage(k, p, o, u, a, v, f) ==
    /\ p \in {"plan", "copy", "stop", "spawn"} => k.worker = "none"
    /\ p \in {"confirm", "replace"} \cup Replaced => k.worker \in {"returned", "failed"}
    /\ k.alone /\ o = "macos" =>
         /\ k.worker # "failed"
         /\ k.worker = "calling" \/ p = "spawn" => u.loaded
         /\ p \in StopPhases /\ k.worker \in {"waiting", "returned"} => ~u.wanted /\ ~u.loaded
         /\ p \in StopPhases /\ k.worker = "returned" => ~a
    /\ k.alone /\ o # "linux" /\ p \in Replaced => f = k.source /\ (a => v = k.source)

UpdateInv ==
    \A c \in Clis : cli[c].cmd = "update" =>
        \E p \in Phases : /\ cli[c].todo = Left(p)
                          /\ Stage(cli[c], p, os, unit, Alive, proc.version, file["data"])

AloneInv ==
    \A c, d \in Clis : c # d /\ Mutating(c) /\ cli[c].alone => ~Mutating(d)

ReportInv == ReadInv /\ AloneInv /\ UpdateInv

(* A step of the process does not bring an update's old version back.      *)
LEMMA StageHost ==
    ASSUME ProcessEffect, NEW k, NEW p \in Phases,
           Stage(k, p, os, unit, Alive, proc.version, file["data"])
    PROVE  Stage(k, p, os', unit', Alive', proc'.version, file'["data"])
<1>1. os' = os /\ unit' = unit /\ file' = file
  BY Zenon DEF ProcessEffect
<1>2. Alive' /\ Alive => proc'.version = proc.version
  BY Zenon DEF ProcessEffect
<1>3. Alive' /\ ~Alive => /\ unit.wanted /\ (os = "macos" => unit.loaded)
                          /\ os # "linux" => proc'.version = file["data"]
  BY Zenon DEF ProcessEffect, ExecPath
<1> QED BY <1>1, <1>2, <1>3, Zenon DEF Stage, Replaced, StopPhases

(* The same update, overlapped meanwhile or not.                           *)
LEMMA StageLater ==
    ASSUME NEW k, NEW l, NEW p, NEW o, NEW u, NEW a, NEW v, NEW f,
           Stage(k, p, o, u, a, v, f), l.worker = k.worker, l.source = k.source,
           l.alone => k.alone
    PROVE  Stage(l, p, o, u, a, v, f)
BY Zenon DEF Stage

(* The service manager says running of a live process only.                *)
LEMMA RunningStatus ==
    ASSUME HostInv, "Running" \in Status
    PROVE  Alive /\ unit.defined /\ (os = "macos" => unit.loaded)
<1>1. PICK s \in ManagerStatus : NormalizeStatus(s) = "Running"
  BY Zenon DEF Status
<1>2. s = "Running"
  BY <1>1, Zenon DEF NormalizeStatus
<1>3. scm # "stopped" /\ unit.defined /\ (os = "macos" => unit.loaded)
  BY <1>1, <1>2, Zenon DEF ManagerStatus
<1> QED BY <1>3, Zenon DEF HostInv

(* A step of the update itself.                                            *)
LEMMA StageStep ==
    ASSUME HostTypes, HostInv, CliTypes, NEW c \in Clis, cli[c].cmd = "update",
           NEW p \in Phases, NEW q \in Phases, cli[c].todo = Left(p),
           Moved(cli[c], cli'[c]), Advances(c, p, q), CliStep(c),
           Stage(cli[c], p, os, unit, Alive, proc.version, file["data"])
    PROVE  Stage(cli'[c], q, os', unit', Alive', proc'.version, file'["data"])
<1> DEFINE k == cli[c]
           l == cli'[c]
           Old == Stage(k, p, os, unit, Alive, proc.version, file["data"])
           New == Stage(l, q, os', unit', Alive', proc'.version, file'["data"])
<1> SUFFICES New
  BY Zenon
<1>1. l.source = k.source /\ l.alone = k.alone
  BY Zenon DEF Moved
<1>2. ASSUME UNCHANGED hostVars
      PROVE  /\ os' = os /\ unit' = unit /\ (Alive' <=> Alive) /\ proc'.version = proc.version
             /\ file'["data"] = file["data"]
  BY <1>2, Zenon DEF hostVars, Alive
<1> HIDE DEF k, l, New
<1>3. ASSUME UNCHANGED hostVars, l.worker = k.worker
      PROVE  Stage(l, p, os', unit', Alive', proc'.version, file'["data"])
  <2>1. Old
    BY Zenon DEF k
  <2> QED BY <1>1, <1>2, <1>3, <2>1, Zenon DEF Stage, Old
<1>4. CASE Still(c) /\ p = "stop" /\ q = "spawn" /\ "Running" \in Status
  <2>1. UNCHANGED hostVars /\ l.worker = k.worker
    BY <1>4, Zenon DEF Still, k, l
  <2>2. os' = "macos" => unit'.loaded
    BY <1>2, <1>4, <2>1, RunningStatus, Zenon
  <2> QED BY <1>3, <1>4, <2>1, <2>2, Zenon DEF Stage, StopPhases, Replaced, New
<1>5. CASE Still(c) /\ p = "plan" /\ q \in {"copy", "stop"}
  BY <1>3, <1>5, Zenon DEF Stage, StopPhases, Replaced, New, Still, k, l
<1>6. CASE Still(c) /\ p \in {"wait", "drop"} /\ q = "confirm" /\ k.worker \in {"returned", "failed"}
  BY <1>3, <1>6, Zenon DEF Stage, StopPhases, Replaced, New, Still, k, l
<1>7. CASE Still(c) /\ p = "confirm" /\ q = "replace"
  BY <1>3, <1>7, Zenon DEF Stage, StopPhases, Replaced, New, Still, k, l
<1>8. CASE Still(c) /\ p = "start" /\ q = "launch"
  BY <1>3, <1>8, Zenon DEF Stage, StopPhases, Replaced, New, Still, k, l
<1>9. CASE p = "spawn" /\ q = "wait" /\ l.worker = "calling" /\ UNCHANGED hostVars
  <2>1. Stage(k, p, os', unit', Alive', proc'.version, file'["data"])
    BY <1>2, <1>9, Zenon DEF Stage, k
  <2> QED BY <1>1, <1>9, <2>1, Zenon DEF Stage, StopPhases, Replaced, New
<1>10. CASE p = "wait" /\ q = "drop" /\ StopTimesOut(c) /\ l.worker = k.worker
  <2>1. UNCHANGED <<os, unit, file>> /\ (~Alive' \/ proc' = proc)
    BY <1>10, KillEffect, Zenon DEF StopTimesOut
  <2>2. Stage(l, p, os', unit', Alive', proc'.version, file'["data"])
    BY <1>1, <1>10, <2>1, Zenon DEF Stage, k, Replaced, Alive
  <2> QED BY <1>10, <2>2, Zenon DEF Stage, StopPhases, Replaced, New
<1>11. CASE p = "replace" /\ q = "start" /\ Copy(c) /\ l.worker = k.worker
  <2>1. UNCHANGED <<os, unit, proc>> /\ file' = [file EXCEPT ![Target(c)] = k.source]
        /\ ~TextBusy(Target(c))
    BY <1>11, Zenon DEF Copy, CopiedVersion, k
  <2>2. Target(c) = "data" /\ file'["data"] = k.source
    BY <1>11, <2>1, LeftHeads, Zenon DEF Target, At, UpdatePath, HostTypes
  <2>3. k.alone /\ os # "linux" => ~Alive
    <3>1. CASE os = "macos"
      BY <1>11, <3>1, Zenon DEF Stage, StopPhases, k
    <3>2. CASE os # "macos"
      BY <2>1, <2>2, <3>2, Zenon DEF TextBusy, ExecPath
    <3> QED BY <3>1, <3>2, Zenon
  <2>4. Alive' <=> Alive
    BY <2>1, Zenon DEF Alive
  <2>5. k.worker \in {"returned", "failed"} /\ (k.alone /\ os = "macos" => k.worker # "failed")
    BY <1>11, Zenon DEF Stage, k
  <2> QED BY <1>1, <1>11, <2>1, <2>2, <2>3, <2>4, <2>5, Zenon DEF Stage, StopPhases, Replaced, New
<1>12. CASE p = "launch" /\ q = "running" /\ StartService(c) /\ l.worker = k.worker
  <2>1. k.worker \in {"returned", "failed"} /\ (k.alone /\ os = "macos" => k.worker # "failed")
    BY <1>12, Zenon DEF Stage, k, Replaced
  <2>2. k.alone /\ os # "linux" => file["data"] = k.source /\ (Alive => proc.version = k.source)
    BY <1>12, Zenon DEF Stage, k, Replaced
  <2>3. os' = os /\ file' = file
    BY <1>12, Zenon DEF StartService
  <2>4. os # "linux" =>
          \/ (Alive' <=> Alive) /\ proc'.version = proc.version
          \/ proc'.version = file["data"]
    <3>1. Launch \/ UNCHANGED proc
      BY <1>12, Zenon DEF StartService
    <3> QED BY <3>1, LaunchEffect, Zenon DEF Alive, ExecPath
  <2> QED BY <1>1, <1>12, <2>1, <2>2, <2>3, <2>4, Zenon DEF Stage, StopPhases, Replaced, New
<1>13. CASE p = q /\ WorkerCalls(c) /\ k.worker = "calling"
            /\ l.worker = IF StopAccepted THEN "waiting" ELSE "failed"
  <2>1. p \in {"wait", "drop"}
    BY <1>13, Zenon DEF Stage, k, Phases, Replaced
  <2>2. UNCHANGED <<os, file>> /\ (StopAccepted => StopRequested /\ UNCHANGED <<access, scm>>)
    BY <1>13, Zenon DEF WorkerCalls
  <2>3. k.alone /\ os = "macos" => StopAccepted
    BY <1>13, Zenon DEF Stage, k, StopAccepted
  <2>4. StopAccepted => ~unit'.wanted /\ ~unit'.loaded
    BY <2>2, StopEffect, Zenon
  <2> QED BY <1>1, <1>13, <2>1, <2>2, <2>3, <2>4, Zenon DEF Stage, StopPhases, Replaced, New
<1>14. CASE p = q /\ WorkerReturns(c) /\ k.worker = "waiting" /\ l.worker = "returned"
  <2>1. UNCHANGED hostVars /\ StopReturns
    BY <1>14, Zenon DEF WorkerReturns, Keep, hostVars
  <2>2. Stage(k, p, os', unit', Alive', proc'.version, file'["data"])
    BY <1>2, <2>1, Zenon DEF Stage, k
  <2>3. os' = "macos" => ~Alive'
    BY <1>2, <2>1, Zenon DEF StopReturns
  <2> QED BY <1>1, <1>14, <2>2, <2>3, Zenon DEF Stage, StopPhases, Replaced, New
<1> QED BY <1>4, <1>5, <1>6, <1>7, <1>8, <1>9, <1>10, <1>11, <1>12, <1>13, <1>14,
       Zenon DEF Advances, k, l

-----------------------------------------------------------------------------
(* Every step keeps the invariant of the reports.                          *)

(* No command has begun at first.                                          *)
LEMMA ReportInit == Init => ReportInv
<1> SUFFICES ASSUME Init PROVE ReportInv
  BY Zenon
<1>1. \A c \in Clis : cli[c] = Idle
  BY Zenon DEF Init
<1>2. ReadPlan(Idle) /\ Idle.cmd = "none"
  BY IdleTypes, Zenon DEF ReadPlan
<1> QED BY <1>1, <1>2, Zenon DEF ReportInv, ReadInv, AloneInv, UpdateInv, Mutating, Busy

(* A step of the process keeps what commands rely on.                      *)
LEMMA ReportHost ==
    ASSUME ReportInv, ProcessEffect, cli' = cli
    PROVE  ReportInv'
<1>1. ReadInv' /\ AloneInv'
  BY Zenon DEF ReportInv, ReadInv, AloneInv, Mutating, Busy
<1>2. ASSUME NEW c \in Clis, cli'[c].cmd = "update"
      PROVE  \E p \in Phases :
               /\ cli'[c].todo = Left(p)
               /\ Stage(cli'[c], p, os', unit', Alive', proc'.version, file'["data"])
  <2>1. PICK p \in Phases : /\ cli[c].todo = Left(p)
                            /\ Stage(cli[c], p, os, unit, Alive, proc.version, file["data"])
    BY <1>2, Zenon DEF ReportInv, UpdateInv
  <2> QED BY <2>1, StageHost, Zenon
<1> QED BY <1>1, <1>2, Zenon DEF ReportInv, UpdateInv

(* A command that begins keeps what the others rely on.                    *)
LEMMA ReportBegin ==
    ASSUME CliTypes, ReportInv, NEW c \in Clis, Begin(c)
    PROVE  ReportInv'
<1>1. ~Busy(c) /\ UNCHANGED hostVars
  BY BeginEffect, Zenon
<1>2. PICK cmd \in Commands : Begins(c, cmd)
  BY BeginEffect, Zenon
<1> USE DEF Begins
<1>3. /\ cli'[c].cmd # "none" => cli'[c].cmd = cmd /\ cli'[c].todo = FirstStep(cmd)
                                 /\ cli'[c].worker = "none" /\ cli'[c].exit = "none"
      /\ cli'[c].cmd # "none" /\ cli'[c].alone => \A d \in Clis \ {c} : ~Mutating(d)
      /\ ReadPlan(cli'[c])
  <2>1. CASE cli'[c] = Ended("denied")
    BY <2>1, EndedReads, IdleTypes, Zenon DEF Exits
  <2>2. CASE cli'[c] # Ended("denied")
    <3>1. /\ cli'[c].cmd = cmd /\ cli'[c].todo = FirstStep(cmd)
          /\ cli'[c].worker = "none" /\ cli'[c].exit = "none"
          /\ cli'[c].alone => \A d \in Clis \ {c} : ~Mutating(d)
      BY <1>2, <2>2, Zenon
    <3> QED BY <3>1, Zenon DEF ReadPlan, FirstStep
  <2> QED BY <2>1, <2>2, Zenon
<1>4. ReadInv'
  <2> SUFFICES ASSUME NEW d \in Clis PROVE ReadPlan(cli'[d])
    BY Zenon DEF ReadInv
  <2>1. CASE d # c
    <3>1. /\ cli'[d].todo = cli[d].todo /\ cli'[d].cmd = cli[d].cmd
          /\ cli'[d].worker = cli[d].worker /\ cli'[d].exit = cli[d].exit
          /\ ReadPlan(cli[d])
      BY <1>2, <2>1, Zenon DEF ReportInv, ReadInv
    <3> QED BY <3>1, Zenon DEF ReadPlan
  <2> QED BY <1>3, <2>1, Zenon
<1>5. AloneInv'
  <2> SUFFICES ASSUME NEW x \in Clis, NEW y \in Clis, x # y, cli'[x].alone,
                      cli'[x].cmd # "none", cli'[x].cmd \notin Unprivileged,
                      cli'[y].cmd # "none", cli'[y].cmd \notin Unprivileged
               PROVE  FALSE
    BY Zenon DEF AloneInv, Mutating, Busy
  <2>1. CASE x = c
    BY <1>2, <1>3, <2>1, Zenon DEF Mutating, Busy
  <2>2. CASE x # c /\ y = c
    BY <1>2, <1>3, <2>2, Zenon
  <2>3. CASE x # c /\ y # c
    <3>1. cli[x].cmd = cli'[x].cmd /\ cli[y].cmd = cli'[y].cmd /\ cli[x].alone
      BY <1>2, <2>3, Zenon
    <3> QED BY <3>1, Zenon DEF ReportInv, AloneInv, Mutating, Busy
  <2> QED BY <2>1, <2>2, <2>3, Zenon
<1>6. /\ os' = os /\ unit' = unit /\ (Alive' <=> Alive) /\ proc'.version = proc.version
      /\ file'["data"] = file["data"]
  BY <1>1, Zenon DEF hostVars, Alive
<1>7. ASSUME NEW d \in Clis, cli'[d].cmd = "update"
      PROVE  \E p \in Phases :
               /\ cli'[d].todo = Left(p)
               /\ Stage(cli'[d], p, os', unit', Alive', proc'.version, file'["data"])
  <2>1. CASE d = c
    <3>1. cli'[d].todo = Left("plan") /\ cli'[d].worker = "none"
      BY <1>3, <1>7, <2>1, Lefts, Zenon DEF FirstStep
    <3>2. Stage(cli'[d], "plan", os', unit', Alive', proc'.version, file'["data"])
      BY <3>1, Zenon DEF Stage, StopPhases, Replaced
    <3> QED BY <3>1, <3>2, Zenon DEF Phases
  <2>2. CASE d # c
    <3>1. PICK p \in Phases : /\ cli[d].todo = Left(p)
                              /\ Stage(cli[d], p, os, unit, Alive, proc.version, file["data"])
      BY <1>2, <1>7, <2>2, Zenon DEF ReportInv, UpdateInv
    <3>2. Stage(cli'[d], p, os, unit, Alive, proc.version, file["data"])
      BY <1>2, <2>2, <3>1, StageLater, Zenon
    <3>3. Stage(cli'[d], p, os', unit', Alive', proc'.version, file'["data"])
      BY <1>6, <3>2, Zenon DEF Stage
    <3> QED BY <1>2, <2>2, <3>1, <3>3, Zenon
  <2> QED BY <2>1, <2>2, Zenon
<1> QED BY <1>4, <1>5, <1>7, Zenon DEF ReportInv, UpdateInv

(* A step leaves the command of an invocation, and only a privileged one   *)
(* touches the host.                                                       *)
LEMMA CliKeeps ==
    ASSUME CliTypes, ReportInv, NEW c \in Clis, CliStep(c)
    PROVE  /\ ReadPlan(cli'[c])
           /\ cli'[c].cmd # "none" => cli'[c].cmd = cli[c].cmd
           /\ Mutating(c) /\ cli'[c].cmd # "none" => Moved(cli[c], cli'[c])
           /\ ~Mutating(c) => UNCHANGED hostVars
<1>1. ReadPlan(cli[c])
  BY Zenon DEF ReportInv, ReadInv
<1>2. CASE cli[c].cmd \in Unprivileged \cup {"none"}
  BY <1>1, <1>2, ReadStep, Zenon DEF Mutating, Busy
<1>3. CASE cli[c].cmd \notin Unprivileged \cup {"none"}
  <2>1. CASE \E code \in Exits : cli'[c] = Ended(code)
    BY <1>3, <2>1, EndedReads, IdleTypes, Zenon DEF Mutating, Busy
  <2>2. CASE Moved(cli[c], cli'[c])
    BY <1>1, <1>3, <2>2, MovedReads, Zenon DEF Moved, Mutating, Busy
  <2> QED BY <2>1, <2>2, AnyMove, Zenon
<1> QED BY <1>2, <1>3, Zenon

(* A step of one command keeps what all rely on.                           *)
LEMMA ReportCli ==
    ASSUME HostTypes, HostInv, CliTypes, ReportInv, NEW c \in Clis, CliStep(c), Only(c)
    PROVE  ReportInv'
<1>1. \A d \in Clis : d # c => cli'[d] = cli[d]
  BY Zenon DEF Only
<1>2. /\ ReadPlan(cli'[c])
      /\ cli'[c].cmd # "none" => cli'[c].cmd = cli[c].cmd
      /\ Mutating(c) /\ cli'[c].cmd # "none" => Moved(cli[c], cli'[c])
      /\ ~Mutating(c) => UNCHANGED hostVars
  BY CliKeeps, Zenon
<1>3. ReadInv'
  BY <1>1, <1>2, Zenon DEF ReportInv, ReadInv
<1>4. AloneInv'
  <2> SUFFICES ASSUME NEW x \in Clis, NEW y \in Clis, x # y, cli'[x].alone,
                      cli'[x].cmd # "none", cli'[x].cmd \notin Unprivileged,
                      cli'[y].cmd # "none", cli'[y].cmd \notin Unprivileged
               PROVE  FALSE
    BY Zenon DEF AloneInv, Mutating, Busy
  <2>1. Mutating(x) /\ Mutating(y) /\ cli[x].alone
    BY <1>1, <1>2, Zenon DEF Mutating, Busy, Moved
  <2> QED BY <2>1, Zenon DEF ReportInv, AloneInv
<1>5. ASSUME NEW d \in Clis, cli'[d].cmd = "update"
      PROVE  \E p \in Phases :
               /\ cli'[d].todo = Left(p)
               /\ Stage(cli'[d], p, os', unit', Alive', proc'.version, file'["data"])
  <2>1. cli[d].cmd = "update"
    BY <1>1, <1>2, <1>5, Zenon
  <2>2. PICK p \in Phases : /\ cli[d].todo = Left(p)
                            /\ Stage(cli[d], p, os, unit, Alive, proc.version, file["data"])
    BY <2>1, Zenon DEF ReportInv, UpdateInv
  <2>3. CASE d = c
    <3>1. ~Closes(c, p)
      BY <1>5, <2>3, IdleTypes, Zenon DEF Closes
    <3>2. PICK q \in Phases : /\ cli'[c].todo = Left(q) /\ Moved(cli[c], cli'[c])
                              /\ Advances(c, p, q)
      BY <2>1, <2>2, <2>3, <3>1, UpdateMoves, Zenon
    <3>3. Stage(cli'[c], q, os', unit', Alive', proc'.version, file'["data"])
      BY <2>1, <2>2, <2>3, <3>2, StageStep, Zenon
    <3> QED BY <2>3, <3>2, <3>3, Zenon
  <2>4. CASE d # c /\ Mutating(c)
    <3>1. ~cli[d].alone /\ cli'[d] = cli[d]
      BY <1>1, <2>1, <2>4, Zenon DEF ReportInv, AloneInv, Mutating, Busy, Unprivileged
    <3>2. Stage(cli'[d], p, os', unit', Alive', proc'.version, file'["data"])
      BY <2>2, <3>1, Zenon DEF Stage
    <3> QED BY <2>2, <3>1, <3>2, Zenon
  <2>5. CASE d # c /\ ~Mutating(c)
    <3>1. /\ os' = os /\ unit' = unit /\ (Alive' <=> Alive) /\ proc'.version = proc.version
          /\ file'["data"] = file["data"] /\ cli'[d] = cli[d]
      BY <1>1, <1>2, <2>5, Zenon DEF hostVars, Alive
    <3>2. Stage(cli'[d], p, os', unit', Alive', proc'.version, file'["data"])
      BY <2>2, <3>1, Zenon DEF Stage
    <3> QED BY <2>2, <3>1, <3>2, Zenon
  <2> QED BY <2>3, <2>4, <2>5, Zenon
<1> QED BY <1>3, <1>4, <1>5, Zenon DEF ReportInv, UpdateInv

(* The invariant is inductive.                                             *)
LEMMA ReportStep ==
    ASSUME BaseInv, ReportInv, [Next]_vars
    PROVE  ReportInv'
<1>1. HostTypes /\ HostInv /\ CliTypes /\ InstallInv
  BY Zenon DEF BaseInv
<1>2. CASE HostNext /\ UNCHANGED cliVars
  <2>1. ProcessEffect /\ cli' = cli
    BY <1>1, <1>2, ServerEffect, MainEffect, Zenon DEF HostNext, cliVars
  <2> QED BY <2>1, ReportHost, Zenon
<1>3. ASSUME NEW c \in Clis, Begin(c)
      PROVE  ReportInv'
  BY <1>1, <1>3, ReportBegin, Zenon
<1>4. ASSUME NEW c \in Clis, CliStep(c)
      PROVE  ReportInv'
  BY <1>1, <1>4, InstallStep, ReportCli, Zenon
<1>5. CASE UNCHANGED vars
  <2>1. ProcessEffect /\ cli' = cli
    BY <1>1, <1>5, Zenon DEF vars, hostVars, cliVars, ProcessEffect, HostTypes, Alive
  <2> QED BY <2>1, ReportHost, Zenon
<1> QED BY <1>2, <1>3, <1>4, <1>5, Zenon DEF Next

(* A running status has come from a server that answered.                  *)
LEMMA StatusProbed ==
    ASSUME BaseInv, ReportInv, [Next]_vars, NEW c \in Clis,
           cli[c].cmd = "status", cli[c].exit = "none", cli'[c].exit = "ok"
    PROVE  Listening
<1>1. CliTypes /\ HostTypes /\ InstallInv /\ ReadPlan(cli[c])
  BY Zenon DEF BaseInv, ReportInv, ReadInv
<1>2. cli'[c] # cli[c]
  BY Zenon
<1>3. ~UNCHANGED vars /\ ~UNCHANGED cliVars
  BY <1>2, Zenon DEF vars, cliVars
<1>4. \A d \in Clis : ~Begin(d)
  <2> SUFFICES ASSUME NEW d \in Clis, Begin(d) PROVE FALSE
    BY Zenon
  <2>1. d # c
    BY <1>1, BeginEffect, Zenon DEF Busy
  <2> QED BY <1>1, <2>1, BeginEffect, Zenon DEF Begins
<1>5. PICK d \in Clis : CliStep(d)
  BY <1>3, <1>4, Zenon DEF Next
<1>6. d = c
  BY <1>1, <1>2, <1>5, InstallStep, Zenon DEF Only
<1> QED BY <1>1, <1>5, <1>6, ReadStep, Zenon DEF Unprivileged

(* A finished update has its version running.                              *)
LEMMA UpdateEffective ==
    ASSUME BaseInv, ReportInv, [Next]_vars, NEW c \in Clis,
           UpdateDone(c), cli[c].alone, os # "linux"
    PROVE  proc.version = cli[c].source
<1>1. CliTypes /\ HostTypes /\ HostInv /\ InstallInv /\ cli[c].exit = "none"
  BY Zenon DEF BaseInv, ReportInv, ReadInv, ReadPlan, UpdateDone
<1>2. /\ cli[c].cmd = "update" /\ cli'[c].exit = "ok" /\ Head(cli[c].todo) = "is_running"
  BY Zenon DEF UpdateDone, At
<1>3. ~UNCHANGED vars /\ ~UNCHANGED cliVars
  BY <1>1, <1>2, Zenon DEF vars, cliVars
<1>4. \A d \in Clis : ~Begin(d)
  <2> SUFFICES ASSUME NEW d \in Clis, Begin(d) PROVE FALSE
    BY Zenon
  <2>1. d # c
    BY <1>1, <1>2, BeginEffect, Zenon DEF Busy
  <2> QED BY <1>1, <1>2, <2>1, BeginEffect, Zenon DEF Begins
<1>5. PICK d \in Clis : CliStep(d)
  BY <1>3, <1>4, Zenon DEF Next
<1>6. d = c
  BY <1>1, <1>2, <1>5, InstallStep, Zenon DEF Only
<1>7. PICK p \in Phases : /\ cli[c].todo = Left(p)
                          /\ Stage(cli[c], p, os, unit, Alive, proc.version, file["data"])
  BY <1>2, Zenon DEF ReportInv, UpdateInv
<1>8. p = "running"
  BY <1>2, <1>7, LeftHeads, Zenon DEF Phases
<1>9. Closes(c, p)
  <2>1. ~Moved(cli[c], cli'[c])
    BY <1>1, <1>2, Zenon DEF Moved
  <2> QED BY <1>1, <1>2, <1>5, <1>6, <1>7, <2>1, UpdateMoves, Zenon
<1>10. "Running" \in Status
  BY <1>2, <1>8, <1>9, IdleTypes, Zenon DEF Closes
<1> QED BY <1>1, <1>7, <1>8, <1>10, RunningStatus, Zenon DEF Stage, Replaced

(* What a command says on success is so, for any number of overlapping     *)
(* commands, crashes, hangs and relaunches: status says running only when  *)
(* the server answered (cmds/status.rs), and, where install and update     *)
(* agree on the path, an update that stopped, replaced and restarted the   *)
(* service with no other privileged command in between ends with the new   *)
(* version running (cmds/update.rs), even when its stop had to kill a hung *)
(* process or the manager relaunched it meanwhile.                         *)
THEOREM ReportsHold == Spec => ReportsAreTrue
<1> DEFINE A == \A c \in Clis : cli[c].cmd = "status" /\ cli[c].exit = "none" /\ cli'[c].exit = "ok"
                  => Listening
           B == \A c \in Clis : UpdateDone(c) /\ cli[c].alone /\ os # "linux"
                  => proc.version = cli[c].source
<1>1. BaseInv /\ ReportInv /\ [Next]_vars => [A]_vars
  BY StatusProbed, Zenon
<1>2. BaseInv /\ ReportInv /\ [Next]_vars => [B]_vars
  BY UpdateEffective, Zenon
<1> HIDE DEF A, B
<1>3. BaseInv /\ ReportInv /\ [Next]_vars => ReportInv'
  BY ReportStep, Zenon
<1>4. Spec => [][A]_vars /\ [][B]_vars
  BY <1>1, <1>2, <1>3, BaseInvariant, ReportInit, PTL DEF Spec
<1> QED BY <1>4, Zenon DEF A, B, ReportsAreTrue, StatusIsProbed, UpdateTakesEffectOffLinux

-----------------------------------------------------------------------------
(* install and stop: the steps left are told by the first of them.         *)

InstallPoints == {"install", "copy_exec", "grant", "define", "is_defined"}
StopPoints == {"stop", "stop_worker", "stop_wait", "stop_drop", "is_stopped"}

Ahead(h) ==
    CASE h = "install" -> <<"install">>
      [] h = "copy_exec" -> <<"copy_exec", "grant", "define", "is_defined">>
      [] h = "grant" -> <<"grant", "define", "is_defined">>
      [] h = "define" -> <<"define", "is_defined">>
      [] h = "is_defined" -> <<"is_defined">>
      [] h = "stop" -> <<"stop">>
      [] h = "stop_worker" -> <<"stop_worker", "stop_wait", "is_stopped">>
      [] h = "stop_wait" -> <<"stop_wait", "is_stopped">>
      [] h = "stop_drop" -> <<"stop_drop", "is_stopped">>
      [] h = "is_stopped" -> <<"is_stopped">>

(* The lists, written out.                                                 *)
LEMMA Aheads ==
    /\ Ahead("install") = <<"install">>
    /\ Ahead("copy_exec") = <<"copy_exec", "grant", "define", "is_defined">>
    /\ Ahead("grant") = <<"grant", "define", "is_defined">>
    /\ Ahead("define") = <<"define", "is_defined">>
    /\ Ahead("is_defined") = <<"is_defined">>
    /\ Ahead("stop") = <<"stop">>
    /\ Ahead("stop_worker") = <<"stop_worker", "stop_wait", "is_stopped">>
    /\ Ahead("stop_wait") = <<"stop_wait", "is_stopped">>
    /\ Ahead("stop_drop") = <<"stop_drop", "is_stopped">>
    /\ Ahead("is_stopped") = <<"is_stopped">>
BY Zenon DEF Ahead

(* The first step names the list.                                          *)
LEMMA AheadHeads ==
    \A h \in InstallPoints \cup StopPoints :
        Ahead(h) \in Seq(Words) /\ Ahead(h) # <<>> /\ Head(Ahead(h)) = h
<1> DEFINE Fine(s, x) == s \in Seq(Words) /\ s # <<>> /\ Head(s) = x
<1>1. /\ Fine(<<"install">>, "install") /\ Fine(<<"stop">>, "stop")
      /\ Fine(<<"is_defined">>, "is_defined") /\ Fine(<<"is_stopped">>, "is_stopped")
  BY DEF Words, Steps, Commands
<1>2. Fine(<<"define", "is_defined">>, "define")
  BY DEF Words, Steps
<1>3. Fine(<<"stop_wait", "is_stopped">>, "stop_wait")
  BY DEF Words, Steps
<1>4. Fine(<<"stop_drop", "is_stopped">>, "stop_drop")
  BY DEF Words, Steps
<1>5. Fine(<<"grant", "define", "is_defined">>, "grant")
  BY DEF Words, Steps
<1>6. Fine(<<"stop_worker", "stop_wait", "is_stopped">>, "stop_worker")
  BY DEF Words, Steps
<1>7. Fine(<<"copy_exec", "grant", "define", "is_defined">>, "copy_exec")
  BY DEF Words, Steps
<1> HIDE DEF Fine
<1>8. \A h \in InstallPoints \cup StopPoints : Fine(Ahead(h), h)
  BY <1>1, <1>2, <1>3, <1>4, <1>5, <1>6, <1>7, Aheads, Zenon DEF InstallPoints, StopPoints
<1> QED BY <1>8, Zenon DEF Fine

(* The next list.                                                          *)
LEMMA AheadTails ==
    /\ Tail(Ahead("copy_exec")) = Ahead("grant") /\ Tail(Ahead("grant")) = Ahead("define")
    /\ Tail(Ahead("define")) = Ahead("is_defined") /\ Tail(Ahead("is_defined")) = <<>>
    /\ Tail(Ahead("stop_worker")) = Ahead("stop_wait")
    /\ Tail(Ahead("stop_wait")) = Ahead("is_stopped")
    /\ Tail(Ahead("stop_drop")) = Ahead("is_stopped") /\ Tail(Ahead("is_stopped")) = <<>>
<1>1. Tail(<<"copy_exec", "grant", "define", "is_defined">>) = <<"grant", "define", "is_defined">>
  OBVIOUS
<1>2. Tail(<<"grant", "define", "is_defined">>) = <<"define", "is_defined">>
  OBVIOUS
<1>3. Tail(<<"stop_worker", "stop_wait", "is_stopped">>) = <<"stop_wait", "is_stopped">>
  OBVIOUS
<1>4. /\ Tail(<<"define", "is_defined">>) = <<"is_defined">>
      /\ Tail(<<"stop_wait", "is_stopped">>) = <<"is_stopped">>
      /\ Tail(<<"stop_drop", "is_stopped">>) = <<"is_stopped">>
  OBVIOUS
<1> QED BY <1>1, <1>2, <1>3, <1>4, Aheads, Single, Zenon

(* A branch taken in place of a query, and the kill in place of the wait.  *)
LEMMA AheadJoins ==
    /\ InstallSteps \o Tail(Ahead("install")) = Ahead("copy_exec")
    /\ <<"stop_worker", "stop_wait", "is_stopped">> \o Tail(Ahead("stop")) = Ahead("stop_worker")
    /\ <<"stop_drop">> \o Tail(Ahead("stop_wait")) = Ahead("stop_drop")
<1>1. Tail(Ahead("install")) = <<>> /\ Tail(Ahead("stop")) = <<>>
  BY Aheads, Single, Zenon
<1>2. /\ InstallSteps \o <<>> = InstallSteps
      /\ <<"stop_worker", "stop_wait", "is_stopped">> \o <<>>
           = <<"stop_worker", "stop_wait", "is_stopped">>
  BY DEF InstallSteps
<1>3. <<"stop_drop">> \o <<"is_stopped">> = <<"stop_drop", "is_stopped">>
  <2> DEFINE s == <<"stop_drop">>
             t == <<"is_stopped">>
             r == <<"stop_drop", "is_stopped">>
  <2>1. /\ s \in Seq(Words) /\ Len(s) = 1 /\ s[1] = "stop_drop"
        /\ t \in Seq(Words) /\ Len(t) = 1 /\ t[1] = "is_stopped"
        /\ r \in Seq(Words) /\ Len(r) = 1 + 1 /\ r[1] = "stop_drop" /\ r[1 + 1] = "is_stopped"
    BY DEF Words, Steps
  <2> HIDE DEF s, t, r
  <2>2. \A i \in 1..1 : r[i] = s[i] /\ r[1 + i] = t[i]
    <3>1. \A i \in 1..1 : i = 1
      OBVIOUS
    <3> QED BY <2>1, <3>1, Zenon
  <2>3. /\ Len(r) = Len(s) + Len(t) /\ \A i \in 1..Len(s) : r[i] = s[i]
        /\ \A i \in 1..Len(t) : r[Len(s) + i] = t[i]
    BY <2>1, <2>2, Zenon
  <2>4. s \o t = r
    BY <2>1, <2>3, JoinWords, Zenon
  <2> QED BY <2>4, Zenon DEF s, t, r
<1>4. Tail(Ahead("stop_wait")) = <<"is_stopped">>
  BY AheadTails, Aheads, Zenon
<1> QED BY <1>1, <1>2, <1>3, <1>4, Aheads, Zenon DEF InstallSteps

(* A step of an install or a stop from point h to point g.                 *)
InstallTo(c, h, g) ==
    \/ h = "install" /\ g = "copy_exec" /\ Still(c)
    \/ /\ h = "copy_exec" /\ g = "grant" /\ (Copy(c) \/ CopySkipped(c))
       /\ cli'[c].worker = cli[c].worker
    \/ h = "grant" /\ g = "define" /\ Grant(c) /\ cli'[c].worker = cli[c].worker
    \/ /\ h = "define" /\ g = "is_defined" /\ Define(c) /\ unit'.defined
       /\ cli'[c].worker = cli[c].worker

StopTo(c, h, g) ==
    \/ h = "stop" /\ g = "stop_worker" /\ Still(c) /\ "Running" \in Status
    \/ h = "stop_worker" /\ g = "stop_wait" /\ cli'[c].worker = "calling" /\ UNCHANGED hostVars
    \/ /\ h = "stop_wait" /\ g = "stop_drop" /\ cli'[c].worker = cli[c].worker
       /\ cli[c].worker \in {"calling", "waiting"} /\ StopTimesOut(c)
    \/ h = "stop_wait" /\ g = "is_stopped" /\ Still(c) /\ cli[c].worker = "returned"
    \/ h = "stop_drop" /\ g = "is_stopped" /\ Still(c) /\ cli[c].worker \in {"returned", "failed"}
    \/ /\ h = g /\ WorkerCalls(c) /\ cli[c].worker = "calling"
       /\ cli'[c].worker = IF StopAccepted THEN "waiting" ELSE "failed"
    \/ h = g /\ WorkerReturns(c) /\ cli[c].worker = "waiting" /\ cli'[c].worker = "returned"

(* Success comes with the last confirmation only.                          *)
EndsAt(c, last) == \E code \in Exits : cli'[c] = Ended(code) /\ (code = "ok" => last)

(* A step of an install ends it or takes it to its next point.             *)
LEMMA InstallMoves ==
    ASSUME CliTypes, NEW c \in Clis, CliStep(c), cli[c].worker = "none",
           NEW h \in InstallPoints, cli[c].todo = Ahead(h)
    PROVE  \/ EndsAt(c, h = "is_defined")
           \/ \E g \in InstallPoints : /\ cli'[c].todo = Ahead(g) /\ Moved(cli[c], cli'[c])
                                       /\ InstallTo(c, h, g)
<1> DEFINE Goal == \/ EndsAt(c, h = "is_defined")
                   \/ \E g \in InstallPoints : /\ cli'[c].todo = Ahead(g)
                                               /\ Moved(cli[c], cli'[c]) /\ InstallTo(c, h, g)
<1> SUFFICES Goal
  BY Zenon
<1>1. Ahead(h) # <<>> /\ Ahead(h) \in Seq(Words) /\ Head(Ahead(h)) = h
  BY AheadHeads, Zenon
<1>2. ASSUME NEW code \in Exits, Exit(c, code), code # "ok"
      PROVE  Goal
  BY <1>2, ExitMove, Zenon DEF EndsAt
<1>3. ASSUME NEW g \in InstallPoints, Go(c, Ahead(g))
      PROVE  /\ cli'[c].todo = Ahead(g) /\ Moved(cli[c], cli'[c])
             /\ cli'[c].worker = cli[c].worker
  BY <1>3, AheadHeads, GoMove, Zenon
<1>4. ASSUME NEW g \in InstallPoints, Step(c), Tail(Ahead(h)) = Ahead(g)
      PROVE  /\ cli'[c].todo = Ahead(g) /\ Moved(cli[c], cli'[c])
             /\ cli'[c].worker = cli[c].worker
  BY <1>3, <1>4, Zenon DEF Step
<1>5. ASSUME NEW g \in InstallPoints, cli'[c].todo = Ahead(g), Moved(cli[c], cli'[c]),
             InstallTo(c, h, g)
      PROVE  Goal
  BY <1>5, Zenon
<1> HIDE DEF Goal
<1>6. ~WorkerCalls(c) /\ ~WorkerReturns(c)
  BY Zenon DEF WorkerCalls, WorkerReturns
<1>7. CASE h = "install"
  <2>1. QueryStatus(c)
    BY <1>1, <1>6, <1>7, Acts, Zenon DEF Confirms
  <2>2. UNCHANGED hostVars
    BY <2>1, Zenon DEF QueryStatus, Keep, hostVars
  <2>3. PICK s \in Status : Follow(c, Branches[h][s])
    BY <1>1, <2>1, Zenon DEF QueryStatus
  <2>4. s \in StatusValues
    BY <2>3, StatusAnswers, Zenon
  <2>5. CASE s = "NotInstalled"
    <3>1. Branches[h][s] = InstallSteps
      BY <1>7, <2>5 DEF Branches
    <3>2. Head(InstallSteps) = "copy_exec" /\ "copy_exec" \notin Exits
      BY DEF InstallSteps, Exits
    <3>3. Go(c, Ahead("copy_exec"))
      BY <1>7, <2>3, <3>1, <3>2, AheadJoins, Zenon DEF Follow
    <3> QED BY <1>3, <1>5, <1>7, <2>2, <3>3, Zenon DEF InstallTo, Still, InstallPoints
  <2>6. CASE s \in {"Stopped", "Running"}
    <3>1. Head(Branches[h][s]) = "installed"
      BY <1>7, <2>6 DEF Branches
    <3>2. Exit(c, "installed")
      BY <2>3, <3>1, Zenon DEF Follow, Exits
    <3> QED BY <1>2, <3>2, Zenon DEF Exits
  <2> QED BY <2>4, <2>5, <2>6, Zenon DEF StatusValues
<1>8. CASE h = "copy_exec"
  <2>1. Copy(c) \/ CopySkipped(c) \/ CopyRefused(c) \/ CopyTorn(c)
    BY <1>1, <1>6, <1>8, Acts, Zenon DEF Branches, Confirms
  <2>2. CASE CopyRefused(c) \/ CopyTorn(c)
    BY <1>2, <2>2, Zenon DEF CopyRefused, CopyTorn, Exits
  <2>3. CASE Copy(c) \/ CopySkipped(c)
    <3>1. Step(c) /\ Tail(Ahead(h)) = Ahead("grant") /\ "grant" \in InstallPoints
      BY <1>8, <2>3, AheadTails, Zenon DEF Copy, CopySkipped, InstallPoints
    <3>2. InstallTo(c, h, "grant")
      BY <1>4, <1>8, <2>3, <3>1, Zenon DEF InstallTo
    <3> QED BY <1>4, <1>5, <3>1, <3>2, Zenon
  <2> QED BY <2>1, <2>2, <2>3, Zenon
<1>9. CASE h = "grant"
  <2>1. Grant(c) \/ GrantFails(c)
    BY <1>1, <1>6, <1>9, Acts, Zenon DEF Branches, Confirms
  <2>2. CASE GrantFails(c)
    BY <1>2, <2>2, Zenon DEF GrantFails, Exits
  <2>3. CASE Grant(c)
    <3>1. Step(c) /\ Tail(Ahead(h)) = Ahead("define") /\ "define" \in InstallPoints
      BY <1>9, <2>3, AheadTails, Zenon DEF Grant, InstallPoints
    <3>2. InstallTo(c, h, "define")
      BY <1>4, <1>9, <2>3, <3>1, Zenon DEF InstallTo
    <3> QED BY <1>4, <1>5, <3>1, <3>2, Zenon
  <2> QED BY <2>1, <2>2, <2>3, Zenon
<1>10. CASE h = "define"
  <2>1. Define(c)
    BY <1>1, <1>6, <1>10, Acts, Zenon DEF Branches, Confirms
  <2>2. \/ Exit(c, "other")
        \/ Step(c) /\ \E l \in BOOLEAN : unit' = [defined |-> TRUE, loaded |-> l, wanted |-> l]
    BY <2>1, Zenon DEF Define
  <2>3. CASE Exit(c, "other")
    BY <1>2, <2>3, Zenon DEF Exits
  <2>4. CASE Step(c) /\ \E l \in BOOLEAN : unit' = [defined |-> TRUE, loaded |-> l, wanted |-> l]
    <3>1. Step(c) /\ Tail(Ahead(h)) = Ahead("is_defined") /\ "is_defined" \in InstallPoints
      BY <1>10, <2>4, AheadTails, Zenon DEF InstallPoints
    <3>2. unit'.defined
      BY <2>4
    <3>3. InstallTo(c, h, "is_defined")
      BY <1>4, <1>10, <2>1, <3>1, <3>2, Zenon DEF InstallTo
    <3> QED BY <1>4, <1>5, <3>1, <3>3, Zenon
  <2> QED BY <2>2, <2>3, <2>4, Zenon
<1>11. CASE h = "is_defined"
  <2>1. Confirm(c)
    BY <1>1, <1>6, <1>11, Acts, Zenon DEF Branches
  <2>2. Exit(c, "other") \/ Step(c)
    BY <2>1, Zenon DEF Confirm
  <2>3. CASE Exit(c, "other")
    BY <1>2, <2>3, Zenon DEF Exits
  <2>4. CASE Step(c)
    <3>1. cli'[c] = Ended("ok")
      BY <1>1, <1>11, <2>4, StepMove, AheadTails, Zenon
    <3> QED BY <1>11, <3>1, Zenon DEF Goal, EndsAt, Exits
  <2> QED BY <2>2, <2>3, <2>4, Zenon
<1> QED BY <1>7, <1>8, <1>9, <1>10, <1>11, Zenon DEF InstallPoints

(* A step of a stop ends it or takes it to its next point.                 *)
LEMMA StopMoves ==
    ASSUME CliTypes, NEW c \in Clis, CliStep(c), NEW h \in StopPoints, cli[c].todo = Ahead(h)
    PROVE  \/ EndsAt(c, h = "is_stopped")
           \/ \E g \in StopPoints : /\ cli'[c].todo = Ahead(g) /\ Moved(cli[c], cli'[c])
                                    /\ StopTo(c, h, g)
<1> DEFINE Goal == \/ EndsAt(c, h = "is_stopped")
                   \/ \E g \in StopPoints : /\ cli'[c].todo = Ahead(g)
                                            /\ Moved(cli[c], cli'[c]) /\ StopTo(c, h, g)
<1> SUFFICES Goal
  BY Zenon
<1>1. Ahead(h) # <<>> /\ Ahead(h) \in Seq(Words) /\ Head(Ahead(h)) = h
  BY AheadHeads, Zenon
<1>2. ASSUME NEW code \in Exits, Exit(c, code), code # "ok"
      PROVE  Goal
  BY <1>2, ExitMove, Zenon DEF EndsAt
<1>3. ASSUME NEW g \in StopPoints, Go(c, Ahead(g))
      PROVE  /\ cli'[c].todo = Ahead(g) /\ Moved(cli[c], cli'[c])
             /\ cli'[c].worker = cli[c].worker
  BY <1>3, AheadHeads, GoMove, Zenon
<1>4. ASSUME NEW g \in StopPoints, Step(c), Tail(Ahead(h)) = Ahead(g)
      PROVE  /\ cli'[c].todo = Ahead(g) /\ Moved(cli[c], cli'[c])
             /\ cli'[c].worker = cli[c].worker
  BY <1>3, <1>4, Zenon DEF Step
<1>5. ASSUME NEW g \in StopPoints, cli'[c].todo = Ahead(g), Moved(cli[c], cli'[c]), StopTo(c, h, g)
      PROVE  Goal
  BY <1>5, Zenon
<1> HIDE DEF Goal
<1>6. CASE WorkerCalls(c) \/ WorkerReturns(c)
  <2>1. cli'[c].todo = Ahead(h) /\ Moved(cli[c], cli'[c])
    BY <1>6, WorkerMove, Zenon
  <2>2. StopTo(c, h, h)
    BY <1>6, WorkerMove, Zenon DEF StopTo
  <2> QED BY <1>5, <2>1, <2>2, Zenon
<1>7. CASE ~WorkerCalls(c) /\ ~WorkerReturns(c)
  <2>1. CASE h = "stop"
    <3>1. QueryStatus(c)
      BY <1>1, <1>7, <2>1, Acts, Zenon DEF Confirms
    <3>2. UNCHANGED hostVars
      BY <3>1, Zenon DEF QueryStatus, Keep, hostVars
    <3>3. PICK s \in Status : Follow(c, Branches[h][s])
      BY <1>1, <3>1, Zenon DEF QueryStatus
    <3>4. s \in StatusValues
      BY <3>3, StatusAnswers, Zenon
    <3>5. CASE s = "Running"
      <4>1. /\ Branches[h][s] = <<"stop_worker", "stop_wait", "is_stopped">>
            /\ Head(Branches[h][s]) = "stop_worker" /\ "stop_worker" \notin Exits
        BY <2>1, <3>5 DEF Branches, Exits
      <4>2. Go(c, Ahead("stop_worker"))
        BY <2>1, <3>3, <4>1, AheadJoins, Zenon DEF Follow
      <4> QED BY <1>3, <1>5, <2>1, <3>2, <3>3, <3>5, <4>2, Zenon DEF StopTo, Still, StopPoints
    <3>6. CASE s # "Running"
      <4>1. Head(Branches[h][s]) \in {"not_installed", "stopped"}
        BY <2>1, <3>4, <3>6 DEF Branches, StatusValues
      <4>2. Exit(c, Head(Branches[h][s])) /\ Head(Branches[h][s]) \in Exits
        BY <3>3, <4>1, Zenon DEF Follow, Exits
      <4> QED BY <1>2, <4>1, <4>2, Zenon
    <3> QED BY <3>5, <3>6, Zenon
  <2>2. CASE h = "stop_worker"
    <3>1. SpawnWorker(c)
      BY <1>1, <1>7, <2>2, Acts, Zenon DEF Branches, Confirms
    <3>2. UNCHANGED hostVars
      BY <3>1, Zenon DEF SpawnWorker, Keep, hostVars
    <3> QED BY <1>5, <2>2, <3>1, <3>2, SpawnMove, AheadTails, Zenon DEF StopTo, StopPoints
  <2>3. CASE h = "stop_wait"
    <3>1. StopJoined(c) \/ StopTimesOut(c)
      BY <1>1, <1>7, <2>3, Acts, Zenon DEF Branches, Confirms
    <3>2. CASE StopTimesOut(c)
      <4>1. cli[c].worker \in {"calling", "waiting"} /\ Go(c, Ahead("stop_drop"))
        BY <2>3, <3>2, AheadJoins, Zenon DEF StopTimesOut
      <4> QED BY <1>3, <1>5, <2>3, <3>2, <4>1, Zenon DEF StopTo, StopPoints
    <3>3. CASE StopJoined(c)
      <4>1. /\ UNCHANGED hostVars
            /\ Exit(c, "other") \/ (Step(c) /\ cli[c].worker = "returned")
        BY <3>3, Zenon DEF StopJoined, Keep, hostVars
      <4>2. CASE Exit(c, "other")
        BY <1>2, <4>2, Zenon DEF Exits
      <4>3. CASE Step(c) /\ cli[c].worker = "returned"
        <5>1. Tail(Ahead(h)) = Ahead("is_stopped") /\ "is_stopped" \in StopPoints
          BY <2>3, AheadTails, Zenon DEF StopPoints
        <5>2. StopTo(c, h, "is_stopped")
          BY <1>4, <2>3, <4>1, <4>3, <5>1, Zenon DEF StopTo, Still
        <5> QED BY <1>4, <1>5, <4>3, <5>1, <5>2, Zenon
      <4> QED BY <4>1, <4>2, <4>3, Zenon
    <3> QED BY <3>1, <3>2, <3>3, Zenon
  <2>4. CASE h = "stop_drop"
    <3>1. StopDropped(c)
      BY <1>1, <1>7, <2>4, Acts, Zenon DEF Branches, Confirms
    <3>2. UNCHANGED hostVars /\ Step(c) /\ cli[c].worker \in {"returned", "failed"}
      BY <3>1, Zenon DEF StopDropped, Keep, hostVars
    <3>3. Tail(Ahead(h)) = Ahead("is_stopped") /\ "is_stopped" \in StopPoints
      BY <2>4, AheadTails, Zenon DEF StopPoints
    <3>4. StopTo(c, h, "is_stopped")
      BY <1>4, <2>4, <3>2, <3>3, Zenon DEF StopTo, Still
    <3> QED BY <1>4, <1>5, <3>2, <3>3, <3>4, Zenon
  <2>5. CASE h = "is_stopped"
    <3>1. Confirm(c)
      BY <1>1, <1>7, <2>5, Acts, Zenon DEF Branches
    <3>2. Exit(c, "other") \/ Step(c)
      BY <3>1, Zenon DEF Confirm
    <3>3. CASE Exit(c, "other")
      BY <1>2, <3>3, Zenon DEF Exits
    <3>4. CASE Step(c)
      <4>1. cli'[c] = Ended("ok")
        BY <1>1, <2>5, <3>4, StepMove, AheadTails, Zenon
      <4> QED BY <2>5, <4>1, Zenon DEF Goal, EndsAt, Exits
    <3> QED BY <3>2, <3>3, <3>4, Zenon
  <2> QED BY <2>1, <2>2, <2>3, <2>4, <2>5, Zenon DEF StopPoints
<1> QED BY <1>6, <1>7, Zenon

-----------------------------------------------------------------------------
(* What an install and a stop know of the service at point h: k is the     *)
(* record, o the platform, u the definition, f the binary it names, g      *)
(* whether access is granted, a whether the process is alive and b whether *)
(* it has been told to end.                                                *)

InstallKnows(k, h, u, f, g) ==
    /\ k.worker = "none" /\ k.version \in Versions /\ k.source \in Versions
    /\ k.alone =>
         /\ h \in {"grant", "define", "is_defined"} => f \in Versions
         /\ h \in {"define", "is_defined"} => g
         /\ h = "is_defined" => u.defined

(* The worker's call is accepted off Windows: nobody else has undefined or *)
(* unloaded the service since it was seen running.                         *)
StopKnows(k, h, o, u, a, b) ==
    /\ h \in {"stop", "stop_worker"} => k.worker = "none"
    /\ h = "is_stopped" => k.worker \in {"returned", "failed"}
    /\ k.alone =>
         /\ o = "linux" => k.worker # "failed" /\ (h # "stop" => u.defined)
         /\ o = "macos" => /\ k.worker # "failed"
                           /\ h = "stop_worker" \/ k.worker = "calling" => u.loaded
         /\ k.worker \in {"waiting", "returned"} => ~u.wanted
         /\ k.worker = "returned" /\ o # "windows" => ~a
         /\ k.worker \in {"waiting", "returned"} /\ o = "windows" /\ a => b

CourseInv ==
    /\ os \in Platforms
    /\ \A c \in Clis :
         /\ cli[c].cmd = "install" =>
              \E h \in InstallPoints :
                  /\ cli[c].todo = Ahead(h)
                  /\ InstallKnows(cli[c], h, unit, file[ExecPath], access)
         /\ cli[c].cmd = "stop" =>
              \E h \in StopPoints :
                  /\ cli[c].todo = Ahead(h)
                  /\ StopKnows(cli[c], h, os, unit, Alive, proc.control)

(* A step of the process changes nothing an install knows, and relaunches  *)
(* nothing that a stop has made unwanted.                                  *)
LEMMA KnowsHost ==
    ASSUME ProcessEffect
    PROVE  /\ \A k, h : InstallKnows(k, h, unit, file[ExecPath], access)
                          => InstallKnows(k, h, unit', file'[ExecPath'], access')
           /\ \A k, h : StopKnows(k, h, os, unit, Alive, proc.control)
                          => StopKnows(k, h, os', unit', Alive', proc'.control)
<1>1. os' = os /\ unit' = unit /\ file' = file /\ access' = access /\ ExecPath' = ExecPath
  BY Zenon DEF ProcessEffect, ExecPath
<1>2. Alive' /\ Alive => (proc.control => proc'.control)
  BY Zenon DEF ProcessEffect
<1>3. Alive' /\ ~Alive => unit.wanted
  BY Zenon DEF ProcessEffect
<1>4. ASSUME NEW k, NEW h, StopKnows(k, h, os, unit, Alive, proc.control)
      PROVE  StopKnows(k, h, os', unit', Alive', proc'.control)
  BY <1>1, <1>2, <1>3, <1>4, Zenon DEF StopKnows
<1> QED BY <1>1, <1>4, Zenon

(* What is known stays known when another command begins.                  *)
LEMMA KnowsLater ==
    ASSUME NEW k, NEW l, NEW h, l.worker = k.worker, l.version = k.version,
           l.source = k.source, l.alone => k.alone
    PROVE  /\ \A u, f, g : InstallKnows(k, h, u, f, g) => InstallKnows(l, h, u, f, g)
           /\ \A o, u, a, b : StopKnows(k, h, o, u, a, b) => StopKnows(l, h, o, u, a, b)
BY DEF InstallKnows, StopKnows

(* A step of the install itself.                                           *)
LEMMA InstallKnowsStep ==
    ASSUME HostTypes, CliTypes, NEW c \in Clis, NEW h \in InstallPoints,
           NEW g \in InstallPoints, cli[c].todo = Ahead(h), Moved(cli[c], cli'[c]),
           InstallTo(c, h, g), InstallKnows(cli[c], h, unit, file[ExecPath], access)
    PROVE  InstallKnows(cli'[c], g, unit', file'[ExecPath'], access')
<1> DEFINE k == cli[c]
           l == cli'[c]
<1> SUFFICES InstallKnows(l, g, unit', file'[ExecPath'], access')
  BY Zenon
<1>1. l.source = k.source /\ l.alone = k.alone /\ l.version = k.version
  BY Zenon DEF Moved
<1>2. InstallKnows(k, h, unit, file[ExecPath], access)
  BY Zenon
<1>3. k.version \in Versions /\ k.source \in Versions /\ k.worker = "none"
  BY <1>2, Zenon DEF InstallKnows
<1>4. l.worker = k.worker
  BY Zenon DEF InstallTo, Still
<1>5. CASE h = "install" /\ g = "copy_exec"
  BY <1>1, <1>3, <1>4, <1>5, Zenon DEF InstallKnows
<1>6. CASE h = "copy_exec" /\ g = "grant" /\ (Copy(c) \/ CopySkipped(c))
  <2>1. os' = os /\ ExecPath' = ExecPath
    BY <1>6, Zenon DEF Copy, CopySkipped, Keep, hostVars, ExecPath
  <2>2. CASE CopySkipped(c)
    <3>1. file'[ExecPath'] \in Versions
      BY <1>3, <2>1, <2>2, Zenon DEF CopySkipped, Keep, hostVars
    <3> HIDE DEF k, l
    <3> QED BY <1>1, <1>3, <1>4, <1>6, <3>1 DEF InstallKnows
  <2>3. CASE Copy(c)
    <3>1. At(c, "copy_exec")
      BY <1>6, <2>3, AheadHeads, Zenon DEF Copy, Copying, At
    <3>2. file' = [file EXCEPT ![ExecPath] = k.source]
      BY <2>3, <3>1, Zenon DEF Copy, Target, CopiedVersion
    <3>3. file'[ExecPath'] \in Versions
      BY <1>3, <2>1, <3>2, Paths, Zenon DEF HostTypes
    <3> HIDE DEF k, l
    <3> QED BY <1>1, <1>3, <1>4, <1>6, <3>3 DEF InstallKnows
  <2> QED BY <1>6, <2>2, <2>3, Zenon
<1>7. CASE h = "grant" /\ g = "define" /\ Grant(c)
  <2>1. access' /\ unit' = unit /\ file' = file /\ ExecPath' = ExecPath
    BY <1>7, Zenon DEF Grant, ExecPath
  <2> HIDE DEF k, l
  <2> QED BY <1>1, <1>2, <1>4, <1>7, <2>1 DEF InstallKnows
<1>8. CASE h = "define" /\ g = "is_defined" /\ Define(c) /\ unit'.defined
  <2>1. access' = access /\ file' = file /\ ExecPath' = ExecPath
    BY <1>8, Zenon DEF Define, ExecPath
  <2> HIDE DEF k, l
  <2> QED BY <1>1, <1>2, <1>4, <1>8, <2>1 DEF InstallKnows
<1> QED BY <1>5, <1>6, <1>7, <1>8, Zenon DEF InstallTo

(* A step of the stop itself.                                              *)
LEMMA StopKnowsStep ==
    ASSUME HostTypes, HostInv, CliTypes, NEW c \in Clis, NEW h \in StopPoints,
           NEW g \in StopPoints, cli[c].todo = Ahead(h), Moved(cli[c], cli'[c]),
           StopTo(c, h, g), StopKnows(cli[c], h, os, unit, Alive, proc.control)
    PROVE  StopKnows(cli'[c], g, os', unit', Alive', proc'.control)
<1> DEFINE k == cli[c]
           l == cli'[c]
<1> SUFFICES StopKnows(l, g, os', unit', Alive', proc'.control)
  BY Zenon
<1>1. l.alone = k.alone
  BY Zenon DEF Moved
<1>2. StopKnows(k, h, os, unit, Alive, proc.control)
  BY Zenon
<1>3. ASSUME UNCHANGED hostVars
      PROVE  StopKnows(k, h, os', unit', Alive', proc'.control)
  <2>1. os' = os /\ unit' = unit /\ (Alive' <=> Alive) /\ proc'.control = proc.control
    BY <1>3, Zenon DEF hostVars, Alive
  <2> HIDE DEF k
  <2> QED BY <1>2, <2>1, Zenon DEF StopKnows
<1>4. CASE h = "stop" /\ g = "stop_worker" /\ Still(c) /\ "Running" \in Status
  <2>1. UNCHANGED hostVars /\ l.worker = k.worker
    BY <1>4, Zenon DEF Still
  <2>2. unit'.defined /\ (os' = "macos" => unit'.loaded)
    BY <1>4, <2>1, RunningStatus, Zenon DEF hostVars
  <2>3. StopKnows(k, h, os', unit', Alive', proc'.control)
    BY <1>3, <2>1, Zenon
  <2> HIDE DEF k, l
  <2> QED BY <1>1, <1>4, <2>1, <2>2, <2>3 DEF StopKnows
<1>5. CASE h = "stop_worker" /\ g = "stop_wait" /\ l.worker = "calling" /\ UNCHANGED hostVars
  <2>1. StopKnows(k, h, os', unit', Alive', proc'.control)
    BY <1>3, <1>5, Zenon
  <2> HIDE DEF k, l
  <2> QED BY <1>1, <1>5, <2>1 DEF StopKnows
<1>6. CASE h = "stop_wait" /\ g = "stop_drop" /\ StopTimesOut(c) /\ l.worker = k.worker
  <2>1. os' = os /\ unit' = unit /\ (~Alive' \/ proc' = proc)
    BY <1>6, KillEffect, Zenon DEF StopTimesOut
  <2>2. Alive' => Alive /\ proc'.control = proc.control
    BY <2>1, Zenon DEF Alive
  <2> HIDE DEF k, l
  <2> QED BY <1>1, <1>2, <1>6, <2>1, <2>2 DEF StopKnows
<1>7. CASE h \in {"stop_wait", "stop_drop"} /\ g = "is_stopped" /\ Still(c)
           /\ k.worker \in {"returned", "failed"}
  <2>1. UNCHANGED hostVars /\ l.worker = k.worker
    BY <1>7, Zenon DEF Still
  <2>2. StopKnows(k, h, os', unit', Alive', proc'.control)
    BY <1>3, <2>1, Zenon
  <2> HIDE DEF k, l
  <2> QED BY <1>1, <1>7, <2>1, <2>2 DEF StopKnows
<1>8. CASE h = g /\ WorkerCalls(c) /\ k.worker = "calling"
           /\ l.worker = IF StopAccepted THEN "waiting" ELSE "failed"
  <2>1. h \in {"stop_wait", "stop_drop"}
    <3> HIDE DEF k
    <3> QED BY <1>2, <1>8, Zenon DEF StopKnows, StopPoints
  <2>2. os' = os /\ (StopAccepted => StopRequested /\ UNCHANGED <<file, access, scm>>)
    BY <1>8, Zenon DEF WorkerCalls
  <2>3. k.alone /\ os \in {"linux", "macos"} => StopAccepted
    <3>1. k.alone /\ os = "linux" => unit.defined
      BY <1>2, <2>1, Zenon DEF StopKnows
    <3>2. k.alone /\ os = "macos" => unit.loaded
      BY <1>2, <1>8, Zenon DEF StopKnows
    <3> HIDE DEF k
    <3> QED BY <3>1, <3>2, Zenon DEF StopAccepted
  <2>4. StopAccepted => /\ ~unit'.wanted /\ unit'.defined = unit.defined
                        /\ (Alive' <=> Alive) /\ (Alive => proc'.control)
    BY <2>2, StopEffect, Zenon
  <2> HIDE DEF k, l
  <2> QED BY <1>1, <1>2, <1>8, <2>1, <2>2, <2>3, <2>4 DEF StopKnows
<1>9. CASE h = g /\ WorkerReturns(c) /\ k.worker = "waiting" /\ l.worker = "returned"
  <2>1. UNCHANGED hostVars /\ StopReturns
    BY <1>9, Zenon DEF WorkerReturns, Keep, hostVars
  <2>2. StopKnows(k, h, os', unit', Alive', proc'.control)
    BY <1>3, <2>1, Zenon
  <2>3. os' # "windows" => ~Alive'
    BY <2>1, Zenon DEF StopReturns, hostVars, Alive
  <2> HIDE DEF k, l
  <2> QED BY <1>1, <1>9, <2>2, <2>3 DEF StopKnows
<1> QED BY <1>4, <1>5, <1>6, <1>7, <1>8, <1>9, Zenon DEF StopTo

(* What the two commands know is the same while the host is the same.      *)
LEMMA KnowsSame ==
    ASSUME UNCHANGED hostVars
    PROVE  /\ \A k, h : InstallKnows(k, h, unit, file[ExecPath], access)
                          => InstallKnows(k, h, unit', file'[ExecPath'], access')
           /\ \A k, h : StopKnows(k, h, os, unit, Alive, proc.control)
                          => StopKnows(k, h, os', unit', Alive', proc'.control)
<1>1. /\ os' = os /\ unit' = unit /\ file' = file /\ access' = access /\ ExecPath' = ExecPath
      /\ (Alive' <=> Alive) /\ proc' = proc
  BY Zenon DEF hostVars, ExecPath, Alive
<1>2. ASSUME NEW k, NEW h, StopKnows(k, h, os, unit, Alive, proc.control)
      PROVE  StopKnows(k, h, os', unit', Alive', proc'.control)
  BY <1>1, <1>2, Zenon DEF StopKnows
<1> QED BY <1>1, <1>2, Zenon

(* No command is under way at first.                                       *)
LEMMA CourseInit == Init => CourseInv
<1> SUFFICES ASSUME Init, NEW c \in Clis PROVE cli[c].cmd = "none"
  BY Zenon DEF CourseInv, Init, HostInit
<1>1. cli[c] = Idle
  BY Zenon DEF Init
<1> QED BY <1>1, IdleTypes, Zenon

(* A step of the process, or none.                                         *)
LEMMA CourseHost ==
    ASSUME CourseInv, ProcessEffect, cli' = cli
    PROVE  CourseInv'
<1>1. ASSUME NEW c \in Clis, cli'[c].cmd = "install"
      PROVE  \E h \in InstallPoints :
               /\ cli'[c].todo = Ahead(h)
               /\ InstallKnows(cli'[c], h, unit', file'[ExecPath'], access')
  <2>1. PICK h \in InstallPoints :
          /\ cli[c].todo = Ahead(h)
          /\ InstallKnows(cli[c], h, unit, file[ExecPath], access)
    BY <1>1, Zenon DEF CourseInv
  <2> QED BY <2>1, KnowsHost, Zenon
<1>2. ASSUME NEW c \in Clis, cli'[c].cmd = "stop"
      PROVE  \E h \in StopPoints :
               /\ cli'[c].todo = Ahead(h)
               /\ StopKnows(cli'[c], h, os', unit', Alive', proc'.control)
  <2>1. PICK h \in StopPoints :
          /\ cli[c].todo = Ahead(h)
          /\ StopKnows(cli[c], h, os, unit, Alive, proc.control)
    BY <1>2, Zenon DEF CourseInv
  <2> QED BY <2>1, KnowsHost, Zenon
<1>3. os' \in Platforms
  BY Zenon DEF CourseInv, ProcessEffect
<1> QED BY <1>1, <1>2, <1>3, Zenon DEF CourseInv

(* A command that begins.                                                  *)
LEMMA CourseBegin ==
    ASSUME CliTypes, CourseInv, NEW c \in Clis, Begin(c)
    PROVE  CourseInv'
<1>1. UNCHANGED hostVars
  BY BeginEffect, Zenon
<1>2. PICK cmd \in Commands : Begins(c, cmd)
  BY BeginEffect, Zenon
<1>3. cli'[c].cmd # "none" =>
        /\ cli'[c].cmd = cmd /\ cli'[c].todo = FirstStep(cmd) /\ cli'[c].worker = "none"
        /\ cli'[c].version \in Versions /\ cli'[c].source \in Versions
  BY <1>2, IdleTypes, Zenon DEF Begins, Exits
<1>4. ASSUME NEW d \in Clis, d # c
      PROVE  /\ cli'[d].todo = cli[d].todo /\ cli'[d].cmd = cli[d].cmd
             /\ cli'[d].worker = cli[d].worker /\ cli'[d].version = cli[d].version
             /\ cli'[d].source = cli[d].source /\ (cli'[d].alone => cli[d].alone)
  BY <1>2, <1>4, Zenon DEF Begins
<1>5. ASSUME NEW d \in Clis, cli'[d].cmd = "install"
      PROVE  \E h \in InstallPoints :
               /\ cli'[d].todo = Ahead(h)
               /\ InstallKnows(cli'[d], h, unit', file'[ExecPath'], access')
  <2>1. CASE d = c
    <3>1. /\ cli'[d].todo = Ahead("install") /\ cli'[d].worker = "none"
          /\ cli'[d].version \in Versions /\ cli'[d].source \in Versions
      BY <1>3, <1>5, <2>1, Aheads, Zenon DEF FirstStep
    <3>2. InstallKnows(cli'[d], "install", unit', file'[ExecPath'], access')
      BY <3>1, Zenon DEF InstallKnows
    <3> QED BY <3>1, <3>2, Zenon DEF InstallPoints
  <2>2. CASE d # c
    <3>1. PICK h \in InstallPoints :
            /\ cli[d].todo = Ahead(h)
            /\ InstallKnows(cli[d], h, unit, file[ExecPath], access)
      BY <1>4, <1>5, <2>2, Zenon DEF CourseInv
    <3>2. InstallKnows(cli'[d], h, unit, file[ExecPath], access)
      BY <1>4, <2>2, <3>1, KnowsLater, Zenon
    <3>3. InstallKnows(cli'[d], h, unit', file'[ExecPath'], access')
      BY <1>1, <3>2, KnowsSame, Zenon
    <3> QED BY <1>4, <2>2, <3>1, <3>3, Zenon
  <2> QED BY <2>1, <2>2, Zenon
<1>6. ASSUME NEW d \in Clis, cli'[d].cmd = "stop"
      PROVE  \E h \in StopPoints :
               /\ cli'[d].todo = Ahead(h)
               /\ StopKnows(cli'[d], h, os', unit', Alive', proc'.control)
  <2>1. CASE d = c
    <3>1. cli'[d].todo = Ahead("stop") /\ cli'[d].worker = "none"
      BY <1>3, <1>6, <2>1, Aheads, Zenon DEF FirstStep
    <3>2. StopKnows(cli'[d], "stop", os', unit', Alive', proc'.control)
      BY <3>1, Zenon DEF StopKnows
    <3> QED BY <3>1, <3>2, Zenon DEF StopPoints
  <2>2. CASE d # c
    <3>1. PICK h \in StopPoints :
            /\ cli[d].todo = Ahead(h)
            /\ StopKnows(cli[d], h, os, unit, Alive, proc.control)
      BY <1>4, <1>6, <2>2, Zenon DEF CourseInv
    <3>2. StopKnows(cli'[d], h, os, unit, Alive, proc.control)
      BY <1>4, <2>2, <3>1, KnowsLater, Zenon
    <3>3. StopKnows(cli'[d], h, os', unit', Alive', proc'.control)
      BY <1>1, <3>2, KnowsSame, Zenon
    <3> QED BY <1>4, <2>2, <3>1, <3>3, Zenon
  <2> QED BY <2>1, <2>2, Zenon
<1>7. os' \in Platforms
  BY <1>1, Zenon DEF CourseInv, hostVars
<1> QED BY <1>5, <1>6, <1>7, Zenon DEF CourseInv

(* A step of one command: its own course goes on, an undisturbed one meets *)
(* no step that touches the host.                                          *)
LEMMA CourseCli ==
    ASSUME HostTypes, HostInv, CliTypes, ReportInv, CourseInv, NEW c \in Clis, CliStep(c),
           Only(c)
    PROVE  CourseInv'
<1>1. \A d \in Clis : d # c => cli'[d] = cli[d]
  BY Zenon DEF Only
<1>2. /\ cli'[c].cmd # "none" => cli'[c].cmd = cli[c].cmd
      /\ ~Mutating(c) => UNCHANGED hostVars
  BY CliKeeps, Zenon
<1>3. ASSUME NEW d \in Clis, d # c, Mutating(c), cli[d].cmd \in {"install", "stop"}
      PROVE  ~cli[d].alone
  <2>1. Mutating(d)
    BY <1>3, Zenon DEF Mutating, Busy, Unprivileged
  <2> QED BY <1>3, <2>1, Zenon DEF ReportInv, AloneInv
<1>4. ASSUME NEW d \in Clis, cli'[d].cmd = "install"
      PROVE  \E h \in InstallPoints :
               /\ cli'[d].todo = Ahead(h)
               /\ InstallKnows(cli'[d], h, unit', file'[ExecPath'], access')
  <2>1. cli[d].cmd = "install"
    BY <1>1, <1>2, <1>4, Zenon
  <2>2. PICK h \in InstallPoints :
          /\ cli[d].todo = Ahead(h)
          /\ InstallKnows(cli[d], h, unit, file[ExecPath], access)
    BY <2>1, Zenon DEF CourseInv
  <2>3. CASE d = c
    <3>1. cli[c].worker = "none"
      BY <2>2, <2>3, Zenon DEF InstallKnows
    <3>2. ~EndsAt(c, h = "is_defined")
      BY <1>4, <2>3, IdleTypes, Zenon DEF EndsAt
    <3>3. PICK g \in InstallPoints : /\ cli'[c].todo = Ahead(g) /\ Moved(cli[c], cli'[c])
                                     /\ InstallTo(c, h, g)
      BY <2>2, <2>3, <3>1, <3>2, InstallMoves, Zenon
    <3>4. InstallKnows(cli'[c], g, unit', file'[ExecPath'], access')
      BY <2>2, <2>3, <3>3, InstallKnowsStep, Zenon
    <3> QED BY <2>3, <3>3, <3>4, Zenon
  <2>4. CASE d # c /\ Mutating(c)
    <3>1. ~cli[d].alone /\ cli'[d] = cli[d]
      BY <1>1, <1>3, <2>1, <2>4, Zenon
    <3>2. InstallKnows(cli[d], h, unit', file'[ExecPath'], access')
      BY <2>2, <3>1, Zenon DEF InstallKnows
    <3> QED BY <2>2, <3>1, <3>2, Zenon
  <2>5. CASE d # c /\ ~Mutating(c)
    BY <1>1, <1>2, <2>2, <2>5, KnowsSame, Zenon
  <2> QED BY <2>3, <2>4, <2>5, Zenon
<1>5. ASSUME NEW d \in Clis, cli'[d].cmd = "stop"
      PROVE  \E h \in StopPoints :
               /\ cli'[d].todo = Ahead(h)
               /\ StopKnows(cli'[d], h, os', unit', Alive', proc'.control)
  <2>1. cli[d].cmd = "stop"
    BY <1>1, <1>2, <1>5, Zenon
  <2>2. PICK h \in StopPoints :
          /\ cli[d].todo = Ahead(h)
          /\ StopKnows(cli[d], h, os, unit, Alive, proc.control)
    BY <2>1, Zenon DEF CourseInv
  <2>3. CASE d = c
    <3>1. ~EndsAt(c, h = "is_stopped")
      BY <1>5, <2>3, IdleTypes, Zenon DEF EndsAt
    <3>2. PICK g \in StopPoints : /\ cli'[c].todo = Ahead(g) /\ Moved(cli[c], cli'[c])
                                  /\ StopTo(c, h, g)
      BY <2>2, <2>3, <3>1, StopMoves, Zenon
    <3>3. StopKnows(cli'[c], g, os', unit', Alive', proc'.control)
      BY <2>2, <2>3, <3>2, StopKnowsStep, Zenon
    <3> QED BY <2>3, <3>2, <3>3, Zenon
  <2>4. CASE d # c /\ Mutating(c)
    <3>1. ~cli[d].alone /\ cli'[d] = cli[d]
      BY <1>1, <1>3, <2>1, <2>4, Zenon
    <3>2. StopKnows(cli[d], h, os', unit', Alive', proc'.control)
      BY <2>2, <3>1, Zenon DEF StopKnows
    <3> QED BY <2>2, <3>1, <3>2, Zenon
  <2>5. CASE d # c /\ ~Mutating(c)
    BY <1>1, <1>2, <2>2, <2>5, KnowsSame, Zenon
  <2> QED BY <2>3, <2>4, <2>5, Zenon
<1>6. os' \in Platforms
  BY CliHost, Zenon DEF CourseInv
<1> QED BY <1>4, <1>5, <1>6, Zenon DEF CourseInv

(* The invariant is inductive.                                             *)
LEMMA CourseStep ==
    ASSUME BaseInv, ReportInv, CourseInv, [Next]_vars
    PROVE  CourseInv'
<1>1. HostTypes /\ HostInv /\ CliTypes /\ InstallInv
  BY Zenon DEF BaseInv
<1>2. CASE HostNext /\ UNCHANGED cliVars
  <2>1. ProcessEffect /\ cli' = cli
    BY <1>1, <1>2, ServerEffect, MainEffect, Zenon DEF HostNext, cliVars
  <2> QED BY <2>1, CourseHost, Zenon
<1>3. ASSUME NEW c \in Clis, Begin(c)
      PROVE  CourseInv'
  BY <1>1, <1>3, CourseBegin, Zenon
<1>4. ASSUME NEW c \in Clis, CliStep(c)
      PROVE  CourseInv'
  BY <1>1, <1>4, InstallStep, CourseCli, Zenon
<1>5. CASE UNCHANGED vars
  <2>1. ProcessEffect /\ cli' = cli
    BY <1>1, <1>5, Zenon DEF vars, hostVars, cliVars, ProcessEffect, HostTypes, Alive
  <2> QED BY <2>1, CourseHost, Zenon
<1> QED BY <1>2, <1>3, <1>4, <1>5, Zenon DEF Next

(* The step in which a command succeeds is its own.                        *)
LEMMA SuccessIsOwn ==
    ASSUME BaseInv, [Next]_vars, NEW c \in Clis, NEW cmd \in Commands, Succeeds(c, cmd)
    PROVE  CliStep(c) /\ ~Moved(cli[c], cli'[c])
<1>1. CliTypes /\ HostTypes /\ InstallInv
  BY Zenon DEF BaseInv
<1>2. cli[c].cmd = cmd /\ cli[c].exit = "none" /\ cli'[c].exit = "ok" /\ cmd # "none"
  BY Zenon DEF Succeeds, Commands
<1>3. ~UNCHANGED vars /\ ~UNCHANGED cliVars /\ ~Moved(cli[c], cli'[c])
  BY <1>2, Zenon DEF vars, cliVars, Moved
<1>4. \A d \in Clis : ~Begin(d)
  <2> SUFFICES ASSUME NEW d \in Clis, Begin(d) PROVE FALSE
    BY Zenon
  <2>1. d # c
    BY <1>1, <1>2, BeginEffect, Zenon DEF Busy
  <2> QED BY <1>1, <1>2, <2>1, BeginEffect, Zenon DEF Begins
<1>5. PICK d \in Clis : CliStep(d)
  BY <1>3, <1>4, Zenon DEF Next
<1>6. d = c
  BY <1>1, <1>2, <1>5, InstallStep, Zenon DEF Only
<1> QED BY <1>3, <1>5, <1>6, Zenon

(* An undisturbed install that succeeds leaves a service that can run.     *)
LEMMA InstallEffective ==
    ASSUME BaseInv, CourseInv, [Next]_vars, NEW c \in Clis, Succeeds(c, "install"),
           cli[c].alone
    PROVE  unit.defined /\ Runnable(file[ExecPath]) /\ access
<1>1. CliTypes /\ cli[c].cmd = "install" /\ cli'[c].exit = "ok"
  BY Zenon DEF BaseInv, Succeeds
<1>2. CliStep(c) /\ ~Moved(cli[c], cli'[c])
  BY SuccessIsOwn, Zenon DEF Commands
<1>3. PICK h \in InstallPoints :
        /\ cli[c].todo = Ahead(h)
        /\ InstallKnows(cli[c], h, unit, file[ExecPath], access)
  BY <1>1, Zenon DEF CourseInv
<1>4. cli[c].worker = "none"
  BY <1>3, Zenon DEF InstallKnows
<1>5. EndsAt(c, h = "is_defined")
  BY <1>1, <1>2, <1>3, <1>4, InstallMoves, Zenon
<1>6. h = "is_defined"
  BY <1>1, <1>5, IdleTypes, Zenon DEF EndsAt
<1> QED BY <1>3, <1>6, Zenon DEF InstallKnows, Runnable

(* An undisturbed stop that succeeds holds.                                *)
LEMMA StopEffective ==
    ASSUME BaseInv, CourseInv, [Next]_vars, NEW c \in Clis, Succeeds(c, "stop"),
           cli[c].alone, os = "windows" => cli[c].worker = "returned"
    PROVE  ~unit.wanted /\ (Alive => os = "windows" /\ proc.control)
<1>1. CliTypes /\ cli[c].cmd = "stop" /\ cli'[c].exit = "ok" /\ os \in Platforms
  BY Zenon DEF BaseInv, Succeeds, CourseInv
<1>2. CliStep(c) /\ ~Moved(cli[c], cli'[c])
  BY SuccessIsOwn, Zenon DEF Commands
<1>3. PICK h \in StopPoints :
        /\ cli[c].todo = Ahead(h)
        /\ StopKnows(cli[c], h, os, unit, Alive, proc.control)
  BY <1>1, Zenon DEF CourseInv
<1>4. EndsAt(c, h = "is_stopped")
  BY <1>1, <1>2, <1>3, StopMoves, Zenon
<1>5. h = "is_stopped"
  BY <1>1, <1>4, IdleTypes, Zenon DEF EndsAt
<1>6. cli[c].worker \in {"returned", "failed"} /\ (os # "windows" => cli[c].worker # "failed")
  <2>1. os \in {"windows", "linux", "macos"}
    BY <1>1, PlatformsAssumption, Zenon
  <2> QED BY <1>3, <1>5, <2>1, Zenon DEF StopKnows
<1>7. cli[c].worker = "returned"
  BY <1>6, Zenon
<1> QED BY <1>3, <1>5, <1>7, Zenon DEF StopKnows

(* The definition never precedes the binary and the group it needs, and an *)
(* install that reports success, with no other privileged command beside   *)
(* it, has defined a service whose binary runs, not one that a copy tore,  *)
(* and has granted access (cmds/install.rs, install).                      *)
THEOREM DefinedIsUsable == Spec => DefinitionUsable
<1>1. BaseInv => DefinitionBacked
  BY Zenon DEF BaseInv, InstallInv, Placed, Granted, DefinitionBacked
<1>2. BaseInv /\ CourseInv /\ [Next]_vars =>
        [\A c \in Clis : Succeeds(c, "install") /\ cli[c].alone
           => unit.defined /\ Runnable(file[ExecPath]) /\ access]_vars
  BY InstallEffective, Zenon
<1> QED BY <1>1, <1>2, BaseInvariant, ReportInit, ReportStep, CourseInit, CourseStep, PTL
        DEF Spec, DefinitionUsable, InstallTakesEffect

(* A stop that reports success, with no other privileged command beside    *)
(* it, holds: whether the worker answered within the eight seconds or the  *)
(* dropped runtime waited for it, nothing relaunches the service, and its  *)
(* process is gone or, on Windows, told to end (cmds/stop.rs,              *)
(* stop_running_service).                                                  *)
THEOREM StopsHold == Spec => StopHolds
<1>1. BaseInv /\ CourseInv /\ [Next]_vars =>
        [\A c \in Clis :
           Succeeds(c, "stop") /\ cli[c].alone /\ (os = "windows" => cli[c].worker = "returned")
             => ~unit.wanted /\ (Alive => os = "windows" /\ proc.control)]_vars
  BY StopEffective, Zenon
<1> QED BY <1>1, BaseInvariant, ReportInit, ReportStep, CourseInit, CourseStep, PTL
        DEF Spec, StopHolds
=============================================================================
