--------------------------- MODULE ServiceControl ---------------------------
(***************************************************************************)
(* CoreManagerService, the adapter between the service's IPC handlers and  *)
(* the core manager: the control mutex with its closing latch, the         *)
(* slots for config checks, the echo of the requested core type, and the   *)
(* shutdown that server::run performs when its token is cancelled.         *)
(*                                                                         *)
(* The manager is reduced to what the adapter sees: which core type is     *)
(* active, the type of last_spec, and how an operation may end             *)
(* (CoreManager.tla has the rest).                                         *)
(***************************************************************************)
EXTENDS Naturals, FiniteSets

CONSTANTS
    Clients,     \* concurrent IPC requests
    CoreTypes, NoType,
    MaxChecks,   \* MAX_CONCURRENT_CHECKS
    MaxRequests  \* bound on requests

ASSUME ControlAssumption ==
    /\ NoType \notin CoreTypes
    /\ IsFiniteSet(Clients) /\ "none" \notin Clients
    /\ MaxChecks \in Nat \ {0} /\ MaxRequests \in Nat

Kinds == {"start", "stop", "restart", "apply", "recover", "check"}

VARIABLES
    core,       \* type of the manager's active core, or NoType
    last,       \* type of its last_spec
    echo,       \* requested_core
    closing,    \* ControlState.closing
    control,    \* holder of the control mutex: a client or "none"
    calls,      \* each client's request
    slots,      \* free check_slots
    server,     \* server::run: "serving", "latching", "stopping", "drained"
    requests,
    torn        \* history: an apply was dropped with its new core installed and its
                \* type not committed; until the next commit

controlVars == <<core, last, echo, closing, control, calls, slots, server, requests, torn>>

Idle == [pc |-> "idle", kind |-> "none", type |-> NoType]
Call(p, k, t) == [pc |-> p, kind |-> k, type |-> t]

ControlTypeOK ==
    /\ core \in CoreTypes \cup {NoType} /\ last \in CoreTypes \cup {NoType}
    /\ echo \in CoreTypes \cup {NoType}
    /\ closing \in BOOLEAN
    /\ control \in Clients \cup {"none"}
    /\ calls \in [Clients -> [pc : {"idle", "lock", "run", "commit", "return", "checkSlot",
                                    "checking"},
                              kind : Kinds \cup {"none"}, type : CoreTypes \cup {NoType}]]
    /\ slots \in 0..MaxChecks
    /\ server \in {"serving", "latching", "stopping", "drained"}
    /\ requests \in 0..MaxRequests
    /\ torn \in BOOLEAN

ControlInit ==
    /\ core = NoType /\ last = NoType /\ echo = NoType
    /\ closing = FALSE /\ control = "none"
    /\ calls = [c \in Clients |-> Idle]
    /\ slots = MaxChecks
    /\ server = "serving" /\ requests = 0 /\ torn = FALSE

Return(c) == calls' = [calls EXCEPT ![c] = Idle]
KeepMutex == UNCHANGED control
Unlock == control' = "none"

-----------------------------------------------------------------------------
(* A handler begins: it waits for the control mutex. Connections are still *)
(* served while the server drains after the shutdown.                      *)
Request(c, k, t) ==
    /\ calls[c].pc = "idle"
    /\ requests < MaxRequests /\ requests' = requests + 1
    /\ calls' = [calls EXCEPT ![c] = Call("lock", k, t)]
    /\ UNCHANGED <<core, last, echo, closing, control, slots, server, torn>>

(* It has the mutex: a closing service refuses it. A check gives the mutex *)
(* back at once and runs outside it; the others keep it to the end.        *)
Enter(c) ==
    /\ calls[c].pc = "lock" /\ control = "none"
    /\ \/ /\ closing
          /\ Return(c)
          /\ UNCHANGED control
       \/ /\ ~closing /\ calls[c].kind # "check"
          /\ control' = c
          /\ calls' = [calls EXCEPT ![c].pc = "run"]
       \/ /\ ~closing /\ calls[c].kind = "check"
          /\ calls' = [calls EXCEPT ![c].pc = "checkSlot"]
          /\ UNCHANGED control
    /\ UNCHANGED <<core, last, echo, closing, slots, server, requests, torn>>

-----------------------------------------------------------------------------
(* The manager's answer to a call: the core it leaves active, the type of  *)
(* its last_spec, and whether the adapter commits the requested type.      *)

Answer(c, k, l, commit) ==
    /\ core' = k /\ last' = l
    /\ calls' = [calls EXCEPT ![c].pc = IF commit THEN "commit" ELSE "return"]

(* A stopped core is started; a failure leaves none. A core that shows as  *)
(* active refuses.                                                         *)
RunStart(c) ==
    \/ core = NoType /\ Answer(c, calls[c].type, calls[c].type, TRUE)
    \/ Answer(c, core, last, FALSE)

(* A stop that cannot confirm the death has given the core up as well.     *)
RunStop(c) == Answer(c, NoType, last, FALSE)

(* restart runs last_spec again; when it fails the old core is kept or     *)
(* ended.                                                                  *)
RunRestart(c) ==
    \/ last # NoType /\ Answer(c, last, last, FALSE)
    \/ \E k \in {core, NoType} : Answer(c, k, last, FALSE)

CommitRolledBack(c) == Answer(c, core, last, TRUE)

(* A rolled back apply put the old spec back: its type is not committed,   *)
(* only published again.                                                   *)
RolledBack(c) == Answer(c, core, last, FALSE)

(* Applied (a different type is a switch), rolled back, or failed.         *)
RunApply(c) ==
    \/ core # NoType /\ Answer(c, calls[c].type, calls[c].type, TRUE)
    \/ core # NoType /\ RolledBack(c)
    \/ \E k \in {core, NoType} : Answer(c, k, last, FALSE)

RunRecover(c) == Answer(c, core, last, FALSE)

Run(c) ==
    /\ calls[c].pc = "run"
    /\ \/ calls[c].kind = "start" /\ RunStart(c)
       \/ calls[c].kind = "stop" /\ RunStop(c)
       \/ calls[c].kind = "restart" /\ RunRestart(c)
       \/ calls[c].kind = "apply" /\ RunApply(c)
       \/ calls[c].kind = "recover" /\ RunRecover(c)
    /\ UNCHANGED <<echo, closing, control, slots, server, requests, torn>>

(* publish_requested_core, then the mutex is released.                     *)
Leave(c) ==
    /\ calls[c].pc \in {"commit", "return"}
    /\ \/ calls[c].pc = "commit" /\ echo' = calls[c].type /\ torn' = FALSE
       \/ calls[c].pc = "return" /\ UNCHANGED <<echo, torn>>
    /\ Return(c) /\ Unlock
    /\ UNCHANGED <<core, last, closing, slots, server, requests>>

-----------------------------------------------------------------------------
(* check: refused when no slot is free, else the core binary runs.         *)

CheckAcquire(c) ==
    /\ calls[c].pc = "checkSlot"
    /\ \/ slots = 0 /\ Return(c) /\ UNCHANGED slots
       \/ /\ slots > 0 /\ slots' = slots - 1
          /\ calls' = [calls EXCEPT ![c].pc = "checking"]
    /\ UNCHANGED <<core, last, echo, closing, control, server, requests, torn>>

CheckLeaks(c) ==
    /\ calls[c].pc = "checking"
    /\ Return(c)
    /\ UNCHANGED <<core, last, echo, closing, control, slots, server, requests, torn>>

(* The check ends, or its caller drops it: the permit goes back.           *)
CheckDone(c) ==
    /\ calls[c].pc = "checking"
    /\ Return(c) /\ slots' = slots + 1
    /\ UNCHANGED <<core, last, echo, closing, control, server, requests, torn>>

-----------------------------------------------------------------------------
(* The request's future is dropped: REQUEST_TIMEOUT passed, or the client  *)
(* closed its connection. Nothing is committed and what the future held is *)
(* released.                                                               *)

DropWaiting(c) ==
    /\ calls[c].pc \in {"lock", "checkSlot"}
    /\ Return(c)
    /\ UNCHANGED <<core, last, echo, closing, control, slots, server, requests, torn>>

(* How far the manager's operation had come: a start installs its core in  *)
(* its last synchronous step, a switch cleans the predecessor up after it  *)
(* has installed the successor.                                            *)
DroppedCores(c) ==
    CASE calls[c].kind = "apply" /\ core # NoType -> {core, NoType, calls[c].type}
      [] calls[c].kind = "restart" /\ core # NoType -> {core, NoType, last}
      [] calls[c].kind = "stop" -> {core, NoType}
      [] OTHER -> {core}

DropRunning(c) ==
    /\ calls[c].pc = "run"
    /\ \E k \in DroppedCores(c) : core' = k
    /\ last' = IF core' = NoType THEN last ELSE core'
    /\ torn' = (torn \/ core' \notin {core, NoType})
    /\ Return(c) /\ Unlock
    /\ UNCHANGED <<echo, closing, slots, server, requests>>

-----------------------------------------------------------------------------
(* server::run and shutdown                                                *)

(* The token is cancelled, or the server ends by itself.                   *)
ServerEnds ==
    /\ server = "serving" /\ server' = "latching"
    /\ UNCHANGED <<core, last, echo, closing, control, calls, slots, requests, torn>>

LatchIgnoringMutex ==
    /\ server = "latching"
    /\ closing' = TRUE /\ server' = "stopping"
    /\ UNCHANGED <<core, last, echo, control, calls, slots, requests, torn>>

(* shutdown waits for the mutex, sets the latch and releases the mutex.    *)
LatchClosing ==
    /\ server = "latching" /\ control = "none"
    /\ closing' = TRUE /\ server' = "stopping"
    /\ UNCHANGED <<core, last, echo, control, calls, slots, requests, torn>>

(* The manager's shutdown: whatever its result, no core is active.         *)
ManagerShutdown ==
    /\ server = "stopping"
    /\ core' = NoType /\ server' = "drained"
    /\ UNCHANGED <<last, echo, closing, control, calls, slots, requests, torn>>

(* The core ends by itself: crashed for good or finished.                  *)
CoreExits ==
    /\ core # NoType /\ core' = NoType
    /\ UNCHANGED <<last, echo, closing, control, calls, slots, server, requests, torn>>

-----------------------------------------------------------------------------
Handler(c) == Enter(c) \/ Run(c) \/ Leave(c) \/ CheckAcquire(c) \/ CheckDone(c)

Shutdown == LatchClosing \/ ManagerShutdown

ControlNext ==
    \/ \E c \in Clients : Handler(c) \/ \E k \in Kinds, t \in CoreTypes : Request(c, k, t)
    \/ \E c \in Clients : DropWaiting(c) \/ DropRunning(c)
    \/ ServerEnds \/ Shutdown \/ CoreExits

ControlSpec == ControlInit /\ [][ControlNext]_controlVars

(* Handlers are scheduled and the manager's operations end (OperationsEnd  *)
(* of CoreManager); tokio's mutex is fair, so shutdown gets its turn.      *)
ControlFairness ==
    /\ \A c \in Clients : WF_controlVars(Handler(c))
    /\ SF_controlVars(LatchClosing) /\ WF_controlVars(ManagerShutdown)

-----------------------------------------------------------------------------
(* Properties                                                              *)

(* Once the shutdown of the service has stopped the core, none becomes     *)
(* active again: a request that was waiting for the mutex or half-way in   *)
(* the manager when the latch was set cannot start one behind it.          *)
NoCoreAfterShutdown == server = "drained" => core = NoType

(* Whenever no operation holds the adapter, the type shown to clients is   *)
(* the type of the active core, after every sequence of starts, rolled     *)
(* back, failed and dropped operations and restarts of last_spec. The one  *)
(* exception is an apply dropped between the manager's install and the     *)
(* commit of the echo, and the next start or apply that succeeds ends it.  *)
EchoMatchesCore == control = "none" /\ core # NoType => (echo = core \/ torn)

Checking == {c \in Clients : calls[c].pc = "checking"}

(* Every permit is with a running check or free: no refused, finished or   *)
(* late check leaks one, so checks stay possible.                          *)
ChecksAccounted == slots + Cardinality(Checking) = MaxChecks

(* Once the service is told to stop it gets there, whatever requests keep  *)
(* arriving.                                                               *)
ShutdownCompletes == server = "latching" ~> server = "drained"

=============================================================================
