------------------------------ MODULE IpcCall ------------------------------
(***************************************************************************)
(* One request from a client of the service to its answer: the shared      *)
(* contract of operations, the client's call, the router with its layers   *)
(* (timeout, panic capture, the envelope fallbacks), the handlers with the *)
(* mapping of manager errors and outcomes onto the wire, and the client's  *)
(* reading of the answer. The /logs buffer is the state the requests       *)
(* share. ServiceControl.tla has the operations' effect on the core.       *)
(***************************************************************************)
EXTENDS Naturals, Sequences, SequencesExt, FiniteSets

CONSTANTS
    MacosBuilds,    \* may the build have the macOS network handler?
    LogCapacity,    \* LOG_BUFFER_CAPACITY
    MaxLogLines,    \* bound on lines the service logs
    MaxIpcCalls     \* bound on requests

ASSUME IpcAssumption ==
    /\ MacosBuilds \in SUBSET BOOLEAN /\ LogCapacity \in Nat \ {0}
    /\ MaxLogLines \in Nat /\ MaxIpcCalls \in Nat

Nothing == "none"

(* The operations whose contract carries data, and those that carry ().    *)
DataOps == {"status", "apply", "logs_retrieve", "logs_inspect"}
UnitOps == {"start", "stop", "restart", "check", "recover", "set_dns"}
Operations == DataOps \cup UnitOps

(* Those whose request is a JSON body.                                     *)
BodyOps == {"start", "apply", "check", "set_dns"}

(* Paths and methods no client of the contract uses.                       *)
Misdirected == {"unrouted", "wrong_method"}

VARIABLES
    ipc,      \* the request in flight
    logBuf,   \* Logger.buffer, as line numbers
    logged,   \* lines written so far
    received, \* lines some retrieve returned to its client
    missed    \* lines evicted, or drained for an answer that was lost

ipcVars == <<ipc, logBuf, logged, received, missed>>

AtRest == [at |-> "rest", op |-> Nothing, calls |-> 0]

-----------------------------------------------------------------------------
(* Manager results. A durability warning wraps a result, possibly twice.   *)

PlainErrors == {"NotStarted", "AlreadyRunning", "RevisionConflict", "ManagerQuarantined",
                "ConfigCheckFailed", "ConfigNotFound", "BinaryNotFound", "InvalidConfig",
                "Yaml", "ControllerMissing", "ApplyFailed", "ApplyRollbackFailed",
                "StopUnconfirmed", "Io"}
PlainOutcomes == {"Noop", "Patched", "Reloaded", "Restarted", "Switched", "RolledBack"}
Wrappers == {<<>>, <<"w1">>, <<"w1", "w2">>}

Wrapped(X) == {[warnings |-> w, inner |-> x] : w \in Wrappers, x \in X}

KindTable ==
    [e \in PlainErrors |->
        CASE e = "NotStarted" -> "not_started"
          [] e = "AlreadyRunning" -> "already_running"
          [] e = "RevisionConflict" -> "revision_conflict"
          [] e = "ManagerQuarantined" -> "quarantined"
          [] e = "ConfigCheckFailed" -> "config_check_failed"
          [] e = "ConfigNotFound" -> "config_not_found"
          [] e = "BinaryNotFound" -> "binary_not_found"
          [] e \in {"InvalidConfig", "Yaml"} -> "invalid_config"
          [] e = "ControllerMissing" -> "controller_missing"
          [] e = "ApplyFailed" -> "apply_failed"
          [] e = "ApplyRollbackFailed" -> "apply_rollback_failed"
          [] e = "StopUnconfirmed" -> "stop_unconfirmed"
          [] OTHER -> Nothing]

RECURSIVE map_error_kind(_), unwrap_outcome(_, _)

KindOfOutermost(e) == IF e.warnings # <<>> THEN Nothing ELSE KindTable[e.inner]

map_error_kind(e) ==
    IF e.warnings = <<>> THEN KindTable[e.inner]
    ELSE map_error_kind([e EXCEPT !.warnings = Tail(@)])

unwrap_outcome(o, warnings) ==
    IF o.warnings = <<>> THEN [outcome |-> o.inner, warning |-> warnings,
                               failed_apply |-> o.inner = "RolledBack"]
    ELSE unwrap_outcome([o EXCEPT !.warnings = Tail(@)], Append(warnings, Head(o.warnings)))

map_apply_outcome(o) == unwrap_outcome(o, <<>>)

(* OpError: from the manager, or from the adapter before it is asked. The  *)
(* binary lookup and a missing config are classified, the rest is plain.   *)
AdapterKinds == {Nothing, "binary_not_found", "config_not_found"}

-----------------------------------------------------------------------------
(* Answers on the wire: an HTTP status and a body, which is an envelope or *)
(* plain text. () is written as null, which reads back as no data.         *)

Carrying(tag, value) == [tag |-> tag, value |-> value]
NoData == Carrying("null", Nothing)
Unit == Carrying("unit", Nothing)

Json(d) == IF d.tag = "unit" THEN NoData ELSE d

Answered(status, code, data, kind, msg) ==
    [status |-> status, body |-> "envelope", code |-> code, data |-> Json(data),
     kind |-> kind, msg |-> msg]

success(data) == Answered(200, "Ok", data, Nothing, "ok")
other_error(status, kind, msg) == Answered(status, "OtherError", NoData, kind, msg)
BareAnswer(status) ==
    [status |-> status, body |-> "text", code |-> Nothing, data |-> NoData, kind |-> Nothing,
     msg |-> Nothing]

not_found == other_error(404, Nothing, "not found")
method_not_allowed == other_error(405, Nothing, "method not allowed")
PanicEnvelope == other_error(500, Nothing, "internal server error")
request_timed_out == other_error(408, Nothing, "request timed out")

(* start, stop and restart predate error_kind; stop and restart name a     *)
(* stopped core in the words the GUI looks for.                            *)
NotStarted(e) == e = [warnings |-> <<>>, inner |-> "NotStarted"]

LegacyMessage(op, e) ==
    CASE op = "stop" /\ NotStarted(e) -> "core is already stopped"
      [] op = "restart" /\ NotStarted(e) -> "core have not been started yet"
      [] OTHER -> "error"

OpMessage(e) == IF NotStarted(e) THEN "core have not been started yet" ELSE "error"
into_envelope(kind, msg) == other_error(500, kind, msg)

-----------------------------------------------------------------------------
(* The service                                                             *)

(* Logger::write: the buffer is full, so its oldest line goes.             *)
WriteLog ==
    /\ logged < MaxLogLines /\ logged' = logged + 1
    /\ LET full == Len(logBuf) = LogCapacity
       IN  /\ logBuf' = Append(IF full THEN Tail(logBuf) ELSE logBuf, logged + 1)
           /\ missed' = IF full THEN missed \cup {Head(logBuf)} ELSE missed
    /\ UNCHANGED <<ipc, received>>

Drained == logBuf' = <<>>

(* The handlers. "did" records what the operation really came to.          *)
Reply(did, answer) == ipc' = [ipc EXCEPT !.at = "answered", !.did = did, !.answer = answer]
Came(ok, by, what) == [ok |-> ok, by |-> by, what |-> what]
Succeeded(data) == Reply(Came(TRUE, "handler", data.value), success(data))

LegacyHandler ==
    /\ ipc.op \in {"start", "stop", "restart"}
    /\ \/ Succeeded(Unit)
       \/ \E e \in Wrapped(PlainErrors) :
             Reply(Came(FALSE, "manager", e), other_error(500, Nothing, LegacyMessage(ipc.op, e)))
    /\ UNCHANGED logBuf

ClassifiedHandler ==
    /\ ipc.op \in {"apply", "check", "recover"}
    /\ \/ ipc.op # "apply" /\ Succeeded(Unit)
       \/ /\ ipc.op = "apply"
          /\ \E o \in Wrapped(PlainOutcomes) :
                Reply(Came(TRUE, "manager", o), success(Carrying("apply", map_apply_outcome(o))))
       \/ \E e \in Wrapped(PlainErrors) :
             Reply(Came(FALSE, "manager", e), into_envelope(map_error_kind(e), OpMessage(e)))
       \/ \E k \in AdapterKinds :
             Reply(Came(FALSE, "adapter", k), into_envelope(k, "error"))
    /\ UNCHANGED logBuf

StatusHandler == ipc.op = "status" /\ Succeeded(Carrying("status", "snapshot")) /\ UNCHANGED logBuf
RetrieveHandler == ipc.op = "logs_retrieve" /\ Succeeded(Carrying("logs", logBuf)) /\ Drained
InspectHandler == ipc.op = "logs_inspect" /\ Succeeded(Carrying("logs", logBuf)) /\ UNCHANGED logBuf

DnsHandler ==
    /\ ipc.op = "set_dns"
    /\ \E macos \in MacosBuilds :
          \/ macos /\ Succeeded(Unit)
          \/ Reply(Came(FALSE, "handler", Nothing),
                   other_error(IF macos THEN 500 ELSE 501, Nothing, "error"))
    /\ UNCHANGED logBuf

Handle ==
    /\ ipc.at = "handling"
    /\ \/ LegacyHandler \/ ClassifiedHandler \/ StatusHandler
       \/ RetrieveHandler \/ InspectHandler \/ DnsHandler
    /\ UNCHANGED <<logged, received, missed>>

(* The layers around the handler: its future is dropped at the deadline,   *)
(* or it panics. Either may be after its effect; a retrieve's is           *)
(* synchronous with its answer.                                            *)
Unanswered == Came(FALSE, "layer", Nothing)

Cut ==
    /\ ipc.at = "handling"
    /\ \/ ipc.op \notin {"status", "logs_retrieve", "logs_inspect"}
             /\ Reply(Unanswered, request_timed_out)
       \/ Reply(Unanswered, PanicEnvelope)
    /\ UNCHANGED <<logBuf, logged, received, missed>>

(* create_router: a known path with its method reaches the handler once    *)
(* its body has been read; a body that is not the operation's is refused   *)
(* by the extractor, in plain text.                                        *)
Route ==
    /\ ipc.at = "sent"
    /\ \/ ipc.op = "unrouted" /\ Reply(Unanswered, not_found)
       \/ ipc.op = "wrong_method" /\ Reply(Unanswered, method_not_allowed)
       \/ ipc.op \in BodyOps /\ ipc.body = "foreign" /\ Reply(Unanswered, BareAnswer(422))
       \/ /\ ipc.op \in Operations /\ ipc.body = "contract"
          /\ ipc' = [ipc EXCEPT !.at = "handling"]
    /\ UNCHANGED <<logBuf, logged, received, missed>>

-----------------------------------------------------------------------------
(* The client                                                              *)

(* call: contract operations from this crate's client, or a caller that    *)
(* speaks HTTP itself.                                                     *)
Issue(op, body) ==
    /\ ipc.at = "rest" /\ ipc.calls < MaxIpcCalls
    /\ ipc' = [at |-> "sent", op |-> op, body |-> body, calls |-> ipc.calls + 1,
               did |-> Unanswered, answer |-> BareAnswer(0), result |-> Nothing]
    /\ UNCHANGED <<logBuf, logged, received, missed>>

Concluded(result) == ipc' = [ipc EXCEPT !.at = "done", !.result = result]
CallFailed(error, a) == [error |-> error, kind |-> a.kind, msg |-> a.msg, data |-> NoData]

(* send for a status that is not a success, then call's own reading.       *)
ReadError(a) ==
    IF a.body = "envelope" /\ a.code # "Ok" THEN CallFailed("Server", a) ELSE CallFailed("HttpStatus", a)

NeedsData(op) == op \in DataOps

ReadSuccess(op, a) ==
    CASE a.body # "envelope" -> CallFailed("Decode", a)
      [] a.body = "envelope" /\ a.code # "Ok" -> CallFailed("Server", a)
      [] a.body = "envelope" /\ a.code = "Ok" /\ NeedsData(op) /\ a.data = NoData
            -> CallFailed("EmptyData", a)
      [] OTHER -> [CallFailed(Nothing, a) EXCEPT !.data = a.data]

ReadAnswer(op, a) == IF a.status = 200 THEN ReadSuccess(op, a) ELSE ReadError(a)

ReadReply ==
    /\ ipc.at = "answered"
    /\ Concluded(ReadAnswer(ipc.op, ipc.answer))
    /\ received' = IF ipc.op = "logs_retrieve" /\ ipc.did.ok
                   THEN received \o ipc.did.what ELSE received
    /\ UNCHANGED <<logBuf, logged, missed>>

(* The connection fails before the request is read, or before its answer   *)
(* is: ClientError::Request. Drained lines go with the lost answer.        *)
Lost ==
    /\ ipc.at \in {"sent", "answered"}
    /\ Concluded(CallFailed("Request", BareAnswer(0)))
    /\ missed' = IF ipc.at = "answered" /\ ipc.op = "logs_retrieve" /\ ipc.did.ok
                 THEN missed \cup ToSet(ipc.did.what) ELSE missed
    /\ UNCHANGED <<logBuf, logged, received>>

(* The rpc command: its exit says whether the call succeeded.              *)
RpcSucceeds == ipc.result.error = Nothing

Finish ==
    /\ ipc.at = "done"
    /\ ipc' = [AtRest EXCEPT !.calls = ipc.calls]
    /\ UNCHANGED <<logBuf, logged, received, missed>>

-----------------------------------------------------------------------------
IpcInit ==
    /\ ipc = AtRest /\ logBuf = <<>> /\ logged = 0 /\ received = <<>> /\ missed = {}

IpcNext ==
    \/ \E op \in Operations : Issue(op, "contract")
    \/ \E op \in Misdirected : Issue(op, "foreign")
    \/ \E op \in BodyOps : Issue(op, "foreign")
    \/ Route \/ Handle \/ Cut \/ ReadReply \/ Lost \/ Finish \/ WriteLog

-----------------------------------------------------------------------------
(* Properties                                                              *)

AnswerRead == ipc.at = "done" /\ ipc.result.error # "Request"

(* Across the contract, the layers and both readings of the answer, the    *)
(* caller is told of success exactly when the operation succeeded, though  *)
(* () crosses the wire as null and reads back as no data.                  *)
SuccessIsTrue == AnswerRead => (RpcSucceeds <=> ipc.did.ok)

(* A request made through the contract is refused or cut off only in the   *)
(* envelope: whichever layer answers, the client never has to interpret a  *)
(* bare status, an unreadable body or an empty success.                    *)
EnvelopeAlways ==
    AnswerRead /\ ipc.body = "contract" => ipc.result.error \in {Nothing, "Server"}

(* A failure of apply, check or recover keeps the kind of the real failure *)
(* through any number of durability warnings; start, stop and restart      *)
(* never carry one.                                                        *)
KindSurvives ==
    AnswerRead /\ ipc.result.error = "Server" /\ ipc.did.by = "manager" =>
        ipc.result.kind = IF ipc.op \in {"apply", "check", "recover"}
                          THEN KindTable[ipc.did.what.inner] ELSE Nothing

(* An apply is reported as what it came to: a rolled back one never reads  *)
(* as applied, says why it failed, and no durability warning is lost.      *)
OutcomeSurvives ==
    AnswerRead /\ ipc.op = "apply" /\ ipc.did.ok =>
        ipc.result.data.value = [outcome |-> ipc.did.what.inner,
                                 warning |-> ipc.did.what.warnings,
                                 failed_apply |-> ipc.did.what.inner = "RolledBack"]

InAnswer ==
    IF ipc.at = "answered" /\ ipc.op = "logs_retrieve" /\ ipc.did.ok THEN ipc.did.what ELSE <<>>

(* Every logged line is buffered, was returned by exactly one retrieve in  *)
(* the order it was written, was evicted, or went with a lost answer.      *)
LinesOnce ==
    LET delivered == received \o InAnswer \o logBuf
    IN  /\ \A i, j \in DOMAIN delivered : i < j => delivered[i] < delivered[j]
        /\ ToSet(delivered) \cup missed = 1..logged
        /\ ToSet(delivered) \cap missed = {}

(* What the caller reads of a request is what came of it: success, error   *)
(* kind, apply outcome and log lines cross the wire without being turned   *)
(* into something else (client/mod.rs, call; manager_bridge.rs,            *)
(* map_error_kind and map_apply_outcome; logger.rs).                       *)
AnswersFaithful ==
    /\ SuccessIsTrue /\ EnvelopeAlways
    /\ KindSurvives /\ OutcomeSurvives /\ LinesOnce
=============================================================================
