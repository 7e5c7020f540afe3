---------------------------- MODULE StatusStream ----------------------------
(***************************************************************************)
(* How a manager status reaches a websocket client: status_bridge turns    *)
(* the two watch channels (the manager's status, the adapter's requested   *)
(* core type) into events, EventHub's broadcast ring fans them out, and    *)
(* handle_socket sends a snapshot on connect, then the ring, and a         *)
(* snapshot again after a lag. One connection; the log ring is left out.   *)
(***************************************************************************)
EXTENDS Naturals, Sequences

CONSTANTS
    EchoTypes,    \* what `requested_core` may hold
    NoEcho,
    RingCapacity, \* EVENT_CHANNEL_CAPACITY
    MaxChanges    \* bound on manager transitions and type commits

ASSUME StreamAssumption ==
    /\ NoEcho \notin EchoTypes
    /\ RingCapacity \in Nat \ {0} /\ MaxChanges \in Nat

(* The manager's states; a Stopped reason is either absent or an error.    *)
ManagerStates == {"Stopped", "StoppedError", "Starting", "Running", "Restarting", "Switching",
                  "Stopping"}
LegacyStates == {"Running", "Stopped", "StoppedError"}

VARIABLES
    status, statusSeen,   \* the manager's watch, and the bridge's receiver
    requested, requestedSeen,   \* requested_core, and the bridge's receiver
    bridge,               \* status_bridge: await point, value read, `last`
    ring, lagged,         \* what the connection's receiver still has to read
    conn,                 \* handle_socket: await point and the status it read
    client,               \* last status frame and last legacy frame received
    changes

streamVars == <<status, statusSeen, requested, requestedSeen, bridge, ring, lagged, conn, client,
                changes>>

Frame(s, t) == [status |-> s, echo |-> t]
StatusFrames == [status : ManagerStates, echo : EchoTypes \cup {NoEcho}]
NoFrame == Frame("none", NoEcho)
StatusEvent(f) == [kind |-> "status", frame |-> f, legacy |-> "none"]
LegacyEvent(s) == [kind |-> "legacy", frame |-> NoFrame, legacy |-> s]
Events == {StatusEvent(f) : f \in StatusFrames} \cup {LegacyEvent(s) : s \in LegacyStates}

(* The lossy two-valued wire state.                                        *)
map_core_state(s) ==
    IF s \in {"Running", "Switching", "Stopping"} THEN "Running"
    ELSE IF s \in {"Starting", "Restarting"} THEN "Stopped" ELSE s

StreamTypeOK ==
    /\ status \in ManagerStates /\ requested \in EchoTypes \cup {NoEcho}
    /\ statusSeen \in BOOLEAN /\ requestedSeen \in BOOLEAN /\ lagged \in BOOLEAN
    /\ bridge \in [pc : {"select", "gotStatus", "gotEcho"}, raw : ManagerStates \cup {"none"},
                   last : LegacyStates]
    /\ ring \in Seq(Events) /\ Len(ring) <= RingCapacity
    /\ conn \in [pc : {"off", "snapshot", "snapshotEcho", "loop"}, raw : ManagerStates \cup {"none"}]
    /\ client \in [frame : StatusFrames \cup {NoFrame}, legacy : LegacyStates \cup {"none"}]
    /\ changes \in 0..MaxChanges

StreamInit ==
    /\ status = "Stopped" /\ statusSeen = TRUE
    /\ requested = NoEcho /\ requestedSeen = TRUE
    /\ bridge = [pc |-> "select", raw |-> "none", last |-> "Stopped"]
    /\ ring = <<>> /\ lagged = FALSE
    /\ conn = [pc |-> "off", raw |-> "none"]
    /\ client = [frame |-> NoFrame, legacy |-> "none"]
    /\ changes = 0

-----------------------------------------------------------------------------
(* The publishers. Every publication notifies, also one of an equal value. *)

ManagerTransition(s) ==
    /\ changes < MaxChanges /\ changes' = changes + 1
    /\ status' = s /\ statusSeen' = FALSE
    /\ UNCHANGED <<requested, requestedSeen, bridge, ring, lagged, conn, client>>

(* publish_requested_core: the send notifies even when the type stays.     *)
PublishRequestedCore(t) ==
    /\ changes < MaxChanges /\ changes' = changes + 1
    /\ t \in {requested} \cup EchoTypes
    /\ requested' = t /\ requestedSeen' = FALSE
    /\ UNCHANGED <<status, statusSeen, bridge, ring, lagged, conn, client>>

-----------------------------------------------------------------------------
(* EventHub (tokio's broadcast channel, seen by the one receiver): a full  *)
(* ring overwrites its oldest event and the receiver will read Lagged.     *)
Send(evs) ==
    LET all == ring \o evs
        over == IF Len(all) > RingCapacity THEN Len(all) - RingCapacity ELSE 0 IN
    IF conn.pc = "off" THEN UNCHANGED <<ring, lagged>>
    ELSE /\ ring' = SubSeq(all, over + 1, Len(all))
         /\ lagged' = (lagged \/ over > 0)

-----------------------------------------------------------------------------
(* status_bridge                                                           *)

(* The arm of a manager transition: borrow_and_update the status...        *)
BridgeState ==
    /\ bridge.pc = "select" /\ ~statusSeen
    /\ statusSeen' = TRUE
    /\ bridge' = [bridge EXCEPT !.pc = "gotStatus", !.raw = status]
    /\ UNCHANGED <<status, requested, requestedSeen, ring, lagged, conn, client, changes>>

(* The legacy event of a transition, unless the two-valued state hides it. *)
Suppressed ==
    \/ bridge.raw \in {"Stopping", "Switching"} /\ bridge.last # "Running"
    \/ bridge.last = map_core_state(bridge.raw)

(* ... then the echo, the snapshot event and the legacy event.             *)
BridgeStateSend ==
    /\ bridge.pc = "gotStatus"
    /\ requestedSeen' = TRUE
    /\ LET next == map_core_state(bridge.raw)
           snapshot == StatusEvent(Frame(bridge.raw, requested)) IN
       /\ Send(IF Suppressed THEN <<snapshot>> ELSE <<snapshot, LegacyEvent(next)>>)
       /\ bridge' = [pc |-> "select", raw |-> "none",
                     last |-> IF Suppressed THEN bridge.last ELSE next]
    /\ UNCHANGED <<status, statusSeen, requested, conn, client, changes>>

BridgeEchoMarksSeen ==
    /\ bridge.pc = "select" /\ ~requestedSeen
    /\ statusSeen' = TRUE
    /\ bridge' = [bridge EXCEPT !.pc = "gotEcho", !.raw = status]
    /\ UNCHANGED <<status, requested, requestedSeen, ring, lagged, conn, client, changes>>

(* The arm of a type commit: it borrows the status without marking it seen. *)
BridgeEcho ==
    /\ bridge.pc = "select" /\ ~requestedSeen
    /\ bridge' = [bridge EXCEPT !.pc = "gotEcho", !.raw = status]
    /\ UNCHANGED <<status, statusSeen, requested, requestedSeen, ring, lagged, conn, client, changes>>

BridgeEchoSend ==
    /\ bridge.pc = "gotEcho"
    /\ requestedSeen' = TRUE
    /\ Send(<<StatusEvent(Frame(bridge.raw, requested))>>)
    /\ bridge' = [bridge EXCEPT !.pc = "select", !.raw = "none"]
    /\ UNCHANGED <<status, statusSeen, requested, conn, client, changes>>

-----------------------------------------------------------------------------
(* handle_socket                                                           *)

ConnectLate ==
    /\ conn.pc = "off"
    /\ conn' = [pc |-> "loop", raw |-> "none"]
    /\ client' = [frame |-> NoFrame, legacy |-> "none"]
    /\ UNCHANGED <<status, statusSeen, requested, requestedSeen, bridge, ring, lagged, changes>>

(* Subscribe, then send a snapshot.                                        *)
Connect ==
    /\ conn.pc = "off"
    /\ conn' = [pc |-> "snapshot", raw |-> "none"]
    /\ client' = [frame |-> NoFrame, legacy |-> "none"]
    /\ UNCHANGED <<status, statusSeen, requested, requestedSeen, bridge, ring, lagged, changes>>

(* core_manager.status(): the manager's status, then the echo.             *)
SnapshotStatus ==
    /\ conn.pc = "snapshot"
    /\ conn' = [pc |-> "snapshotEcho", raw |-> status]
    /\ UNCHANGED <<status, statusSeen, requested, requestedSeen, bridge, ring, lagged, client, changes>>

SendSnapshot ==
    /\ conn.pc = "snapshotEcho"
    /\ client' = [client EXCEPT !.frame = Frame(conn.raw, requested)]
    /\ conn' = [pc |-> "loop", raw |-> "none"]
    /\ UNCHANGED <<status, statusSeen, requested, requestedSeen, bridge, ring, lagged, changes>>

(* Next::Send of the oldest event.                                         *)
ReceiveEvent ==
    /\ conn.pc = "loop" /\ ~lagged /\ ring # <<>>
    /\ ring' = Tail(ring)
    /\ client' = IF Head(ring).kind = "status"
                 THEN [client EXCEPT !.frame = Head(ring).frame]
                 ELSE [client EXCEPT !.legacy = Head(ring).legacy]
    /\ UNCHANGED <<status, statusSeen, requested, requestedSeen, bridge, lagged, conn, changes>>

SkipBacklog ==
    /\ conn.pc = "loop" /\ lagged
    /\ ring' = <<>> /\ lagged' = FALSE
    /\ UNCHANGED <<status, statusSeen, requested, requestedSeen, bridge, conn, client, changes>>

(* Next::StatusLag: resubscribe at the live tail, then resynchronise with  *)
(* a snapshot as on connect.                                               *)
StatusLag ==
    /\ conn.pc = "loop" /\ lagged
    /\ ring' = <<>> /\ lagged' = FALSE
    /\ conn' = [pc |-> "snapshot", raw |-> "none"]
    /\ UNCHANGED <<status, statusSeen, requested, requestedSeen, bridge, client, changes>>

(* The client goes away or a send fails: the subscription dies with it.    *)
Disconnect ==
    /\ conn.pc # "off"
    /\ conn' = [pc |-> "off", raw |-> "none"]
    /\ ring' = <<>> /\ lagged' = FALSE
    /\ UNCHANGED <<status, statusSeen, requested, requestedSeen, bridge, client, changes>>

-----------------------------------------------------------------------------
Bridge == BridgeState \/ BridgeStateSend \/ BridgeEcho \/ BridgeEchoSend
Sender == SnapshotStatus \/ SendSnapshot \/ ReceiveEvent \/ StatusLag

StreamNext ==
    \/ \E s \in ManagerStates : ManagerTransition(s)
    \/ \E t \in EchoTypes \cup {NoEcho} : PublishRequestedCore(t)
    \/ Bridge \/ Sender \/ Connect \/ Disconnect

StreamSpec == StreamInit /\ [][StreamNext]_streamVars

(* The bridge task and the connection's sender are scheduled.              *)
StreamFairness == WF_streamVars(Bridge) /\ WF_streamVars(Sender)

-----------------------------------------------------------------------------
(* Properties                                                              *)

(* "After any quiescent moment the last frame carries the committed        *)
(* values": once the bridge has seen everything and the connection has     *)
(* drained its ring, the client's last status frame is the manager's       *)
(* status and the committed type, through connects, lags and coalesced     *)
(* notifications.                                                          *)
QuiescentClientIsCurrent ==
    (/\ statusSeen /\ requestedSeen /\ bridge.pc = "select"
     /\ conn.pc = "loop" /\ ring = <<>> /\ ~lagged)
        => client.frame = Frame(status, requested)

(* The legacy two-valued stream has reported the state the manager is in,  *)
(* but for an arrival of Stopping or Switching from Stopped, which it      *)
(* hides: a type commit never swallows a manager transition.               *)
LegacyIsCurrent ==
    statusSeen /\ bridge.pc # "gotStatus" =>
        \/ bridge.last = map_core_state(status)
        \/ status \in {"Stopping", "Switching"} /\ bridge.last # "Running"

(* A connected client converges: when the manager is quiet the last frame  *)
(* it holds is, from some time on, the manager's status.                   *)
ClientConverges ==
    \/ <>[](conn.pc = "off" \/ client.frame = Frame(status, requested))
    \/ []<>(conn.pc = "off")

=============================================================================
