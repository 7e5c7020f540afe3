--------------------------- MODULE ServiceProofs ---------------------------
(***************************************************************************)
(* The service around the core manager, for every value of the constants:  *)
(* the status stream that clients follow, and the adapter between the      *)
(* handlers and the manager.                                               *)
(***************************************************************************)
EXTENDS StatusStream, ServiceControl, FiniteSetTheorems, TLAPS

-----------------------------------------------------------------------------
(* The status stream for any set of core types and any capacity of the     *)
(* event ring: what a client holds, or is about to be sent, is current or  *)
(* a newer frame is on its way.                                            *)

(* What the proofs of the status stream need to know of sequences.         *)

(* Two sequences in a row.                                                 *)
LEMMA ConcatFacts ==
  ASSUME NEW S, NEW s \in Seq(S), NEW u \in Seq(S)
  PROVE  /\ s \o u \in Seq(S)
         /\ Len(s \o u) = Len(s) + Len(u)
         /\ \A i \in 1..Len(s) + Len(u) :
              (s \o u)[i] = IF i <= Len(s) THEN s[i] ELSE u[i - Len(s)]
OBVIOUS

(* The elements of a sequence.                                             *)
LEMMA ElementFacts ==
  ASSUME NEW S, NEW s \in Seq(S), NEW n \in 1..Len(s)
  PROVE  s[n] \in S
OBVIOUS

(* The empty sequence.                                                     *)
LEMMA EmptyFacts ==
  ASSUME NEW S
  PROVE  /\ << >> \in Seq(S)
         /\ Len(<< >>) = 0
         /\ \A s \in Seq(S) : s # << >> => Len(s) \in Nat \ {0}
OBVIOUS

(* The first element and the rest.                                         *)
LEMMA HeadTailFacts ==
  ASSUME NEW S, NEW s \in Seq(S), s # << >>
  PROVE  /\ Head(s) \in S
         /\ Tail(s) \in Seq(S)
         /\ Len(Tail(s)) = Len(s) - 1
         /\ \A i \in 1..Len(Tail(s)) : Tail(s)[i] = s[i + 1]
OBVIOUS

(* The length of a sequence.                                               *)
LEMMA LenFacts ==
  ASSUME NEW S, NEW s \in Seq(S)
  PROVE  /\ Len(s) \in Nat
         /\ DOMAIN s = 1..Len(s)
         /\ s \in [1..Len(s) -> S]
OBVIOUS

(* A part of a sequence.                                                   *)
LEMMA SubSeqFacts ==
  ASSUME NEW S, NEW s \in Seq(S), NEW m \in Nat \ {0}, NEW n \in Nat, n <= Len(s)
  PROVE  /\ SubSeq(s, m, n) \in Seq(S)
         /\ Len(SubSeq(s, m, n)) = IF m <= n THEN n - m + 1 ELSE 0
OBVIOUS

(* The whole of a sequence.                                                *)
LEMMA SubSeqAll ==
  ASSUME NEW S, NEW s \in Seq(S)
  PROVE  SubSeq(s, 1, Len(s)) = s
OBVIOUS

USE StreamAssumption

(* A frame that shows `status` will be sent: the bridge has not seen the   *)
(* transition, or holds it and is about to send.                           *)
StatusDue == ~statusSeen \/ bridge.pc = "gotStatus"

CurrentFrames == {f \in StatusFrames : /\ f.status = status \/ StatusDue
                                       /\ f.echo = requested \/ ~requestedSeen}

StatusAt == {i \in 1..Len(ring) : ring[i].kind = "status"}

(* What the bridge read is the manager's status until the next transition, *)
(* and that notifies it again.                                             *)
BridgeInv == bridge.pc \in {"gotStatus", "gotEcho"} =>
    bridge.raw \in ManagerStates /\ (bridge.raw = status \/ ~statusSeen)

(* Without a lag the newest status event of the ring is current; with none *)
(* in the ring it is what the connection has sent or read that is.         *)
ConnInv ==
    /\ conn.pc = "off" => ring = <<>> /\ ~lagged
    /\ conn.pc = "snapshotEcho" => conn.raw \in ManagerStates
    /\ ~lagged => \A i \in StatusAt :
                     (\A j \in StatusAt : j <= i) => ring[i].frame \in CurrentFrames
    /\ ~lagged /\ StatusAt = {} =>
          /\ conn.pc = "snapshotEcho" => conn.raw = status \/ StatusDue
          /\ conn.pc = "loop" => client.frame \in CurrentFrames

StreamInv == StreamTypeOK /\ BridgeInv /\ ConnInv /\ LegacyIsCurrent

-----------------------------------------------------------------------------
(* The broadcast ring: a receiver that has not lagged reads every event    *)
(* that was sent, in order.                                                *)
LEMMA SendEffect ==
    ASSUME StreamTypeOK, NEW evs \in Seq(Events), Send(evs)
    PROVE  /\ ring' \in Seq(Events) /\ Len(ring') <= RingCapacity
           /\ lagged' \in BOOLEAN
           /\ conn.pc = "off" => ring' = ring /\ lagged' = lagged
           /\ conn.pc # "off" /\ ~lagged' => ~lagged /\ ring' = ring \o evs
<1> DEFINE all == ring \o evs
           over == IF Len(all) > RingCapacity THEN Len(all) - RingCapacity ELSE 0
<1>1. ring \in Seq(Events) /\ Len(ring) <= RingCapacity /\ lagged \in BOOLEAN
  BY Zenon DEF StreamTypeOK
<1>2. CASE conn.pc = "off"
  BY <1>1, <1>2, Zenon DEF Send
<1>3. CASE conn.pc # "off"
  <2>1. ring' = SubSeq(all, over + 1, Len(all)) /\ lagged' = (lagged \/ over > 0)
    BY <1>3, Zenon DEF Send
  <2>2. all \in Seq(Events) /\ Len(all) \in Nat
    BY <1>1, ConcatFacts, LenFacts, Zenon
  <2> HIDE DEF all
  <2>3. over \in 0..Len(all) /\ Len(all) - over <= RingCapacity
    BY <2>2
  <2> HIDE DEF over
  <2>4. \A i \in (over + 1)..Len(all) : all[i] \in Events
    BY <2>2, <2>3, ElementFacts
  <2>5. ring' \in Seq(Events)
    BY <2>1, <2>2, <2>3, SubSeqFacts
  <2>6. Len(ring') = IF over + 1 <= Len(all) THEN Len(all) - (over + 1) + 1 ELSE 0
    <3>1. over + 1 \in Nat \ {0} /\ Len(all) <= Len(all)
      BY <2>2, <2>3
    <3>2. Len(SubSeq(all, over + 1, Len(all)))
            = IF over + 1 <= Len(all) THEN Len(all) - (over + 1) + 1 ELSE 0
      BY <3>1, <2>2, SubSeqFacts, Zenon
    <3> QED BY <3>2, <2>1, Zenon
  <2>7. Len(ring') <= RingCapacity
    BY <2>2, <2>3, <2>6
  <2>8. ASSUME ~lagged' PROVE ~lagged /\ ring' = all
    <3>1. ~lagged /\ ~(over > 0)
      BY <2>1, <2>8, Zenon
    <3>2. over = 0
      BY <3>1, <2>2, <2>3
    <3>3. ring' = SubSeq(all, 1, Len(all))
      BY <2>1, <3>2
    <3> QED BY <3>1, <3>3, <2>2, SubSeqAll, Zenon
  <2>9. lagged' \in BOOLEAN
    BY <2>1, Zenon
  <2> QED BY <1>3, <2>5, <2>7, <2>8, <2>9, Zenon DEF all
<1> QED BY <1>2, <1>3, Zenon

(* The events of the hub.                                                  *)
LEMMA EventTypes ==
    /\ \A f \in StatusFrames : StatusEvent(f) \in Events /\ StatusEvent(f).kind = "status"
                               /\ StatusEvent(f).frame = f
    /\ \A s \in LegacyStates : LegacyEvent(s) \in Events /\ LegacyEvent(s).kind = "legacy"
                               /\ LegacyEvent(s).legacy = s
    /\ \A e \in Events : /\ e.kind = "status" => e.frame \in StatusFrames
                         /\ e.kind # "status" => e.legacy \in LegacyStates
  BY DEF Events, StatusEvent, LegacyEvent

(* Every manager state has a legacy state.                                 *)
LEMMA LegacyTypes == \A s \in ManagerStates : map_core_state(s) \in LegacyStates
  BY Zenon DEF map_core_state, ManagerStates, LegacyStates

(* What BridgeStateSend sends: the snapshot and, unless it is suppressed,  *)
(* the legacy event of the state the bridge read.                          *)
SentState == LET snapshot == StatusEvent(Frame(bridge.raw, requested)) IN
    IF Suppressed THEN <<snapshot>> ELSE <<snapshot, LegacyEvent(map_core_state(bridge.raw))>>

(* What the bridge sends.                                                  *)
LEMMA SentTypes ==
    ASSUME StreamTypeOK, bridge.raw \in ManagerStates
    PROVE  /\ Frame(bridge.raw, requested) \in StatusFrames
           /\ SentState \in Seq(Events)
           /\ <<StatusEvent(Frame(bridge.raw, requested))>> \in Seq(Events)
<1>1. Frame(bridge.raw, requested) \in StatusFrames
  BY Zenon DEF StreamTypeOK, Frame, StatusFrames
<1>2. /\ StatusEvent(Frame(bridge.raw, requested)) \in Events
      /\ LegacyEvent(map_core_state(bridge.raw)) \in Events
  BY <1>1, EventTypes, LegacyTypes, Zenon
<1> QED BY <1>1, <1>2 DEF SentState

-----------------------------------------------------------------------------
(* Every state is well typed; the ring never holds more than its capacity. *)
LEMMA StreamTypeStep ==
    ASSUME StreamTypeOK, BridgeInv, ConnInv, [StreamNext]_streamVars
    PROVE  StreamTypeOK'
<1> USE DEF StreamTypeOK
<1>1. ASSUME NEW s \in ManagerStates, ManagerTransition(s)
      PROVE  StreamTypeOK'
  <2>1. changes' \in 0..MaxChanges
    BY <1>1 DEF ManagerTransition
  <2> QED BY <1>1, <2>1, ZenonT(30) DEF ManagerTransition
<1>2. ASSUME NEW t \in EchoTypes \cup {NoEcho}, PublishRequestedCore(t)
      PROVE  StreamTypeOK'
  <2>1. changes' \in 0..MaxChanges
    BY <1>2 DEF PublishRequestedCore
  <2> QED BY <1>2, <2>1, ZenonT(30) DEF PublishRequestedCore
<1>3. CASE BridgeState \/ BridgeEcho
  BY <1>3, ZenonT(30) DEF BridgeState, BridgeEcho
<1>4. CASE BridgeStateSend
  <2>1. bridge.raw \in ManagerStates
    BY <1>4, Zenon DEF BridgeStateSend, BridgeInv
  <2>2. Send(SentState)
    BY <1>4, Zenon DEF BridgeStateSend, SentState
  <2>3. ring' \in Seq(Events) /\ Len(ring') <= RingCapacity /\ lagged' \in BOOLEAN
    BY <2>1, <2>2, SentTypes, SendEffect, Zenon
  <2>4. bridge' \in [pc : {"select"}, raw : {"none"}, last : LegacyStates]
    BY <1>4, <2>1, LegacyTypes, Zenon DEF BridgeStateSend
  <2> QED BY <1>4, <2>3, <2>4, Zenon DEF BridgeStateSend
<1>5. CASE BridgeEchoSend
  <2>1. bridge.raw \in ManagerStates
    BY <1>5, Zenon DEF BridgeEchoSend, BridgeInv
  <2>2. Send(<<StatusEvent(Frame(bridge.raw, requested))>>)
    BY <1>5, Zenon DEF BridgeEchoSend
  <2>3. ring' \in Seq(Events) /\ Len(ring') <= RingCapacity /\ lagged' \in BOOLEAN
    BY <2>1, <2>2, SentTypes, SendEffect, Zenon
  <2> QED BY <1>5, <2>3, Zenon DEF BridgeEchoSend
<1>6. CASE SnapshotStatus \/ Connect
  BY <1>6 DEF SnapshotStatus, Connect
<1>7. CASE SendSnapshot
  <2>1. Frame(conn.raw, requested) \in StatusFrames
    BY <1>7, Zenon DEF SendSnapshot, ConnInv, Frame, StatusFrames
  <2> QED BY <1>7, <2>1, Zenon DEF SendSnapshot
<1>8. CASE ReceiveEvent
  <2>1. /\ Head(ring) \in Events /\ Tail(ring) \in Seq(Events)
        /\ Len(Tail(ring)) = Len(ring) - 1 /\ Len(ring) \in Nat
    BY <1>8, HeadTailFacts, LenFacts, Zenon DEF ReceiveEvent
  <2>2. client' \in [frame : StatusFrames \cup {NoFrame}, legacy : LegacyStates \cup {"none"}]
    BY <1>8, <2>1, EventTypes, Zenon DEF ReceiveEvent
  <2>3. ring' \in Seq(Events) /\ Len(ring') <= RingCapacity
    BY <1>8, <2>1 DEF ReceiveEvent
  <2> QED BY <1>8, <2>2, <2>3, Zenon DEF ReceiveEvent
<1>9. CASE StatusLag \/ Disconnect
  <2>1. ring' = <<>> /\ lagged' = FALSE
    BY <1>9, Zenon DEF StatusLag, Disconnect
  <2>2. ring' \in Seq(Events) /\ Len(ring') = 0
    BY <2>1, EmptyFacts, Zenon
  <2>3. Len(ring') <= RingCapacity
    BY <2>2
  <2>4. conn' \in [pc : {"off", "snapshot"}, raw : {"none"}]
    BY <1>9 DEF StatusLag, Disconnect
  <2> QED BY <1>9, <2>1, <2>2, <2>3, <2>4, Zenon DEF StatusLag, Disconnect
<1>10. CASE UNCHANGED streamVars
  BY <1>10 DEF streamVars
<1> QED BY <1>1, <1>2, <1>3, <1>4, <1>5, <1>6, <1>7, <1>8, <1>9, <1>10,
       Zenon DEF StreamNext, Bridge, Sender

-----------------------------------------------------------------------------
(* The bridge: a transition after its read leaves the watch unseen.        *)
LEMMA BridgeStep ==
    ASSUME StreamTypeOK, BridgeInv, [StreamNext]_streamVars
    PROVE  BridgeInv'
<1> USE DEF StreamTypeOK, BridgeInv
<1>1. ASSUME NEW s \in ManagerStates, ManagerTransition(s)
      PROVE  BridgeInv'
  BY <1>1, Zenon DEF ManagerTransition
<1>2. CASE BridgeState \/ BridgeEcho
  BY <1>2, Zenon DEF BridgeState, BridgeEcho
<1>3. CASE BridgeStateSend \/ BridgeEchoSend
  <2>1. CASE BridgeStateSend
    BY <2>1, Zenon DEF BridgeStateSend
  <2>2. CASE BridgeEchoSend
    BY <2>2, Zenon DEF BridgeEchoSend
  <2> QED BY <1>3, <2>1, <2>2, Zenon
<1>4. CASE \/ Sender \/ Connect \/ Disconnect \/ UNCHANGED streamVars
           \/ \E t \in EchoTypes \cup {NoEcho} : PublishRequestedCore(t)
  <2>1. UNCHANGED <<bridge, status, statusSeen>>
    BY <1>4, Zenon DEF Sender, SnapshotStatus, SendSnapshot, ReceiveEvent, StatusLag, Connect,
                Disconnect, PublishRequestedCore, streamVars
  <2> QED BY <2>1, Zenon
<1> QED BY <1>1, <1>2, <1>3, <1>4, Zenon DEF StreamNext, Bridge

(* The legacy state follows the status: the arm of a type commit borrows   *)
(* the status without marking it seen, so each transition gets its turn.   *)
LEMMA LegacyStep ==
    ASSUME StreamTypeOK, BridgeInv, LegacyIsCurrent, [StreamNext]_streamVars
    PROVE  LegacyIsCurrent'
<1> USE DEF StreamTypeOK, LegacyIsCurrent
<1>1. ASSUME NEW s \in ManagerStates, ManagerTransition(s)
      PROVE  LegacyIsCurrent'
  BY <1>1, Zenon DEF ManagerTransition
<1>2. CASE BridgeState
  BY <1>2, Zenon DEF BridgeState
<1>3. CASE BridgeStateSend
  <2>1. bridge.raw = status \/ ~statusSeen
    BY <1>3, Zenon DEF BridgeStateSend, BridgeInv
  <2>2. bridge'.last = IF Suppressed THEN bridge.last ELSE map_core_state(bridge.raw)
    BY <1>3, Zenon DEF BridgeStateSend
  <2>3. UNCHANGED <<status, statusSeen>>
    BY <1>3, Zenon DEF BridgeStateSend
  <2>4. CASE Suppressed
    BY <2>1, <2>2, <2>3, <2>4, Zenon DEF Suppressed, map_core_state
  <2>5. CASE ~Suppressed
    BY <2>1, <2>2, <2>3, <2>5, Zenon DEF map_core_state
  <2> QED BY <2>4, <2>5, Zenon
<1>4. CASE BridgeEcho \/ BridgeEchoSend
  <2>1. /\ UNCHANGED <<status, statusSeen>> /\ bridge'.last = bridge.last
        /\ bridge.pc # "gotStatus"
    BY <1>4, Zenon DEF BridgeEcho, BridgeEchoSend
  <2> QED BY <2>1, Zenon DEF map_core_state
<1>5. CASE \/ Sender \/ Connect \/ Disconnect \/ UNCHANGED streamVars
           \/ \E t \in EchoTypes \cup {NoEcho} : PublishRequestedCore(t)
  <2>1. UNCHANGED <<bridge, status, statusSeen>>
    BY <1>5, Zenon DEF Sender, SnapshotStatus, SendSnapshot, ReceiveEvent, StatusLag, Connect,
                Disconnect, PublishRequestedCore, streamVars
  <2> QED BY <2>1, Zenon DEF map_core_state
<1> QED BY <1>1, <1>2, <1>3, <1>4, <1>5, Zenon DEF StreamNext, Bridge

-----------------------------------------------------------------------------
(* A step that sends nothing keeps a frame current: it leaves the values   *)
(* the frame shows alone, or makes a newer frame due.                      *)
LEMMA CurrentKept ==
    ASSUME status' = status \/ ~statusSeen',
           requested' = requested \/ ~requestedSeen',
           StatusDue => StatusDue', ~requestedSeen => ~requestedSeen'
    PROVE  CurrentFrames \subseteq CurrentFrames'
<1>1. ~statusSeen' => StatusDue'
  BY Zenon DEF StatusDue
<1> QED BY <1>1, Zenon DEF CurrentFrames

(* A step that only marks a change as outstanding keeps what holds of the  *)
(* client.                                                                 *)
LEMMA ConnKept ==
    ASSUME StreamTypeOK, ConnInv, UNCHANGED <<ring, lagged, conn, client>>,
           status' = status \/ ~statusSeen',
           requested' = requested \/ ~requestedSeen',
           StatusDue => StatusDue', ~requestedSeen => ~requestedSeen'
    PROVE  ConnInv'
<1>1. CurrentFrames \subseteq CurrentFrames'
  BY CurrentKept, Zenon
<1>2. StatusAt' = StatusAt
  BY Zenon DEF StatusAt
<1>3. ~statusSeen' => StatusDue'
  BY Zenon DEF StatusDue
<1> QED BY <1>1, <1>2, <1>3, Zenon DEF ConnInv

(* Sending a current snapshot makes the newest status event current.       *)
LEMMA ConnSend ==
    ASSUME StreamTypeOK, ConnInv, UNCHANGED <<conn, client>>,
           NEW f \in CurrentFrames', NEW evs \in Seq(Events), Send(evs),
           \/ evs = <<StatusEvent(f)>>
           \/ \E s \in LegacyStates : evs = <<StatusEvent(f), LegacyEvent(s)>>
    PROVE  ConnInv'
<1>1. conn'.pc = "snapshotEcho" => conn'.raw \in ManagerStates
  BY Zenon DEF ConnInv
<1>2. CASE conn.pc = "off"
  <2>1. ring' = <<>> /\ ~lagged'
    BY <1>2, SendEffect, Zenon DEF ConnInv
  <2>2. StatusAt' = {}
    BY <2>1 DEF StatusAt
  <2> QED BY <1>1, <1>2, <2>1, <2>2, Zenon DEF ConnInv
<1>3. CASE conn.pc # "off" /\ lagged'
  BY <1>1, <1>3, Zenon DEF ConnInv
<1>4. CASE conn.pc # "off" /\ ~lagged'
  <2>1. ring' = ring \o evs /\ ring \in Seq(Events) /\ Len(ring) \in Nat
    BY <1>4, SendEffect, LenFacts, Zenon DEF StreamTypeOK
  <2> DEFINE n == Len(ring) + 1
  <2>2. Len(evs) \in 1..2 /\ evs[1] = StatusEvent(f)
        /\ (Len(evs) = 2 => evs[2].kind # "status")
    BY EventTypes
  <2>3. Len(ring') = Len(ring) + Len(evs)
    BY <2>1, ConcatFacts, Zenon
  <2>4. ring'[n] = StatusEvent(f)
    BY <2>1, <2>2, <2>3, ConcatFacts
  <2>5. n \in StatusAt' /\ ring'[n].frame = f
    <3>1. StatusEvent(f).kind = "status" /\ StatusEvent(f).frame = f
      BY Zenon DEF StatusEvent
    <3>2. n \in 1..Len(ring')
      BY <2>1, <2>2, <2>3
    <3> QED BY <2>4, <3>1, <3>2, Zenon DEF StatusAt
  <2>6. \A i \in StatusAt' : i <= n
    <3> SUFFICES ASSUME NEW i \in 1..Len(ring'), i > n PROVE ring'[i].kind # "status"
      BY <2>1, <2>2, <2>3 DEF StatusAt
    <3>1. Len(evs) = 2 /\ i = Len(ring) + 2
      BY <2>1, <2>2, <2>3
    <3>2. ring'[i] = evs[2]
      BY <2>1, <2>3, <3>1, ConcatFacts
    <3> QED BY <2>2, <3>1, <3>2, Zenon
  <2>7. n \in Nat /\ StatusAt' \subseteq Nat
    BY <2>1, <2>3, <2>2 DEF StatusAt
  <2> HIDE DEF n
  <2>8. \A i \in StatusAt' : (\A j \in StatusAt' : j <= i) => i = n
    BY <2>5, <2>6, <2>7
  <2> QED BY <1>1, <1>4, <2>5, <2>8, Zenon DEF ConnInv
<1> QED BY <1>2, <1>3, <1>4, Zenon

(* Reading the oldest event: another status event behind it stays the      *)
(* newest; the last one becomes the client's frame.                        *)
LEMMA ConnReceive ==
    ASSUME StreamTypeOK, ConnInv, ReceiveEvent
    PROVE  ConnInv'
<1>1. /\ Tail(ring) \in Seq(Events) /\ Len(Tail(ring)) = Len(ring) - 1
      /\ Len(ring) \in Nat /\ Len(ring) > 0 /\ Head(ring) = ring[1]
  BY HeadTailFacts, LenFacts, EmptyFacts DEF ReceiveEvent, StreamTypeOK
<1>2. \A i \in 1..Len(Tail(ring)) : Tail(ring)[i] = ring[i + 1]
  BY HeadTailFacts DEF ReceiveEvent, StreamTypeOK
<1>3. ring' = Tail(ring) /\ conn.pc = "loop" /\ ~lagged
  BY Zenon DEF ReceiveEvent
<1>4. UNCHANGED <<status, statusSeen, requested, requestedSeen, bridge, lagged, conn>>
  BY Zenon DEF ReceiveEvent
<1>5. CurrentFrames' = CurrentFrames
  BY <1>4, Zenon DEF CurrentFrames, StatusDue
<1>6. \A i : i \in StatusAt' <=> i \in Nat /\ i > 0 /\ i + 1 \in StatusAt
  BY <1>1, <1>2, <1>3 DEF StatusAt
<1>7. StatusAt \subseteq Nat /\ \A i \in StatusAt : i >= 1
  BY <1>1 DEF StatusAt
<1>8. \A i \in StatusAt' : ring'[i] = ring[i + 1]
  BY <1>1, <1>2, <1>3, Zenon DEF StatusAt
<1>9. ASSUME NEW i \in StatusAt', \A j \in StatusAt' : j <= i
      PROVE  ring'[i].frame \in CurrentFrames'
  <2>1. i + 1 \in StatusAt /\ i \in Nat /\ i > 0
    BY <1>6, Zenon
  <2>2. \A j \in StatusAt : j <= i + 1
    <3> SUFFICES ASSUME NEW j \in StatusAt, j > 1 PROVE j <= i + 1
      BY <1>7, <2>1
    <3>1. (j - 1) + 1 \in StatusAt /\ j - 1 \in Nat /\ j - 1 > 0
      BY <1>7
    <3>2. j - 1 \in StatusAt'
      BY <1>6, <3>1, Zenon
    <3> QED BY <1>7, <1>9, <2>1, <3>2
  <2> QED BY <1>3, <1>5, <1>8, <2>1, <2>2, Zenon DEF ConnInv
<1>10. ASSUME StatusAt' = {}
       PROVE  client'.frame \in CurrentFrames'
  <2>1. \A i \in StatusAt : i = 1
    <3> SUFFICES ASSUME NEW i \in StatusAt, i # 1 PROVE FALSE
      BY Zenon
    <3>1. (i - 1) + 1 \in StatusAt /\ i - 1 \in Nat /\ i - 1 > 0
      BY <1>7
    <3>2. i - 1 \in StatusAt'
      BY <1>6, <3>1, Zenon
    <3> QED BY <1>10, <3>2, Zenon
  <2>2. CASE Head(ring).kind = "status"
    <3>1. 1 \in StatusAt
      BY <1>1, <2>2 DEF StatusAt
    <3>2. ring[1].frame \in CurrentFrames
      BY <1>3, <2>1, <3>1 DEF ConnInv
    <3>3. client'.frame = ring[1].frame
      BY <1>1, <2>2, Zenon DEF ReceiveEvent, StreamTypeOK
    <3> QED BY <1>5, <3>2, <3>3, Zenon
  <2>3. CASE Head(ring).kind # "status"
    <3>1. StatusAt = {}
      BY <1>1, <2>1, <2>3, Zenon DEF StatusAt
    <3>2. client'.frame = client.frame
      BY <2>3, Zenon DEF ReceiveEvent, StreamTypeOK
    <3> QED BY <1>3, <1>5, <3>1, <3>2, Zenon DEF ConnInv
  <2> QED BY <2>2, <2>3, Zenon
<1> QED BY <1>3, <1>4, <1>9, <1>10, Zenon DEF ConnInv

(* Every step keeps the connection invariant.                              *)
LEMMA ConnStep ==
    ASSUME StreamTypeOK, BridgeInv, ConnInv, [StreamNext]_streamVars
    PROVE  ConnInv'
<1>1. ASSUME NEW s \in ManagerStates, ManagerTransition(s)
      PROVE  ConnInv'
  BY <1>1, ConnKept, Zenon DEF ManagerTransition, StatusDue
<1>2. ASSUME NEW t \in EchoTypes \cup {NoEcho}, PublishRequestedCore(t)
      PROVE  ConnInv'
  BY <1>2, ConnKept, Zenon DEF PublishRequestedCore, StatusDue
<1>3. CASE BridgeState \/ BridgeEcho
  <2>1. CASE BridgeState
    BY <2>1, ConnKept, Zenon DEF BridgeState, StatusDue, StreamTypeOK
  <2>2. CASE BridgeEcho
    BY <2>2, ConnKept, Zenon DEF BridgeEcho, StatusDue, StreamTypeOK
  <2> QED BY <1>3, <2>1, <2>2, Zenon
<1>4. CASE BridgeStateSend \/ BridgeEchoSend
  <2> DEFINE f == Frame(bridge.raw, requested)
  <2>1. bridge.raw \in ManagerStates /\ (bridge.raw = status \/ ~statusSeen)
    BY <1>4, Zenon DEF BridgeStateSend, BridgeEchoSend, BridgeInv
  <2>2. f \in StatusFrames /\ f.status = bridge.raw /\ f.echo = requested
    BY <2>1, SentTypes, Zenon DEF Frame
  <2>3. UNCHANGED <<status, statusSeen, requested, conn, client>>
    BY <1>4, Zenon DEF BridgeStateSend, BridgeEchoSend
  <2> HIDE DEF f
  <2>4. f \in CurrentFrames'
    BY <2>1, <2>2, <2>3, Zenon DEF CurrentFrames, StatusDue
  <2>5. CASE BridgeStateSend
    <3>1. Send(SentState) /\ SentState \in Seq(Events)
      BY <2>1, <2>5, SentTypes, Zenon DEF BridgeStateSend, SentState
    <3>2. \/ SentState = <<StatusEvent(f)>>
          \/ \E s \in LegacyStates : SentState = <<StatusEvent(f), LegacyEvent(s)>>
      BY <2>1, LegacyTypes, Zenon DEF SentState, f
    <3> QED BY <2>3, <2>4, <3>1, <3>2, ConnSend, Zenon
  <2>6. CASE BridgeEchoSend
    <3>1. Send(<<StatusEvent(f)>>) /\ <<StatusEvent(f)>> \in Seq(Events)
      BY <2>1, <2>6, SentTypes, Zenon DEF BridgeEchoSend, f
    <3> QED BY <2>3, <2>4, <3>1, ConnSend, Zenon
  <2> QED BY <1>4, <2>5, <2>6, Zenon
<1>5. CASE Connect
  <2>1. StatusAt' = {} /\ ring' = ring /\ conn'.pc = "snapshot"
    BY <1>5 DEF Connect, ConnInv, StatusAt
  <2> QED BY <2>1, Zenon DEF ConnInv
<1>6. CASE StatusLag \/ Disconnect
  <2>1. /\ StatusAt' = {} /\ ring' = <<>> /\ lagged' = FALSE
        /\ conn'.pc \in {"off", "snapshot"}
    BY <1>6 DEF StatusLag, Disconnect, StatusAt
  <2> QED BY <2>1, Zenon DEF ConnInv
<1>7. CASE SnapshotStatus \/ SendSnapshot
  <2>1. UNCHANGED <<status, statusSeen, requested, requestedSeen, bridge, ring, lagged>>
    BY <1>7, Zenon DEF SnapshotStatus, SendSnapshot
  <2>2. CurrentFrames' = CurrentFrames /\ StatusAt' = StatusAt /\ (StatusDue' <=> StatusDue)
    BY <2>1, Zenon DEF CurrentFrames, StatusAt, StatusDue
  <2>3. CASE SnapshotStatus
    <3>1. conn'.pc = "snapshotEcho" /\ conn'.raw = status /\ conn.pc = "snapshot"
      BY <2>3, Zenon DEF SnapshotStatus
    <3> QED BY <2>1, <2>2, <3>1, Zenon DEF ConnInv, StreamTypeOK
  <2>4. CASE SendSnapshot
    <3>1. conn'.pc = "loop" /\ conn.pc = "snapshotEcho"
          /\ client'.frame = Frame(conn.raw, requested)
      BY <2>4, Zenon DEF SendSnapshot, StreamTypeOK
    <3>2. ~lagged /\ StatusAt = {} => client'.frame \in CurrentFrames
      BY <3>1 DEF ConnInv, CurrentFrames, Frame, StatusFrames, StreamTypeOK
    <3> QED BY <2>1, <2>2, <3>1, <3>2, Zenon DEF ConnInv
  <2> QED BY <1>7, <2>3, <2>4, Zenon
<1>8. CASE UNCHANGED streamVars
  BY <1>8, ConnKept, Zenon DEF streamVars, StatusDue
<1> QED BY <1>1, <1>2, <1>3, <1>4, <1>5, <1>6, <1>7, <1>8, ConnReceive,
       Zenon DEF StreamNext, Bridge, Sender

-----------------------------------------------------------------------------
(* The stream's invariant: its types, what the bridge holds, and what the  *)
(* connection has sent, read or still has in its ring.                     *)
THEOREM StreamInvariant == StreamSpec => []StreamInv
<1>1. StreamInit => StreamInv
  <2> SUFFICES ASSUME StreamInit PROVE StreamInv
    BY Zenon
  <2>1. ring \in Seq(Events) /\ Len(ring) = 0 /\ StatusAt = {}
    BY EmptyFacts DEF StreamInit, StatusAt
  <2>5. Len(ring) <= RingCapacity /\ changes \in 0..MaxChanges
    BY <2>1 DEF StreamInit
  <2>6. /\ bridge \in [pc : {"select"}, raw : {"none"}, last : LegacyStates]
        /\ conn \in [pc : {"off"}, raw : {"none"}]
        /\ client \in [frame : {NoFrame}, legacy : {"none"}]
    BY Zenon DEF StreamInit, LegacyStates
  <2>2. StreamTypeOK
    BY <2>1, <2>5, <2>6, Zenon DEF StreamInit, StreamTypeOK, ManagerStates
  <2>3. BridgeInv /\ LegacyIsCurrent
    BY Zenon DEF StreamInit, BridgeInv, LegacyIsCurrent, map_core_state
  <2>4. ConnInv
    BY <2>1, Zenon DEF StreamInit, ConnInv
  <2> QED BY <2>2, <2>3, <2>4, Zenon DEF StreamInv
<1>2. StreamInv /\ [StreamNext]_streamVars => StreamInv'
  BY StreamTypeStep, BridgeStep, LegacyStep, ConnStep, Zenon DEF StreamInv
<1> QED BY <1>1, <1>2, PTL DEF StreamSpec

(* A client that is connected when the bridge and its ring are drained     *)
(* holds the manager's status and the committed type, whatever lags,       *)
(* reconnects and coalesced notifications came before.                     *)
THEOREM QuietClientCurrent == StreamSpec => []QuiescentClientIsCurrent
<1>1. StreamInv => QuiescentClientIsCurrent
  <2> SUFFICES ASSUME StreamInv, statusSeen, requestedSeen, bridge.pc = "select",
                      conn.pc = "loop", ring = <<>>, ~lagged
               PROVE  client.frame = Frame(status, requested)
    BY Zenon DEF QuiescentClientIsCurrent
  <2>1. StatusAt = {}
    BY DEF StatusAt
  <2>2. client.frame \in CurrentFrames
    BY <2>1, Zenon DEF StreamInv, ConnInv
  <2> QED BY <2>2, Zenon DEF CurrentFrames, StatusDue, Frame, StatusFrames
<1> QED BY <1>1, StreamInvariant, PTL

(* No manager transition is swallowed by a type commit on its way to the   *)
(* two-valued stream of status_bridge.                                     *)
THEOREM LegacyFollows == StreamSpec => []LegacyIsCurrent
<1>1. StreamInv => LegacyIsCurrent
  BY Zenon DEF StreamInv
<1> QED BY <1>1, StreamInvariant, PTL

-----------------------------------------------------------------------------
(* The adapter between the service's handlers and the core manager, for    *)
(* any number of clients, core types, check slots and requests: who holds  *)
(* the control mutex, what the closing latch excludes, and how the echo    *)
(* follows the core.                                                       *)

USE ControlAssumption

(* The points at which a handler holds the control mutex.                  *)
Inside == {"run", "commit", "return"}

(* The mutex has the one holder that is inside, and nobody is once the     *)
(* latch is set.                                                           *)
OneInside ==
    /\ \A c \in Clients : calls[c].pc \in Inside <=> control = c
    /\ closing <=> server \in {"stopping", "drained"}
    /\ closing => control = "none"

(* Between the manager's answer and the commit the new type is in the      *)
(* manager only; at every other point the echo is the type of the core     *)
(* and of last_spec, but for a torn apply.                                 *)
EchoInv ==
    /\ \A c \in Clients : calls[c].pc = "commit" =>
          core \in {calls[c].type, NoType} /\ last = calls[c].type
    /\ (\A c \in Clients : calls[c].pc # "commit") =>
          /\ core # NoType => echo = core \/ torn
          /\ last # NoType => echo = last \/ torn

AdapterInv ==
    ControlTypeOK /\ ChecksAccounted /\ OneInside /\ EchoInv /\ NoCoreAfterShutdown

-----------------------------------------------------------------------------
(* Permits.                                                                *)

(* Finitely many clients run a check.                                      *)
LEMMA CheckingFinite == IsFiniteSet(Checking)
  BY FS_Subset, Zenon DEF Checking

(* A running check holds one of the permits.                               *)
LEMMA PermitOut ==
    ASSUME ControlTypeOK, ChecksAccounted, NEW c \in Checking
    PROVE  slots + 1 \in 0..MaxChecks
<1>1. Cardinality(Checking) \in Nat /\ Cardinality(Checking) # 0
  BY CheckingFinite, FS_CardinalityType, FS_EmptySet, Zenon
<1> QED BY <1>1 DEF ChecksAccounted, ControlTypeOK

(* A step moves a permit with the check that takes it or gives it back.    *)
LEMMA PermitStep ==
    ASSUME ControlTypeOK, ChecksAccounted, [ControlNext]_controlVars
    PROVE  ChecksAccounted'
<1> USE DEF ControlTypeOK
<1>1. CASE Checking' = Checking /\ slots' = slots
  BY <1>1, Zenon DEF ChecksAccounted
<1>2. ASSUME NEW c \in Clients, CheckAcquire(c)
      PROVE  ChecksAccounted'
  <2>1. \/ Checking' = Checking /\ slots' = slots
        \/ Checking' = Checking \cup {c} /\ c \notin Checking /\ slots' = slots - 1
    BY <1>2 DEF CheckAcquire, Return, Idle, Checking
  <2>2. Cardinality(Checking) \in Nat
    BY CheckingFinite, FS_CardinalityType, Zenon
  <2>3. c \notin Checking => Cardinality(Checking \cup {c}) = Cardinality(Checking) + 1
    BY CheckingFinite, FS_AddElement, Zenon
  <2>4. CASE Checking' = Checking \cup {c} /\ c \notin Checking /\ slots' = slots - 1
    BY <2>2, <2>3, <2>4 DEF ChecksAccounted
  <2> QED BY <2>1, <2>4, <1>1, Zenon
<1>3. ASSUME NEW c \in Clients, CheckDone(c)
      PROVE  ChecksAccounted'
  <2>1. Checking' = Checking \ {c} /\ c \in Checking /\ slots' = slots + 1
    BY <1>3, Zenon DEF CheckDone, Return, Idle, Checking
  <2>2. Cardinality(Checking) \in Nat
    BY CheckingFinite, FS_CardinalityType, Zenon
  <2>3. Cardinality(Checking \ {c}) = Cardinality(Checking) - 1
    BY <2>1, CheckingFinite, FS_RemoveElement, Zenon
  <2> QED BY <2>1, <2>2, <2>3 DEF ChecksAccounted
<1>4. ASSUME NEW c \in Clients, NEW k \in Kinds, NEW t \in CoreTypes, Request(c, k, t)
      PROVE  ChecksAccounted'
  BY <1>4, <1>1, Zenon DEF Request, Call, Checking
<1>5. ASSUME NEW c \in Clients, Enter(c) \/ Run(c) \/ Leave(c)
      PROVE  ChecksAccounted'
  <2>1. CASE Enter(c)
    BY <1>1, <2>1 DEF Enter, Return, Idle, Checking
  <2>2. CASE Run(c)
    BY <1>1, <2>2, Zenon DEF Run, RunStart, RunStop, RunRestart, RunApply, RunRecover, RolledBack,
                      Answer, Checking
  <2>3. CASE Leave(c)
    BY <1>1, <2>3, Zenon DEF Leave, Return, Idle, Checking
  <2> QED BY <1>5, <2>1, <2>2, <2>3, Zenon
<1>6. ASSUME NEW c \in Clients, DropWaiting(c) \/ DropRunning(c)
      PROVE  ChecksAccounted'
  BY <1>1, <1>6 DEF DropWaiting, DropRunning, Return, Idle, Checking
<1>7. CASE ServerEnds \/ Shutdown \/ CoreExits \/ UNCHANGED controlVars
  BY <1>1, <1>7, Zenon DEF ServerEnds, Shutdown, LatchClosing, ManagerShutdown, CoreExits,
                    controlVars, Checking
<1> QED BY <1>2, <1>3, <1>4, <1>5, <1>6, <1>7, Zenon DEF ControlNext, Handler

-----------------------------------------------------------------------------
(* The state is well typed: every handler is at one of its awaits, and     *)
(* slots and requests stay within their bounds.                            *)
LEMMA ControlTypeStep ==
    ASSUME ControlTypeOK, ChecksAccounted, [ControlNext]_controlVars
    PROVE  ControlTypeOK'
<1> USE DEF ControlTypeOK, Return
<1>1. ASSUME NEW c \in Clients, NEW k \in Kinds, NEW t \in CoreTypes, Request(c, k, t)
      PROVE  ControlTypeOK'
  BY <1>1 DEF Request, Call
<1>2. ASSUME NEW c \in Clients, Enter(c)
      PROVE  ControlTypeOK'
  BY <1>2 DEF Enter, Idle
<1>3. ASSUME NEW c \in Clients, Run(c)
      PROVE  ControlTypeOK'
  BY <1>3 DEF Run, RunStart, RunStop, RunRestart, RunApply, RunRecover, RolledBack, Answer
<1>4. ASSUME NEW c \in Clients, Leave(c)
      PROVE  ControlTypeOK'
  BY <1>4, Zenon DEF Leave, Unlock, Idle
<1>5. ASSUME NEW c \in Clients, CheckAcquire(c)
      PROVE  ControlTypeOK'
  BY <1>5 DEF CheckAcquire, Idle
<1>6. ASSUME NEW c \in Clients, CheckDone(c)
      PROVE  ControlTypeOK'
  <2>1. slots' \in 0..MaxChecks
    BY <1>6, PermitOut, Zenon DEF CheckDone, Checking
  <2> QED BY <1>6, <2>1, Zenon DEF CheckDone, Idle
<1>7. ASSUME NEW c \in Clients, DropWaiting(c) \/ DropRunning(c)
      PROVE  ControlTypeOK'
  <2>1. CASE DropWaiting(c)
    BY <2>1, Zenon DEF DropWaiting, Idle
  <2>2. CASE DropRunning(c)
    <3>1. DroppedCores(c) \subseteq CoreTypes \cup {NoType}
      BY Zenon DEF DroppedCores
    <3>2. torn' \in BOOLEAN
      BY <2>2, Zenon DEF DropRunning
    <3> QED BY <2>2, <3>1, <3>2, Zenon DEF DropRunning, Unlock, Idle
  <2> QED BY <1>7, <2>1, <2>2, Zenon
<1>8. CASE ServerEnds \/ Shutdown \/ CoreExits
  BY <1>8, Zenon DEF ServerEnds, Shutdown, LatchClosing, ManagerShutdown, CoreExits
<1>9. CASE UNCHANGED controlVars
  BY <1>9, Zenon DEF controlVars
<1> QED BY <1>1, <1>2, <1>3, <1>4, <1>5, <1>6, <1>7, <1>8, <1>9, Zenon DEF ControlNext, Handler

-----------------------------------------------------------------------------
(* The mutex: a handler is inside exactly while it holds it. The latch is  *)
(* set while nobody does and refuses whoever gets it later, so nobody is   *)
(* inside after it.                                                        *)
LEMMA InsideStep ==
    ASSUME ControlTypeOK, OneInside, [ControlNext]_controlVars
    PROVE  OneInside'
<1> USE DEF ControlTypeOK, OneInside, Inside, Return
<1>1. ASSUME NEW c \in Clients, NEW k \in Kinds, NEW t \in CoreTypes, Request(c, k, t)
      PROVE  OneInside'
  BY <1>1, Zenon DEF Request, Call
<1>2. ASSUME NEW c \in Clients, Enter(c)
      PROVE  OneInside'
  BY <1>2 DEF Enter, Idle
<1>3. ASSUME NEW c \in Clients, Run(c)
      PROVE  OneInside'
  <2>1. \E p \in {"commit", "return"} : calls' = [calls EXCEPT ![c].pc = p]
    BY <1>3, Zenon DEF Run, RunStart, RunStop, RunRestart, RunApply, RunRecover, RolledBack, Answer
  <2>2. calls[c].pc = "run" /\ UNCHANGED <<control, closing, server>>
    BY <1>3, Zenon DEF Run
  <2> QED BY <2>1, <2>2
<1>4. ASSUME NEW c \in Clients, Leave(c)
      PROVE  OneInside'
  BY <1>4, Zenon DEF Leave, Unlock, Idle
<1>5. ASSUME NEW c \in Clients, CheckAcquire(c) \/ CheckDone(c)
      PROVE  OneInside'
  BY <1>5 DEF CheckAcquire, CheckDone, Idle
<1>6. ASSUME NEW c \in Clients, DropWaiting(c) \/ DropRunning(c)
      PROVE  OneInside'
  <2>1. CASE DropWaiting(c)
    BY <2>1, Zenon DEF DropWaiting, Idle
  <2>2. CASE DropRunning(c)
    BY <2>2, Zenon DEF DropRunning, Unlock, Idle
  <2> QED BY <1>6, <2>1, <2>2, Zenon
<1>7. CASE ServerEnds \/ Shutdown \/ CoreExits
  BY <1>7 DEF ServerEnds, Shutdown, LatchClosing, ManagerShutdown, CoreExits
<1>8. CASE UNCHANGED controlVars
  BY <1>8, Zenon DEF controlVars
<1> QED BY <1>1, <1>2, <1>3, <1>4, <1>5, <1>6, <1>7, <1>8, Zenon DEF ControlNext, Handler

(* After the manager's shutdown nothing touches the core: whoever could is *)
(* inside, and nobody is.                                                  *)
LEMMA ShutdownStep ==
    ASSUME ControlTypeOK, OneInside, NoCoreAfterShutdown, [ControlNext]_controlVars
    PROVE  NoCoreAfterShutdown'
<1> USE DEF NoCoreAfterShutdown
<1>1. ASSUME NEW c \in Clients, Run(c) \/ DropRunning(c)
      PROVE  NoCoreAfterShutdown'
  <2>1. server # "drained" /\ server' = server
    BY <1>1, Zenon DEF Run, DropRunning, OneInside, Inside, ControlTypeOK
  <2> QED BY <2>1, Zenon
<1>2. ASSUME NEW c \in Clients,
             \/ Enter(c) \/ Leave(c) \/ CheckAcquire(c) \/ CheckDone(c) \/ DropWaiting(c)
             \/ \E k \in Kinds, t \in CoreTypes : Request(c, k, t)
      PROVE  NoCoreAfterShutdown'
  BY <1>2, Zenon DEF Enter, Leave, CheckAcquire, CheckDone, DropWaiting, Request
<1>3. CASE ServerEnds \/ Shutdown \/ CoreExits \/ UNCHANGED controlVars
  BY <1>3, Zenon DEF ServerEnds, Shutdown, LatchClosing, ManagerShutdown, CoreExits, controlVars
<1> QED BY <1>1, <1>2, <1>3, Zenon DEF ControlNext, Handler

-----------------------------------------------------------------------------
(* The echo. A step that commits nothing leaves it, the core and last_spec *)
(* alone, or ends the core.                                                *)
LEMMA EchoKept ==
    ASSUME EchoInv, core' \in {core, NoType}, UNCHANGED <<last, echo, torn>>,
           \A c \in Clients : calls'[c].pc = "commit" <=> calls[c].pc = "commit",
           \A c \in Clients : calls[c].pc = "commit" => calls'[c].type = calls[c].type
    PROVE  EchoInv'
  BY Zenon DEF EchoInv

(* The manager's answer keeps the echo's relation: a success of start or   *)
(* apply is to be committed, and every other answer leaves the core that   *)
(* was there, none, or the one of last_spec.                               *)
LEMMA EchoRun ==
    ASSUME ControlTypeOK, OneInside, EchoInv, NEW c \in Clients, Run(c)
    PROVE  EchoInv'
<1> USE DEF ControlTypeOK
<1>1. \A d \in Clients : calls[d].pc # "commit"
  BY Zenon DEF Run, OneInside, Inside
<1>2. /\ core # NoType => echo = core \/ torn
      /\ last # NoType => echo = last \/ torn
  BY <1>1, Zenon DEF EchoInv
<1>3. UNCHANGED <<echo, torn>>
  BY Zenon DEF Run
<1>4. CASE Answer(c, calls[c].type, calls[c].type, TRUE)
  BY <1>1, <1>4 DEF Answer, EchoInv
<1>5. ASSUME NEW k \in {core, NoType, last}, Answer(c, k, last, FALSE)
      PROVE  EchoInv'
  <2>1. \A d \in Clients : calls'[d].pc # "commit"
    BY <1>1, <1>5, Zenon DEF Answer
  <2>2. core' = k /\ last' = last
    BY <1>5, Zenon DEF Answer
  <2> QED BY <2>1, <2>2, <1>2, <1>3, Zenon DEF EchoInv
<1> QED BY <1>4, <1>5, Zenon DEF Run, RunStart, RunStop, RunRestart, RunApply, RunRecover, RolledBack

(* A dropped operation leaves the echo where it was. A core other than the *)
(* one before is last_spec's, whose type the echo has, or tears the apply. *)
LEMMA EchoDrop ==
    ASSUME ControlTypeOK, OneInside, EchoInv, NEW c \in Clients, DropRunning(c)
    PROVE  EchoInv'
<1> USE DEF ControlTypeOK
<1>1. \A d \in Clients : calls[d].pc # "commit" /\ calls'[d].pc # "commit"
  BY Zenon DEF DropRunning, OneInside, Inside, Return, Idle
<1>2. /\ core # NoType => echo = core \/ torn
      /\ last # NoType => echo = last \/ torn
  BY <1>1, Zenon DEF EchoInv
<1>3. /\ core' \notin {core, NoType} => torn'
      /\ torn => torn'
  BY Zenon DEF DropRunning
<1>4. echo' = echo /\ last' = IF core' = NoType THEN last ELSE core'
  BY Zenon DEF DropRunning
<1>5. /\ core' # NoType => echo' = core' \/ torn'
      /\ last' # NoType => echo' = last' \/ torn'
  BY <1>2, <1>3, <1>4, Zenon
<1> QED BY <1>1, <1>5, Zenon DEF EchoInv

(* Every step keeps what the echo says.                                    *)
LEMMA EchoStep ==
    ASSUME ControlTypeOK, OneInside, EchoInv, [ControlNext]_controlVars
    PROVE  EchoInv'
<1> USE DEF ControlTypeOK, Return
<1>1. ASSUME NEW c \in Clients, NEW k \in Kinds, NEW t \in CoreTypes, Request(c, k, t)
      PROVE  EchoInv'
  BY <1>1, EchoKept, Zenon DEF Request, Call
<1>2. ASSUME NEW c \in Clients, Enter(c)
      PROVE  EchoInv'
  BY <1>2, EchoKept DEF Enter, Idle
<1>3. ASSUME NEW c \in Clients, Leave(c)
      PROVE  EchoInv'
  <2>1. CASE calls[c].pc = "return"
    BY <1>3, <2>1, EchoKept, Zenon DEF Leave, Idle
  <2>2. CASE calls[c].pc = "commit"
    <3>1. echo' = calls[c].type /\ core \in {calls[c].type, NoType} /\ last = calls[c].type
      BY <1>3, <2>2, Zenon DEF Leave, EchoInv
    <3>2. \A d \in Clients : calls'[d].pc # "commit"
      BY <1>3, <2>2, Zenon DEF Leave, OneInside, Inside, Idle
    <3>3. UNCHANGED <<core, last>>
      BY <1>3, Zenon DEF Leave
    <3> QED BY <3>1, <3>2, <3>3, Zenon DEF EchoInv
  <2> QED BY <1>3, <2>1, <2>2, Zenon DEF Leave
<1>4. ASSUME NEW c \in Clients, CheckAcquire(c) \/ CheckDone(c) \/ DropWaiting(c)
      PROVE  EchoInv'
  BY <1>4, EchoKept DEF CheckAcquire, CheckDone, DropWaiting, Idle
<1>5. CASE ServerEnds \/ Shutdown \/ CoreExits
  BY <1>5, EchoKept, Zenon DEF ServerEnds, Shutdown, LatchClosing, ManagerShutdown, CoreExits
<1>6. CASE UNCHANGED controlVars
  BY <1>6, EchoKept, Zenon DEF controlVars
<1> QED BY <1>1, <1>2, <1>3, <1>4, <1>5, <1>6, EchoRun, EchoDrop, Zenon DEF ControlNext, Handler

-----------------------------------------------------------------------------
(* The adapter's invariant: the types, the permits, the mutex with its     *)
(* latch, the echo and the end of the shutdown.                            *)
THEOREM AdapterInvariant == ControlSpec => []AdapterInv
<1>1. ControlInit => AdapterInv
  <2> SUFFICES ASSUME ControlInit PROVE AdapterInv
    BY Zenon
  <2>1. Checking = {} /\ Cardinality(Checking) = 0
    BY FS_EmptySet, Zenon DEF ControlInit, Checking, Idle
  <2>2. ControlTypeOK
    <3>1. /\ core \in CoreTypes \cup {NoType} /\ last \in CoreTypes \cup {NoType}
          /\ echo \in CoreTypes \cup {NoType} /\ control \in Clients \cup {"none"}
          /\ server \in {"serving", "latching", "stopping", "drained"}
      BY Zenon DEF ControlInit
    <3>2. slots \in 0..MaxChecks /\ requests \in 0..MaxRequests
      BY DEF ControlInit
    <3>3. closing \in BOOLEAN /\ torn \in BOOLEAN
      BY Zenon DEF ControlInit
    <3>4. calls \in [Clients -> [pc : {"idle", "lock", "run", "commit", "return", "checkSlot",
                                       "checking"},
                                 kind : Kinds \cup {"none"}, type : CoreTypes \cup {NoType}]]
      BY Zenon DEF ControlInit, Idle
    <3> QED BY <3>1, <3>2, <3>3, <3>4, Zenon DEF ControlTypeOK
  <2>4. ChecksAccounted
    BY <2>1 DEF ControlInit, ChecksAccounted
  <2>3. OneInside /\ EchoInv /\ NoCoreAfterShutdown
    BY Zenon DEF ControlInit, OneInside, Inside, EchoInv, NoCoreAfterShutdown, Idle
  <2> QED BY <2>2, <2>3, <2>4, Zenon DEF AdapterInv
<1>2. AdapterInv /\ [ControlNext]_controlVars => AdapterInv'
  BY PermitStep, ControlTypeStep, InsideStep, ShutdownStep, EchoStep, Zenon DEF AdapterInv
<1> QED BY <1>1, <1>2, PTL DEF ControlSpec

(* Once CoreManagerService::shutdown has returned no request brings a core *)
(* up again, however many wait for the mutex.                              *)
THEOREM ShutdownIsFinal == ControlSpec => []NoCoreAfterShutdown
<1>1. AdapterInv => NoCoreAfterShutdown
  BY Zenon DEF AdapterInv
<1> QED BY <1>1, AdapterInvariant, PTL

(* Between operations requested_core is the type of the active core, but   *)
(* for an apply that was dropped after the manager had installed its core. *)
THEOREM EchoFollowsCore == ControlSpec => []EchoMatchesCore
<1>1. AdapterInv => EchoMatchesCore
  <2> SUFFICES ASSUME AdapterInv, control = "none", core # NoType
               PROVE  echo = core \/ torn
    BY Zenon DEF EchoMatchesCore
  <2>1. \A c \in Clients : calls[c].pc # "commit"
    BY Zenon DEF AdapterInv, OneInside, Inside
  <2> QED BY <2>1, Zenon DEF AdapterInv, EchoInv
<1> QED BY <1>1, AdapterInvariant, PTL

(* No check loses its permit of check_slots.                               *)
THEOREM PermitsKept == ControlSpec => []ChecksAccounted
<1>1. AdapterInv => ChecksAccounted
  BY Zenon DEF AdapterInv
<1> QED BY <1>1, AdapterInvariant, PTL
=============================================================================
