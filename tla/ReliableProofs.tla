--------------------------- MODULE ReliableProofs ---------------------------
(***************************************************************************)
(* The inductive invariant behind in-order delivery, for every value of    *)
(* the constants, and what follows from it: no acknowledgement before its  *)
(* message has arrived, the bytes of the peer in order, and that the two   *)
(* layers implement a pair of streams.  And what the locks are for:        *)
(* nothing is sent on a closed channel, and no wakeup is lost.             *)
(***************************************************************************)
EXTENDS ReliableDelivery

(* The provers every leaf may use, and how long the first may take. *)
USE SMTT(20), Zenon

-----------------------------------------------------------------------------
(* The arrival of a packet, with its acknowledgements and its message.     *)

(* HandleInbound keeps the invariant for sound and for stray packets. *)
LEMMA InboundDelivery ==
  ASSUME TInv, TInv', DeliveryInv, NEW e \in Ends, NEW pkt \in Packet,
         HandleInbound(e, pkt),
         Sound(Peer(e), pkt) \/ pkt = StrayPacket,
         \A x \in Ends : net'[x] \subseteq net[x]
  PROVE  DeliveryInv'
<1>1. CASE UNCHANGED layerVars
  <2>1. \A x \in Ends : writer'[x].pc # "idle" => nextTxPID[x] > 0
    BY <1>1 DEF layerVars, DeliveryInv, SenderInv
  <2> QED BY <1>1, <2>1, QuietStep DEF layerVars
<1>2. CASE ~Rejected(e, pkt) /\ ~UNCHANGED layerVars
  <2>1. /\ remote' = [remote EXCEPT ![e] = pkt.sid]
        /\ txQueue' = [txQueue EXCEPT ![e] = HandleAcks(@, pkt.acks)]
        /\ WakeWriter(e, Broadcasts(e, pkt))
        /\ IF pkt.op = "ACK"
           THEN UNCHANGED <<nextRxPID, rxBuffer, readBuf, stream, reader,
                            pendingAcks, ackTimer>>
           ELSE HandleMessage(e, pkt)
        /\ UNCHANGED <<nextTxPID, readClosed, closed, outbound, ticking, written>>
    BY <1>2 DEF HandleInbound
  <2>2. /\ pkt.acks \in Seq(PID) /\ pkt.pid \in Nat
        /\ remote \in [Ends -> Ends \cup {NoSid, StraySid}]
        /\ DOMAIN txQueue = Ends
        /\ \A x \in Ends : /\ txQueue[x] \in [DOMAIN txQueue[x] -> Pending]
                           /\ DOMAIN txQueue[x] \subseteq Nat
        /\ nextTxPID \in [Ends -> Nat]
        /\ nextRxPID \in [Ends -> Nat] /\ nextRxPID' \in [Ends -> Nat]
        /\ \A x \in Ends : DOMAIN rxBuffer[x] \subseteq Nat
        /\ DOMAIN rxBuffer'[e] \subseteq Nat
        /\ \A p \in DOMAIN rxBuffer'[e] : nextRxPID'[e] < p
    BY Zenon DEF Packet, TInv, TypeOK, PID
  <2>3. /\ SenderInv(e) /\ ReceiverInv(e) /\ InFlightInv(e)
        /\ Peer(e) \in Ends /\ Peer(e) # e /\ Peer(Peer(e)) = e
        /\ SenderInv(Peer(e)) /\ ReceiverInv(Peer(e)) /\ InFlightInv(Peer(e))
    BY PeerFacts DEF DeliveryInv
  <2>4. pkt = StrayPacket =>
          /\ pkt.op = "RESET" /\ pkt.sid = StraySid /\ pkt.pid = 0
          /\ pkt.body = 0 /\ pkt.acks = << >>
    BY DEF StrayPacket, Empty
  <2>5. pkt.op # "ACK" => pkt.body = pkt.pid
    BY <2>4 DEF Sound
  <2>6. IF pkt.op = "ACK"
        THEN UNCHANGED <<nextRxPID, rxBuffer, readBuf, stream, pendingAcks>>
        ELSE Absorbed(e, pkt.pid)
    BY <2>1, <2>5, HandleMessageDelivery
  <2>7. /\ \A p \in Nat : Received(e, p) => Received(e, p)'
        /\ \A p \in Nat : Received(e, p)' =>
             Received(e, p) \/ (pkt.op # "ACK" /\ p = pkt.pid)
    BY <2>6, Zenon DEF Absorbed, Received
  <2>8. \A x \in Ends : x # e => /\ nextRxPID'[x] = nextRxPID[x]
                                 /\ rxBuffer'[x] = rxBuffer[x]
                                 /\ stream'[x] = stream[x]
                                 /\ readBuf'[x] = readBuf[x]
                                 /\ pendingAcks'[x] = pendingAcks[x]
    BY <2>6, Zenon DEF Absorbed
  <2>9. \A x \in Ends : \A p \in Nat : Received(x, p) => Received(x, p)'
    BY <2>7, <2>8 DEF Received
  <2>10. \A x \in Ends : writer'[x].pc # "idle" => nextTxPID[x] > 0
    <3>1. Broadcasts(e, pkt) \subseteq {"remote", "queue"}
      BY DEF Broadcasts
    <3> QED BY <2>1, <3>1, WakeDelivery
  <2>11. \A x \in Ends : InFlightInv(x)'
    <3> TAKE x \in Ends
    <3>1. \A q \in net'[Peer(x)] : q \in net[Peer(x)]
      BY PeerFacts
    <3>2. InFlightInv(x) /\ outbound' = outbound /\ nextTxPID' = nextTxPID
      BY <2>1 DEF DeliveryInv
    <3>3. nextTxPID'[x] \in Nat /\ nextTxPID[x] <= nextTxPID'[x]
      BY <2>2, <3>2
    <3> QED BY <2>9, <3>1, <3>2, <3>3, InFlightFrame
  <2>12. SenderInv(Peer(e))'
    <3>1. txQueue'[Peer(e)] = txQueue[Peer(e)]
      BY <2>1, <2>2, <2>3
    <3> QED BY <2>1, <2>2, <2>3, <2>9, <2>10, <3>1, SenderFrame
  <2>13. ReceiverInv(Peer(e))'
    <3>1. remote'[Peer(e)] = remote[Peer(e)]
      BY <2>1, <2>2, <2>3
    <3>2. \A i \in DOMAIN pendingAcks'[Peer(e)] :
            Received(Peer(e), pendingAcks'[Peer(e)][i])
      BY <2>3, <2>8 DEF ReceiverInv
    <3>3. /\ nextTxPID'[e] = nextTxPID[e] /\ nextTxPID[e] \in Nat
          /\ nextTxPID[e] <= nextTxPID'[e] /\ nextRxPID[Peer(e)] \in Nat
      BY <2>1, <2>2, <2>3
    <3> QED BY <2>2, <2>3, <2>8, <3>1, <3>2, <3>3, ReceiverFrame, Zenon
  <2>14. SenderInv(e)'
    <3>1. /\ DOMAIN txQueue'[e] = DOMAIN txQueue[e] \ Range(pkt.acks)
          /\ \A p \in DOMAIN txQueue'[e] : txQueue'[e][p].body = txQueue[e][p].body
      <4>1. txQueue'[e] = HandleAcks(txQueue[e], pkt.acks)
        BY <2>1, <2>2
      <4>2. txQueue[e] \in [DOMAIN txQueue[e] -> Pending]
        BY <2>2
      <4>3. /\ DOMAIN HandleAcks(txQueue[e], pkt.acks)
                 = DOMAIN txQueue[e] \ Range(pkt.acks)
            /\ \A p \in DOMAIN HandleAcks(txQueue[e], pkt.acks) :
                 HandleAcks(txQueue[e], pkt.acks)[p].body = txQueue[e][p].body
        BY <2>2, <4>2, HandleAcksFacts, Zenon
      <4> QED BY <4>1, <4>3
    <3>2. \A i \in DOMAIN pkt.acks : Received(Peer(e), pkt.acks[i])
      BY <2>4 DEF Sound
    <3>3. \A p \in 0 .. nextTxPID[e] - 1 :
            p \in DOMAIN txQueue'[e] \/ Received(Peer(e), p)
      BY <2>3, <3>1, <3>2 DEF SenderInv, Range
    <3>4. \A p \in 0 .. nextTxPID'[e] - 1 :
            p \in DOMAIN txQueue'[e] \/ Received(Peer(e), p)'
      BY <2>1, <2>2, <2>3, <2>9, <3>3
    <3>5. \A p \in DOMAIN txQueue'[e] : p < nextTxPID'[e] /\ txQueue'[e][p].body = p
      BY <2>1, <2>3, <3>1 DEF SenderInv
    <3>6. written'[e] = Chunks(nextTxPID'[e])
      BY <2>1, <2>3 DEF SenderInv
    <3> QED BY <2>1, <2>10, <3>4, <3>5, <3>6 DEF SenderInv
  <2>15. remote[e] \in {NoSid, pkt.sid} /\ remote'[e] = pkt.sid
    BY <1>2, <2>1, <2>2 DEF Rejected
  <2>16. /\ (\A i \in DOMAIN pendingAcks[e] : Received(e, pendingAcks[e][i]))'
         /\ \A p \in DOMAIN rxBuffer'[e] : rxBuffer'[e][p] = p
         /\ Len(stream'[e]) = Chunks(nextRxPID'[e])
         /\ \A i \in 1 .. Len(stream'[e]) : stream'[e][i] = i
         /\ Len(readBuf'[e]) <= Len(stream'[e])
         /\ \A i \in 1 .. Len(readBuf'[e]) :
              readBuf'[e][i] = Len(stream'[e]) - Len(readBuf'[e]) + i
    <3>1. CASE pkt.op = "ACK"
      BY <2>3, <2>6, <3>1, Zenon DEF ReceiverInv, Received
    <3>2. CASE pkt.op # "ACK"
      BY <2>6, <3>2, Zenon DEF Absorbed
    <3> QED BY <3>1, <3>2, Zenon
  <2>17. CASE Sound(Peer(e), pkt)
    <3>1. pkt.sid = Peer(e) /\ pkt.sid \in Ends
      BY <2>3, <2>17 DEF Sound
    <3>2. remote[e] # StraySid /\ remote'[e] = Peer(e)
      BY <2>15, <3>1, SidFacts
    <3>3. \A p \in Nat : Received(e, p)' => p < nextTxPID[Peer(e)]
      <4> SUFFICES ASSUME NEW p \in Nat, Received(e, p)'
                   PROVE  p < nextTxPID[Peer(e)]
        OBVIOUS
      <4>1. CASE Received(e, p)
        BY <2>2, <2>3, <3>2, <4>1 DEF Received, ReceiverInv
      <4>2. CASE pkt.op # "ACK" /\ p = pkt.pid
        BY <2>17, <4>2 DEF Sound
      <4> QED BY <2>7, <4>1, <4>2
    <3>4. nextRxPID'[e] <= nextTxPID'[Peer(e)]
      <4>1. CASE nextRxPID'[e] = 0
        BY <2>1, <2>2, <2>3, <4>1
      <4>2. CASE nextRxPID'[e] # 0
        <5>1. nextRxPID'[e] - 1 \in Nat /\ nextRxPID'[e] - 1 < nextRxPID'[e]
          BY <2>2, <4>2
        <5>2. PICK p \in Nat : p = nextRxPID'[e] - 1
          BY <5>1
        <5>3. p < nextTxPID[Peer(e)]
          BY <3>3, <5>1, <5>2 DEF Received
        <5> QED BY <2>1, <2>2, <2>3, <5>2, <5>3
      <4> QED BY <4>1, <4>2
    <3>5. \A p \in DOMAIN rxBuffer'[e] : p < nextTxPID'[Peer(e)]
      BY <2>1, <2>2, <3>3 DEF Received
    <3>6. ReceiverInv(e)'
      BY <2>16, <3>2, <3>4, <3>5, PeerFacts, SidFacts DEF ReceiverInv
    <3> QED BY <2>3, <2>11, <2>12, <2>13, <2>14, <3>6, SidFacts DEF DeliveryInv
  <2>18. CASE pkt = StrayPacket
    <3>1. /\ remote'[e] = StraySid /\ StraySid # NoSid /\ StraySid # Peer(e)
          /\ remote[e] # Peer(e) /\ pkt.pid = 0
      BY <2>3, <2>4, <2>15, <2>18, SidFacts
    <3>2. nextRxPID[e] <= 1 /\ DOMAIN rxBuffer[e] = {}
      BY <2>3, <3>1 DEF ReceiverInv
    <3>3. \A p \in Nat : Received(e, p)' => p = 0
      BY <2>2, <2>7, <3>1, <3>2 DEF Received
    <3>4. nextRxPID'[e] <= 1
      <4>1. CASE nextRxPID'[e] <= 1
        BY <4>1
      <4>2. CASE ~(nextRxPID'[e] <= 1)
        <5>1. Received(e, 1)'
          BY <2>2, <4>2 DEF Received
        <5> QED BY <3>3, <5>1
      <4> QED BY <4>1, <4>2
    <3>5. DOMAIN rxBuffer'[e] = {}
      <4>1. ASSUME NEW p \in DOMAIN rxBuffer'[e] PROVE FALSE
        <5>1. p \in Nat /\ nextRxPID'[e] < p
          BY <2>2
        <5>2. p = 0
          BY <3>3, <5>1 DEF Received
        <5> QED BY <2>2, <5>1, <5>2
      <4> QED BY <4>1
    <3>6. ReceiverInv(e)'
      BY <2>16, <3>1, <3>4, <3>5 DEF ReceiverInv
    <3> QED BY <2>3, <2>11, <2>12, <2>13, <2>14, <3>6, SidFacts DEF DeliveryInv
  <2> QED BY <2>17, <2>18
<1> QED BY <1>1, <1>2 DEF HandleInbound


(* So does the arrival of a packet of the peer ... *)
LEMMA DeliverDelivery ==
  ASSUME TInv, DeliveryInv, NEW e \in Ends, NEW pkt \in net[e], NEW dup,
         Deliver(e, pkt, dup)
  PROVE  DeliveryInv'
<1>1. net \in [Ends -> SUBSET Packet] /\ pkt \in Packet
  BY DEF TInv, TypeOK
<1>2. TInv'
  BY DeliverType
<1>3. Sound(Peer(e), pkt)
  BY PeerFacts DEF DeliveryInv, InFlightInv
<1>4. \A x \in Ends : net'[x] \subseteq net[x]
  BY <1>1 DEF Deliver
<1> QED BY <1>1, <1>2, <1>3, <1>4, InboundDelivery DEF Deliver

(* ... and that of a stray one. *)
LEMMA StrayDelivery ==
  ASSUME TInv, DeliveryInv, NEW e \in Ends, Stray(e)
  PROVE  DeliveryInv'
<1>1. TInv'
  BY StrayType
<1>2. \A x \in Ends : net'[x] \subseteq net[x]
  BY DEF Stray
<1> QED BY <1>1, <1>2, StrayPacketType, InboundDelivery DEF Stray

-----------------------------------------------------------------------------
(* The invariant, and the theorems that rest on it.                        *)

(* New layers satisfy the delivery invariant. *)
LEMMA InitDelivery == Init => DeliveryInv
<1> SUFFICES ASSUME Init, NEW e \in Ends
             PROVE  SenderInv(e) /\ ReceiverInv(e) /\ InFlightInv(e)
  BY DEF DeliveryInv
<1>1. Peer(e) \in Ends
  BY PeerFacts
<1>2. SenderInv(e)
  BY DEF Init, SenderInv, Chunks
<1>3. ReceiverInv(e)
  BY <1>1 DEF Init, ReceiverInv, Chunks
<1>4. InFlightInv(e)
  BY <1>1 DEF Init, InFlightInv
<1> QED BY <1>2, <1>3, <1>4

(* Every step keeps the delivery invariant. *)
LEMMA DeliveryStep == TInv /\ DeliveryInv /\ [Next]_vars => DeliveryInv'
<1> SUFFICES ASSUME TInv, DeliveryInv, [Next]_vars PROVE DeliveryInv'
  OBVIOUS
<1>1. CASE UNCHANGED vars
  <2>1. \A x \in Ends : writer'[x].pc # "idle" => nextTxPID[x] > 0
    BY <1>1 DEF vars, layerVars, DeliveryInv, SenderInv
  <2> QED BY <1>1, <2>1, QuietStep DEF vars, layerVars
<1>2. ASSUME NEW e \in Ends,
             \/ SendHardReset(e)
             \/ \E n \in 1..MaxPackets[e] : Write(e, n)
             \/ WriteResumed(e)
             \/ WriteNext(e)
             \/ Read(e)
             \/ CloseRead(e)
             \/ Close(e)
             \/ \E pkt \in net[e], dup \in BOOLEAN : Deliver(e, pkt, dup)
             \/ Stray(e)
             \/ TickAny(e)
             \/ TickClosed(e)
             \/ \E lost \in BOOLEAN : Transmit(e, lost)
      PROVE  DeliveryInv'
  <2>1. CASE SendHardReset(e)
    BY <2>1, SendHardResetDelivery
  <2>2. CASE \E n \in 1..MaxPackets[e] : Write(e, n)
    BY <2>2, WriteFromDelivery, ConstantsAssumption DEF Write
  <2>3. CASE WriteResumed(e) \/ WriteNext(e)
    <3>1. writer[e].left \in Nat /\ nextTxPID[e] > 0
      BY <2>3 DEF WriteResumed, WriteNext, TInv, TypeOK, DeliveryInv, SenderInv
    <3> QED BY <2>3, <3>1, WriteFromDelivery, WriteChunkDelivery
            DEF WriteResumed, WriteNext
  <2>4. CASE Read(e)
    BY <2>4, ReadDelivery
  <2>5. CASE CloseRead(e) \/ Close(e) \/ TickClosed(e)
    BY <2>5, CloseDelivery
  <2>6. CASE \E pkt \in net[e], dup \in BOOLEAN : Deliver(e, pkt, dup)
    BY <2>6, DeliverDelivery
  <2>7. CASE Stray(e)
    BY <2>7, StrayDelivery
  <2>8. CASE TickAny(e)
    BY <2>8, TickDelivery
  <2>9. CASE \E lost \in BOOLEAN : Transmit(e, lost)
    BY <2>9, TransmitDelivery
  <2> QED BY <1>2, <2>1, <2>2, <2>3, <2>4, <2>5, <2>6, <2>7, <2>8, <2>9
<1> QED BY <1>1, <1>2 DEF Next

(* Every packet-id stands for its chunk, and every ack in flight is true,  *)
(* for any number of packets, any window and any network.                  *)
THEOREM DeliveryInvariant == Spec => []DeliveryInv
BY TypeInvariant, InitDelivery, DeliveryStep, PTL DEF Spec

(* No packet leaves txQueue before the peer has delivered or buffered it:  *)
(* an acknowledgement is never premature, however long it was delayed.     *)
THEOREM NoPrematureAck == Spec => []AckedMeansReceived
<1>1. DeliveryInv => AckedMeansReceived
  BY DEF DeliveryInv, SenderInv, AckedMeansReceived
<1> QED BY DeliveryInvariant, <1>1, PTL


-----------------------------------------------------------------------------
(* The stream TLS sees. *)

(* The invariant makes the stream the chunks 1, 2, 3 ... of the peer. *)
LEMMA DeliveredInOrder == TInv /\ DeliveryInv => InOrderDelivery
<1> SUFFICES ASSUME TInv, DeliveryInv, NEW e \in Ends
             PROVE  /\ stream[e] = [i \in 1..Len(stream[e]) |-> i]
                    /\ Len(stream[e]) <= written[Peer(e)]
                    /\ Len(readBuf[e]) <= Len(stream[e])
                    /\ readBuf[e] = SubSeq(stream[e],
                                          Len(stream[e]) - Len(readBuf[e]) + 1,
                                          Len(stream[e]))
  BY Zenon DEF InOrderDelivery
<1>1. /\ stream[e] \in Seq(Nat) /\ readBuf[e] \in Seq(Nat)
      /\ nextRxPID[e] \in Nat /\ nextTxPID[Peer(e)] \in Nat
      /\ Peer(e) \in Ends
  BY PeerFacts DEF TInv, TypeOK, Body
<1>2. ReceiverInv(e) /\ SenderInv(Peer(e))
  BY <1>1 DEF DeliveryInv
<1>3. stream[e] = [i \in 1..Len(stream[e]) |-> i]
  <2> DEFINE n == Len(stream[e])
             r == [i \in 1..n |-> i]
  <2>1. n \in Nat /\ \A i \in 1..n : stream[e][i] = i
    BY <1>1, <1>2 DEF ReceiverInv
  <2>2. stream[e] \in [1..n -> Nat]
    BY <1>1
  <2> HIDE DEF n
  <2>3. \A i \in 1..n : stream[e][i] = r[i]
    BY <2>1
  <2> QED BY <2>2, <2>3, Zenon DEF n
<1>4. Len(stream[e]) <= written[Peer(e)]
  BY <1>1, <1>2, SidFacts DEF ReceiverInv, SenderInv, Chunks
<1>5. /\ Len(readBuf[e]) <= Len(stream[e])
      /\ readBuf[e] = SubSeq(stream[e], Len(stream[e]) - Len(readBuf[e]) + 1,
                             Len(stream[e]))
  <2> DEFINE m == Len(readBuf[e])
             n == Len(stream[e])
             t == SubSeq(stream[e], n - m + 1, n)
  <2>1. /\ m \in Nat /\ n \in Nat /\ m <= n
        /\ \A i \in 1..n : stream[e][i] = i
        /\ \A i \in 1..m : readBuf[e][i] = n - m + i
    BY <1>1, <1>2 DEF ReceiverInv
  <2> HIDE DEF m, n
  <2>2. \A i \in n - m + 1 .. n : stream[e][i] \in Nat
    BY <2>1
  <2>3. t \in Seq(Nat) /\ Len(t) = m
        /\ \A i \in 1 .. m : t[i] = stream[e][n - m + i]
    <3>1. /\ t \in Seq(Nat) /\ Len(t) = IF n - m + 1 <= n THEN n - (n - m + 1) + 1 ELSE 0
          /\ \A i \in 1 .. n - (n - m + 1) + 1 : t[i] = stream[e][(n - m + 1) + i - 1]
      BY <2>1, <2>2
    <3> HIDE DEF t
    <3>2. /\ n - (n - m + 1) + 1 = m
          /\ n - m + 1 <= n <=> m # 0
          /\ \A i \in 1 .. m : (n - m + 1) + i - 1 = n - m + i
      BY <2>1
    <3>3. Len(t) = m
      BY <2>1, <3>1, <3>2
    <3>4. \A i \in 1 .. m : t[i] = stream[e][n - m + i]
      <4> TAKE i \in 1 .. m
      <4>1. t[i] = stream[e][(n - m + 1) + i - 1]
        BY <3>1, <3>2
      <4> QED BY <3>2, <4>1
    <3> QED BY <3>1, <3>3, <3>4
  <2> HIDE DEF t
  <2>4. \A i \in 1 .. m : n - m + i \in 1..n
    BY <2>1
  <2>5. \A i \in 1 .. m : readBuf[e][i] = t[i]
    BY <2>1, <2>3, <2>4, Zenon
  <2>6. m = Len(readBuf[e])
    BY DEF m
  <2>7. readBuf[e] = t
    BY <1>1, <2>3, <2>5, <2>6, SameSequence, Zenon
  <2> QED BY <2>1, <2>7, Zenon DEF m, n, t
<1> QED BY <1>3, <1>4, <1>5, Zenon

(* TLS at either end reads the peer's chunks once each and in order,       *)
(* whatever the network loses, repeats or reorders, however many there are *)
(* and whatever the window and queue sizes.                                *)
THEOREM InOrder == Spec => []InOrderDelivery
BY TypeInvariant, DeliveryInvariant, DeliveredInOrder, PTL


(* Each step of the layers is a step of the pair of streams, or invisible  *)
(* there.                                                                  *)
LEMMA StreamUnchanged ==
  ASSUME UNCHANGED <<written, stream, readBuf>>
  PROVE  [Stream!Next]_(Stream!vars)
BY DEF Stream!vars

(* A round of Write's loop is a Send of the stream or nothing. *)
LEMMA WriteChunkStream ==
  ASSUME NEW e \in Ends, NEW left, WriteChunk(e, left)
  PROVE  [Stream!Next]_(Stream!vars)
<1>1. CASE UNCHANGED unchangedByPark
  BY <1>1, StreamUnchanged DEF unchangedByPark
<1>2. CASE SendChunk(e, left)
  BY <1>2, Zenon DEF SendChunk, Stream!Next, Stream!Send
<1> QED BY <1>1, <1>2 DEF WriteChunk

(* So is Write from its start or after it was woken. *)
LEMMA WriteFromStream ==
  ASSUME NEW e \in Ends, NEW left, WriteFrom(e, left)
  PROVE  [Stream!Next]_(Stream!vars)
<1>1. CASE UNCHANGED unchangedByPark
  BY <1>1, StreamUnchanged DEF unchangedByPark
<1>2. CASE WriteChunk(e, left)
  BY <1>2, WriteChunkStream
<1> QED BY <1>1, <1>2 DEF WriteFrom

(* Read consumes. *)
LEMMA ReadStream ==
  ASSUME NEW e \in Ends, Read(e)
  PROVE  [Stream!Next]_(Stream!vars)
<1>1. CASE UNCHANGED readBuf
  BY <1>1, StreamUnchanged DEF Read
<1>2. CASE \E n \in 1..Len(readBuf[e]) :
             readBuf' = [readBuf EXCEPT ![e] = SubSeq(@, n + 1, Len(@))]
  BY <1>2, Zenon DEF Read, Stream!Next, Stream!Consume
<1> QED BY <1>1, <1>2 DEF Read

(* HandleInbound is an arrival or nothing. *)
LEMMA InboundStream ==
  ASSUME TInv, DeliveryInv, DeliveryInv', TInv', NEW e \in Ends,
         NEW pkt \in Packet, HandleInbound(e, pkt),
         pkt.op # "ACK" => pkt.body = pkt.pid
  PROVE  [Stream!Next]_(Stream!vars)
<1>1. CASE UNCHANGED <<written, stream, readBuf>>
  BY <1>1, StreamUnchanged
<1>2. CASE ~UNCHANGED <<written, stream, readBuf>>
  <2>1. /\ written' = written /\ pkt.op # "ACK" /\ HandleMessage(e, pkt)
    BY <1>2 DEF HandleInbound, layerVars
  <2>2. pkt.pid = nextRxPID[e] /\ DeliverInOrder(e, pkt)
    BY <1>2, <2>1 DEF HandleMessage, BufferFuture, DropBeyond
  <2> DEFINE run == Run(e, pkt)
             n == Len(run)
             ls == Len(stream[e])
             new == [i \in 1..n |-> ls + i]
  <2>3. /\ run \in Seq(Body)
        /\ \A j \in 1..n : run[j] = ls + j
    BY <2>1, <2>2, RunFacts
  <2>4. /\ stream' = [stream EXCEPT ![e] = @ \o run]
        /\ readBuf' = [readBuf EXCEPT ![e] = @ \o run]
    BY <2>2 DEF DeliverInOrder
  <2>5. /\ stream \in [Ends -> Seq(Body)] /\ readBuf \in [Ends -> Seq(Body)]
        /\ stream'[e] = stream[e] \o run
        /\ written[Peer(e)] \in Nat
    BY <2>4, PeerFacts, Zenon DEF TInv, TypeOK
  <2> HIDE DEF run
  <2>6. n \in Nat /\ ls \in Nat /\ Len(stream'[e]) = ls + n
    BY <2>3, <2>5
  <2>7. run = new
    <3>1. run \in [1..n -> Body]
      BY <2>3
    <3> HIDE DEF n, ls
    <3>2. \A j \in 1..n : run[j] = new[j]
      BY <2>3
    <3> QED BY <3>1, <3>2
  <2>8. n # 0
    <3>1. CASE n = 0
      <4>1. run = << >>
        BY <2>3, <3>1
      <4>2. stream[e] \o run = stream[e] /\ readBuf[e] \o run = readBuf[e]
        BY <2>5, <4>1
      <4>3. stream' = stream /\ readBuf' = readBuf
        BY <2>4, <2>5, <4>2
      <4> QED BY <1>2, <2>1, <4>3
    <3> QED BY <3>1
  <2>9. ls + n <= written[Peer(e)]
    <3>1. InOrderDelivery'
      <4>1. (TInv /\ DeliveryInv)' => InOrderDelivery'
        BY DeliveredInOrder, PTL
      <4> QED BY <4>1
    <3>2. Len(stream'[e]) <= written'[Peer(e)]
      BY <3>1, Zenon DEF InOrderDelivery
    <3> QED BY <2>1, <2>6, <3>2
  <2> HIDE DEF n, ls
  <2>10. n \in 1 .. written[Peer(e)] - ls
    BY <2>5, <2>6, <2>8, <2>9
  <2>11. /\ stream' = [stream EXCEPT ![e] = @ \o new]
         /\ readBuf' = [readBuf EXCEPT ![e] = @ \o new]
    BY <2>4, <2>7
  <2>12. Stream!Arrive(e)
    BY <2>1, <2>10, <2>11, Zenon DEF Stream!Arrive, ls
  <2> QED BY <2>12 DEF Stream!Next
<1> QED BY <1>1, <1>2


(* Every step of the layers is a step of the stream or leaves it alone. *)
LEMMA StreamStep ==
  TInv /\ DeliveryInv /\ TInv' /\ DeliveryInv' /\ [Next]_vars
    => [Stream!Next]_(Stream!vars)
<1> SUFFICES ASSUME TInv, DeliveryInv, TInv', DeliveryInv', [Next]_vars
             PROVE  [Stream!Next]_(Stream!vars)
  OBVIOUS
<1>1. CASE UNCHANGED vars
  BY <1>1, StreamUnchanged DEF vars, layerVars
<1>2. ASSUME NEW e \in Ends,
             \/ SendHardReset(e)
             \/ \E n \in 1..MaxPackets[e] : Write(e, n)
             \/ WriteResumed(e)
             \/ WriteNext(e)
             \/ Read(e)
             \/ CloseRead(e)
             \/ Close(e)
             \/ \E pkt \in net[e], dup \in BOOLEAN : Deliver(e, pkt, dup)
             \/ Stray(e)
             \/ TickAny(e)
             \/ TickClosed(e)
             \/ \E lost \in BOOLEAN : Transmit(e, lost)
      PROVE  [Stream!Next]_(Stream!vars)
  <2>1. CASE \/ SendHardReset(e) \/ CloseRead(e) \/ Close(e) \/ TickClosed(e)
             \/ \E lost \in BOOLEAN : Transmit(e, lost)
    BY <2>1, StreamUnchanged DEF SendHardReset, CloseRead, Close, TickClosed, Transmit
  <2>2. CASE TickAny(e)
    BY <2>2, StreamUnchanged DEF TickAny, Tick
  <2>3. CASE \E n \in 1..MaxPackets[e] : Write(e, n)
    BY <2>3, WriteFromStream DEF Write
  <2>4. CASE WriteResumed(e) \/ WriteNext(e)
    BY <2>4, WriteFromStream, WriteChunkStream DEF WriteResumed, WriteNext
  <2>5. CASE Read(e)
    BY <2>5, ReadStream
  <2>6. CASE \E pkt \in net[e], dup \in BOOLEAN : Deliver(e, pkt, dup)
    <3>1. PICK pkt \in net[e] : HandleInbound(e, pkt)
      BY <2>6 DEF Deliver
    <3>2. pkt \in Packet
      BY Zenon DEF TInv, TypeOK
    <3>3. pkt.op # "ACK" => pkt.body = pkt.pid
      <4>1. Peer(e) \in Ends /\ Peer(Peer(e)) = e
        BY PeerFacts
      <4>2. InFlightInv(Peer(e))
        BY <4>1, Zenon DEF DeliveryInv
      <4>3. Sound(Peer(e), pkt)
        BY <4>1, <4>2, Zenon DEF InFlightInv
      <4> QED BY <4>3, Zenon DEF Sound
    <3> QED BY <3>1, <3>2, <3>3, InboundStream
  <2>7. CASE Stray(e)
    <3>1. StrayPacket.body = StrayPacket.pid
      BY DEF StrayPacket, Empty
    <3> QED BY <2>7, <3>1, StrayPacketType, InboundStream DEF Stray
  <2> QED BY <1>2, <2>1, <2>2, <2>3, <2>4, <2>5, <2>6, <2>7
<1> QED BY <1>1, <1>2 DEF Next

(* New layers are empty streams. *)
LEMMA StreamInit == Init => Stream!Init
BY DEF Init, Stream!Init

(* The two layers and any network between them implement a pair of         *)
(* streams: the safety half of what TLS needs from its transport.          *)
THEOREM Implements == Spec => ImplementsStream
BY TypeInvariant, DeliveryInvariant, StreamInit, StreamStep, PTL
   DEF Spec, ImplementsStream, Stream!Spec

-----------------------------------------------------------------------------
(* The closed channel, and the two condition variables.                    *)

(* Nothing happens to the channel of the other end. *)
OnlyAt(e) == \A x \in Ends : x # e => outbound'[x] = outbound[x]

(* Emission at one end leaves the other end's channel alone. *)
LEMMA OthersChannel ==
  ASSUME TInv, NEW e \in Ends, NEW st, Emit(e, st)
  PROVE  OnlyAt(e)
BY DEF TInv, TypeOK, Emit, OnlyAt

(* A Write that finds the layer closed sends nothing. *)
LEMMA WriteClosed ==
  ASSUME TInv, NEW e \in Ends, NEW left, WriteFrom(e, left) \/ WriteChunk(e, left)
  PROVE  \/ UNCHANGED outbound
         \/ ~closed[e] /\ OnlyAt(e)
<1>1. CASE UNCHANGED unchangedByPark
  BY <1>1 DEF unchangedByPark
<1>2. CASE ~closed[e] /\ SendChunk(e, left)
  BY <1>2, OthersChannel DEF SendChunk, enqueueAndEmitLocked
<1> QED BY <1>1, <1>2 DEF WriteFrom, WriteChunk

(* Only an open layer adds to its channel; the writeLoop takes from it. *)
LEMMA ChannelStep ==
  ASSUME TInv, [Next]_vars
  PROVE  \/ UNCHANGED outbound
         \/ \E e \in Ends : ~closed[e] /\ OnlyAt(e)
         \/ \E e \in Ends : /\ outbound[e] # << >>
                            /\ outbound' = [outbound EXCEPT ![e] = Tail(@)]
<1>1. CASE UNCHANGED vars
  BY <1>1 DEF vars, layerVars
<1>2. ASSUME NEW e \in Ends, SendHardReset(e) \/ TickAny(e)
      PROVE  ~closed[e] /\ OnlyAt(e)
  <2>1. CASE SendHardReset(e)
    BY <2>1, OthersChannel DEF SendHardReset, enqueueAndEmitLocked
  <2>2. CASE TickAny(e)
    BY <2>2, OthersChannel DEF TickAny, Tick
  <2> QED BY <1>2, <2>1, <2>2
<1>3. ASSUME NEW e \in Ends,
             \/ \E n \in 1..MaxPackets[e] : Write(e, n)
             \/ WriteResumed(e) \/ WriteNext(e)
      PROVE  \/ UNCHANGED outbound
             \/ ~closed[e] /\ OnlyAt(e)
  BY <1>3, WriteClosed, Zenon DEF Write, WriteResumed, WriteNext
<1>4. ASSUME NEW e \in Ends, Read(e) \/ CloseRead(e) \/ Close(e) \/ TickClosed(e)
      PROVE  UNCHANGED outbound
  BY <1>4 DEF Read, CloseRead, Close, TickClosed
<1>5. ASSUME NEW e \in Ends,
             (\E pkt \in net[e], dup \in BOOLEAN : Deliver(e, pkt, dup)) \/ Stray(e)
      PROVE  UNCHANGED outbound
  <2>1. PICK pkt : HandleInbound(e, pkt)
    BY <1>5 DEF Deliver, Stray
  <2> QED BY <2>1 DEF HandleInbound, layerVars
<1>6. ASSUME NEW e \in Ends, NEW lost \in BOOLEAN, Transmit(e, lost)
      PROVE  outbound[e] # << >> /\ outbound' = [outbound EXCEPT ![e] = Tail(@)]
  BY <1>6 DEF Transmit
<1> QED BY <1>1, <1>2, <1>3, <1>4, <1>5, <1>6, Zenon DEF Next

(* Nothing is sent on the outbound channel after Close has closed it: the  *)
(* program does not panic there, whoever is parked in Write, and whenever  *)
(* Tick, SendHardReset and HandleInbound come (Close, emitLocked).         *)
THEOREM NeverSendsOnClosed == Spec => NoSendOnClosed
<1> DEFINE Shrinks == \A e \in Ends : closed[e] => Len(outbound'[e]) <= Len(outbound[e])
<1>1. TInv /\ [Next]_vars => Shrinks \/ UNCHANGED vars
  <2> SUFFICES ASSUME TInv, [Next]_vars, NEW x \in Ends, closed[x]
               PROVE  Len(outbound'[x]) <= Len(outbound[x])
    OBVIOUS
  <2>1. outbound \in [Ends -> Seq(Packet)] /\ outbound[x] \in Seq(Packet)
    BY DEF TInv, TypeOK
  <2>2. Len(outbound[x]) \in Nat
    BY <2>1, LenFacts
  <2>3. CASE outbound'[x] = outbound[x]
    BY <2>2, <2>3
  <2>4. CASE outbound[x] # << >> /\ outbound'[x] = Tail(outbound[x])
    <3>1. Len(Tail(outbound[x])) = Len(outbound[x]) - 1
      BY <2>1, <2>4
    <3> QED BY <2>2, <2>4, <3>1
  <2> QED BY <2>1, <2>3, <2>4, ChannelStep DEF OnlyAt
<1> QED BY <1>1, TypeInvariant, PTL DEF Spec, NoSendOnClosed

(* NoLostWakeup is inductive once the queue keeps to its size: a Write     *)
(* parks when the queue is not below MaxQueueSize, and the property says   *)
(* that it is exactly full.                                                *)
Parked(e) ==
  /\ writer[e].pc = "remote" => remote[e] = NoSid /\ ~closed[e] /\ ~readClosed[e]
  /\ writer[e].pc = "queue" => QueueFull(e) /\ ~closed[e]
  /\ reader[e] = "parked" => readBuf[e] = << >> /\ ~closed[e] /\ ~readClosed[e]
  /\ Cardinality(DOMAIN txQueue[e]) <= MaxQueueSize

WaitInv == \A e \in Ends : Parked(e)

(* An end whose state Parked reads stays as it is keeps it. *)
LEMMA ParkedFrame ==
  ASSUME WaitInv, NEW x \in Ends,
         writer'[x] = writer[x], reader'[x] = reader[x], remote'[x] = remote[x],
         closed'[x] = closed[x], readClosed'[x] = readClosed[x],
         readBuf'[x] = readBuf[x], DOMAIN txQueue'[x] = DOMAIN txQueue[x]
  PROVE  Parked(x)'
BY DEF WaitInv, Parked, QueueFull

(* What an action of one end writes it writes at that end. *)
LEMMA OtherEndWaits ==
  ASSUME WaitInv, NEW e \in Ends,
         \A x \in Ends : x # e =>
           /\ writer'[x] = writer[x] /\ reader'[x] = reader[x]
           /\ remote'[x] = remote[x] /\ closed'[x] = closed[x]
           /\ readClosed'[x] = readClosed[x] /\ readBuf'[x] = readBuf[x]
           /\ txQueue'[x] = txQueue[x],
         Parked(e)'
  PROVE  WaitInv'
<1> SUFFICES ASSUME NEW x \in Ends PROVE Parked(x)'
  BY DEF WaitInv
<1>1. CASE x = e
  BY <1>1
<1>2. CASE x # e
  BY <1>2, ParkedFrame
<1> QED BY <1>1, <1>2

(* A packet put into a queue that is not full fits. *)
LEMMA EnqueueFits ==
  ASSUME TInv, NEW e \in Ends, NEW op, NEW body, ~QueueFull(e),
         enqueueAndEmitLocked(e, op, body)
  PROVE  /\ Cardinality(DOMAIN txQueue'[e]) <= MaxQueueSize
         /\ \A x \in Ends : x # e => txQueue'[x] = txQueue[x]
<1> DEFINE new == [op |-> op, body |-> body, attempts |-> 1, higherACKs |-> 0]
           S == DOMAIN txQueue[e]
<1>1. DOMAIN txQueue = Ends /\ IsFiniteSet(S)
  BY Zenon DEF TInv, TypeOK
<1>2. txQueue' = [txQueue EXCEPT ![e] = Put(@, nextTxPID[e], new)]
  BY DEF enqueueAndEmitLocked
<1> HIDE DEF new
<1>3. DOMAIN txQueue'[e] = S \cup {nextTxPID[e]}
  BY <1>1, <1>2 DEF Put
<1>4. /\ Cardinality(S) \in Nat /\ MaxQueueSize \in Nat /\ Cardinality(S) < MaxQueueSize
  BY <1>1, FS_CardinalityType, ConstantsAssumption DEF QueueFull
<1> HIDE DEF S
<1>5. \/ Cardinality(S \cup {nextTxPID[e]}) = Cardinality(S)
      \/ Cardinality(S \cup {nextTxPID[e]}) = Cardinality(S) + 1
  BY <1>1, FS_AddElement
<1>6. Cardinality(S \cup {nextTxPID[e]}) <= MaxQueueSize
  BY <1>4, <1>5
<1> QED BY <1>1, <1>2, <1>3, <1>6
(* Write parks only when it has to wait, and sends only into a queue that  *)
(* has room.                                                               *)
LEMMA WriteWaits ==
  ASSUME TInv, WaitInv, NEW e \in Ends, NEW left,
         WriteFrom(e, left) \/ WriteChunk(e, left)
  PROVE  WaitInv'
<1>0. DOMAIN writer = Ends /\ Parked(e)
  BY Zenon DEF TInv, TypeOK, WaitInv
<1>1. ASSUME NEW pc, NEW l, WriterAt(e, pc, l)
      PROVE  writer'[e].pc = pc /\ \A x \in Ends : x # e => writer'[x] = writer[x]
  BY <1>0, <1>1 DEF WriterAt
<1>2. CASE UNCHANGED unchangedByPark
  <2>1. PICK pc, l :
          /\ WriterAt(e, pc, l)
          /\ \/ pc = "idle"
             \/ pc = "remote" /\ remote[e] = NoSid /\ ~closed[e] /\ ~readClosed[e]
             \/ pc = "queue" /\ QueueFull(e) /\ ~closed[e]
    <3>1. CASE WriteChunk(e, left) /\ ~SendChunk(e, left)
      BY <3>1 DEF WriteChunk
    <3>2. CASE SendChunk(e, left)
      <4>1. written'[e] = written[e] + 1 /\ written'[e] = written[e] /\ written[e] \in Nat
        BY <1>2, <3>2, Zenon DEF SendChunk, unchangedByPark, TInv, TypeOK
      <4> QED BY <4>1
    <3>3. CASE WriteFrom(e, left) /\ ~WriteChunk(e, left)
      BY <3>3, Zenon DEF WriteFrom
    <3> QED BY <3>1, <3>2, <3>3
  <2>2. writer'[e].pc = pc /\ \A x \in Ends : x # e => writer'[x] = writer[x]
    BY <1>1, <2>1
  <2>3. Parked(e)'
    BY <1>0, <1>2, <2>1, <2>2, Zenon DEF Parked, QueueFull, unchangedByPark
  <2> QED BY <1>2, <2>2, <2>3, OtherEndWaits DEF unchangedByPark
<1>3. CASE ~closed[e] /\ ~QueueFull(e) /\ SendChunk(e, left)
  <2>1. /\ writer'[e].pc \in {"idle", "run"}
        /\ \A x \in Ends : x # e => writer'[x] = writer[x]
    BY <1>1, <1>3 DEF SendChunk
  <2>2. /\ Cardinality(DOMAIN txQueue'[e]) <= MaxQueueSize
        /\ \A x \in Ends : x # e => txQueue'[x] = txQueue[x]
    BY <1>3, EnqueueFits DEF SendChunk
  <2>3. UNCHANGED <<remote, readBuf, readClosed, closed, reader>>
    BY <1>3 DEF SendChunk
  <2>4. Parked(e)'
    BY <1>0, <2>1, <2>2, <2>3, Zenon DEF Parked
  <2> QED BY <2>1, <2>2, <2>3, <2>4, OtherEndWaits, Zenon
<1> QED BY <1>2, <1>3 DEF WriteFrom, WriteChunk

(* The reset finds an empty queue and no Write. *)
LEMMA ResetWaits ==
  ASSUME TInv, DeliveryInv, WaitInv, NEW e \in Ends, SendHardReset(e)
  PROVE  WaitInv'
<1>1. writer[e].pc = "idle" /\ DOMAIN txQueue[e] = {} /\ Parked(e)
  <2>1. nextTxPID[e] = 0
    BY DEF SendHardReset
  <2>2. SenderInv(e) /\ Parked(e)
    BY DEF DeliveryInv, WaitInv
  <2>3. DOMAIN txQueue[e] \subseteq Nat
    BY Zenon DEF TInv, TypeOK, PID
  <2> QED BY <2>1, <2>2, <2>3 DEF SenderInv
<1>2. ~QueueFull(e)
  BY <1>1, FS_EmptySet, ConstantsAssumption DEF QueueFull
<1>3. /\ Cardinality(DOMAIN txQueue'[e]) <= MaxQueueSize
      /\ \A x \in Ends : x # e => txQueue'[x] = txQueue[x]
  BY <1>2, EnqueueFits DEF SendHardReset
<1>4. UNCHANGED <<remote, readBuf, readClosed, closed, writer, reader>>
  BY DEF SendHardReset
<1>5. Parked(e)'
  BY <1>1, <1>3, <1>4 DEF Parked
<1> QED BY <1>3, <1>4, <1>5, OtherEndWaits, Zenon

(* A broadcast leaves nobody parked on the conditions it is for. *)
LEMMA Broadcast ==
  ASSUME TInv, NEW e \in Ends, NEW conds, WakeWriter(e, conds)
  PROVE  /\ writer'[e].pc = IF writer[e].pc \in conds THEN "woken" ELSE writer[e].pc
         /\ \A x \in Ends : x # e => writer'[x] = writer[x]
BY DEF WakeWriter, TInv, TypeOK

(* The same of the reader. *)
LEMMA BroadcastReader ==
  ASSUME TInv, NEW e \in Ends, WakeReader(e)
  PROVE  /\ reader'[e] # "parked"
         /\ \A x \in Ends : x # e => reader'[x] = reader[x]
BY DEF WakeReader, TInv, TypeOK

(* Close and CloseRead wake whoever they would leave waiting. *)
LEMMA CloseWaits ==
  ASSUME TInv, WaitInv, NEW e \in Ends, CloseRead(e) \/ Close(e)
  PROVE  WaitInv'
<1>0. /\ Parked(e) /\ DOMAIN closed = Ends /\ DOMAIN readClosed = Ends
  BY Zenon DEF WaitInv, TInv, TypeOK
<1>1. /\ reader'[e] # "parked"
      /\ \A x \in Ends : x # e => reader'[x] = reader[x]
  BY BroadcastReader, Zenon DEF CloseRead, Close
<1>2. PICK conds : /\ WakeWriter(e, conds) /\ "remote" \in conds
                   /\ closed' = closed \/ "queue" \in conds
                   /\ \A x \in Ends : x # e => closed'[x] = closed[x]
                   /\ \A x \in Ends : x # e => readClosed'[x] = readClosed[x]
  BY <1>0 DEF CloseRead, Close
<1>3. /\ writer'[e].pc = IF writer[e].pc \in conds THEN "woken" ELSE writer[e].pc
      /\ \A x \in Ends : x # e => writer'[x] = writer[x]
  BY <1>2, Broadcast
<1>4. UNCHANGED <<remote, readBuf, txQueue>>
  BY DEF CloseRead, Close
<1>5. Parked(e)'
  BY <1>0, <1>1, <1>2, <1>3, <1>4, Zenon DEF Parked, QueueFull
<1> QED BY <1>1, <1>2, <1>3, <1>4, <1>5, OtherEndWaits, Zenon

(* Read parks on an empty buffer of an open layer. *)
LEMMA ReadWaits ==
  ASSUME TInv, WaitInv, NEW e \in Ends, Read(e)
  PROVE  WaitInv'
<1>0. /\ Parked(e) /\ DOMAIN reader = Ends /\ DOMAIN readBuf = Ends
  BY Zenon DEF WaitInv, TInv, TypeOK
<1>1. UNCHANGED <<remote, readClosed, closed, txQueue, writer>>
  BY Zenon DEF Read
<1>2. /\ reader'[e] = "parked" => readBuf'[e] = << >> /\ ~closed[e] /\ ~readClosed[e]
      /\ \A x \in Ends : x # e => reader'[x] = reader[x] /\ readBuf'[x] = readBuf[x]
  BY <1>0 DEF Read
<1>3. Parked(e)'
  BY <1>0, <1>1, <1>2, Zenon DEF Parked, QueueFull
<1> QED BY <1>1, <1>2, <1>3, OtherEndWaits, Zenon

(* Acks shrink the queue, and only if there are any. *)
LEMMA AcksShrink ==
  ASSUME TInv, WaitInv, NEW e \in Ends, NEW pkt \in Packet
  PROVE  /\ DOMAIN HandleAcks(txQueue[e], pkt.acks) \subseteq DOMAIN txQueue[e]
         /\ Cardinality(DOMAIN HandleAcks(txQueue[e], pkt.acks)) <= MaxQueueSize
         /\ pkt.acks = << >> =>
              DOMAIN HandleAcks(txQueue[e], pkt.acks) = DOMAIN txQueue[e]
<1> DEFINE S == DOMAIN txQueue[e]
           T == DOMAIN HandleAcks(txQueue[e], pkt.acks)
<1>1. IsFiniteSet(S) /\ Cardinality(S) <= MaxQueueSize
  BY DEF TInv, WaitInv, Parked
<1>2. T = S \ Range(pkt.acks)
  BY DEF HandleAcks
<1>3. pkt.acks = << >> => Range(pkt.acks) = {}
  BY DEF Range
<1> HIDE DEF S, T
<1>4. T \subseteq S
  BY <1>2
<1>5. Cardinality(T) <= Cardinality(S) /\ Cardinality(T) \in Nat /\ Cardinality(S) \in Nat
  BY <1>1, <1>4, FS_Subset, FS_CardinalityType
<1>6. Cardinality(T) <= MaxQueueSize
  BY <1>1, <1>5, ConstantsAssumption
<1>7. pkt.acks = << >> => T = S
  BY <1>2, <1>3
<1> QED BY <1>4, <1>6, <1>7 DEF S, T

(* What arrives for a Read wakes it. *)
LEMMA MessageWaits ==
  ASSUME TInv, NEW e \in Ends, NEW pkt \in Packet, HandleMessage(e, pkt)
  PROVE  /\ reader'[e] = "parked" => reader[e] = "parked" /\ readBuf'[e] = readBuf[e]
         /\ \A x \in Ends : x # e => reader'[x] = reader[x] /\ readBuf'[x] = readBuf[x]
<1>1. CASE UNCHANGED <<reader, readBuf>>
  BY <1>1
<1>2. CASE pkt.pid = nextRxPID[e] /\ DeliverInOrder(e, pkt)
  <2>1. readBuf' = [readBuf EXCEPT ![e] = @ \o Run(e, pkt)]
    BY <1>2 DEF DeliverInOrder
  <2>2. readBuf \in [Ends -> Seq(Body)] /\ readBuf[e] \in Seq(Body)
    BY Zenon DEF TInv, TypeOK
  <2>3. /\ readBuf'[e] = readBuf[e] \o Run(e, pkt)
        /\ \A x \in Ends : x # e => readBuf'[x] = readBuf[x]
    BY <2>1, <2>2
  <2>4. CASE Run(e, pkt) = << >> /\ UNCHANGED reader
    <3>1. readBuf[e] \o << >> = readBuf[e]
      BY <2>2
    <3> QED BY <2>3, <2>4, <3>1
  <2>5. CASE WakeReader(e)
    BY <2>3, <2>5, BroadcastReader
  <2> QED BY <1>2, <2>4, <2>5 DEF DeliverInOrder
<1> QED BY <1>1, <1>2, Zenon DEF HandleMessage, BufferFuture, DropBeyond

(* HandleInbound wakes the writer that waits for the peer's session-id or  *)
(* for room in the queue, and the reader that waits for data.              *)
LEMMA InboundWaits ==
  ASSUME TInv, WaitInv, NEW e \in Ends, NEW pkt \in Packet, HandleInbound(e, pkt)
  PROVE  WaitInv'
<1>1. CASE UNCHANGED layerVars
  <2>1. \A x \in Ends : Parked(x)'
    BY <1>1, ParkedFrame DEF layerVars
  <2> QED BY <2>1 DEF WaitInv
<1>2. CASE ~UNCHANGED layerVars
  <2>1. /\ remote' = [remote EXCEPT ![e] = pkt.sid]
        /\ txQueue' = [txQueue EXCEPT ![e] = HandleAcks(@, pkt.acks)]
        /\ WakeWriter(e, Broadcasts(e, pkt))
        /\ UNCHANGED <<readClosed, closed>>
        /\ UNCHANGED <<readBuf, reader>> \/ HandleMessage(e, pkt)
    BY <1>2 DEF HandleInbound
  <2>2. DOMAIN remote = Ends /\ DOMAIN txQueue = Ends /\ Parked(e)
    BY Zenon DEF TInv, TypeOK, WaitInv
  <2>3. /\ remote'[e] = pkt.sid /\ txQueue'[e] = HandleAcks(txQueue[e], pkt.acks)
        /\ \A x \in Ends : x # e => remote'[x] = remote[x] /\ txQueue'[x] = txQueue[x]
    BY <2>1, <2>2
  <2>4. /\ writer'[e].pc = IF writer[e].pc \in Broadcasts(e, pkt) THEN "woken"
                           ELSE writer[e].pc
        /\ \A x \in Ends : x # e => writer'[x] = writer[x]
    BY <2>1, Broadcast
  <2>5. /\ reader'[e] = "parked" => reader[e] = "parked" /\ readBuf'[e] = readBuf[e]
        /\ \A x \in Ends : x # e => reader'[x] = reader[x] /\ readBuf'[x] = readBuf[x]
    BY <2>1, MessageWaits
  <2>6. /\ remote[e] = NoSid => "remote" \in Broadcasts(e, pkt)
        /\ pkt.acks # << >> => "queue" \in Broadcasts(e, pkt)
    BY DEF Broadcasts
  <2>7. writer'[e].pc # "remote"
    BY <2>2, <2>4, <2>6 DEF Parked
  <2>8. writer'[e].pc = "queue" =>
          writer[e].pc = "queue" /\ DOMAIN txQueue'[e] = DOMAIN txQueue[e]
    BY <2>3, <2>4, <2>6, AcksShrink, Zenon
  <2>9. Cardinality(DOMAIN txQueue'[e]) <= MaxQueueSize
    BY <2>3, AcksShrink, Zenon
  <2>10. Parked(e)'
    BY <2>1, <2>2, <2>5, <2>7, <2>8, <2>9, Zenon DEF Parked, QueueFull
  <2> QED BY <2>1, <2>3, <2>4, <2>5, <2>10, OtherEndWaits, Zenon
<1> QED BY <1>1, <1>2

(* Tick changes what is counted of the packets in the queue, not which     *)
(* packets these are.                                                      *)
LEMMA TickWaits ==
  ASSUME TInv, WaitInv, NEW e \in Ends, TickAny(e)
  PROVE  WaitInv'
<1>0. PICK due, flush, order : Tick(e, due, order, flush)
  BY DEF TickAny
<1>1. txQueue' = [txQueue EXCEPT ![e] =
        [p \in DOMAIN @ |-> IF p \in Range(order) THEN Resent(@[p]) ELSE @[p]]]
  BY <1>0, Zenon DEF Tick
<1>2. UNCHANGED <<remote, readBuf, readClosed, closed, writer, reader>>
  BY Zenon DEF TickAny, Tick
<1>3. DOMAIN txQueue = Ends
  BY Zenon DEF TInv, TypeOK
<1>4. \A x \in Ends : DOMAIN txQueue'[x] = DOMAIN txQueue[x]
  BY <1>1, <1>3
<1>5. \A x \in Ends : Parked(x)'
  BY <1>2, <1>4, ParkedFrame, Zenon
<1> QED BY <1>5 DEF WaitInv

(* Every step keeps it. *)
LEMMA WaitStep == TInv /\ DeliveryInv /\ WaitInv /\ [Next]_vars => WaitInv'
<1> SUFFICES ASSUME TInv, DeliveryInv, WaitInv, [Next]_vars PROVE WaitInv'
  OBVIOUS
<1>1. CASE UNCHANGED layerVars
  <2>1. \A x \in Ends : Parked(x)'
    BY <1>1, ParkedFrame DEF layerVars
  <2> QED BY <2>1 DEF WaitInv
<1>2. ASSUME NEW e \in Ends,
             \/ SendHardReset(e)
             \/ \E n \in 1..MaxPackets[e] : Write(e, n)
             \/ WriteResumed(e)
             \/ WriteNext(e)
             \/ Read(e)
             \/ CloseRead(e)
             \/ Close(e)
             \/ \E pkt \in net[e], dup \in BOOLEAN : Deliver(e, pkt, dup)
             \/ Stray(e)
             \/ TickAny(e)
             \/ TickClosed(e)
             \/ \E lost \in BOOLEAN : Transmit(e, lost)
      PROVE  WaitInv'
  <2>1. CASE SendHardReset(e)
    BY <2>1, ResetWaits
  <2>2. CASE (\E n \in 1..MaxPackets[e] : Write(e, n)) \/ WriteResumed(e) \/ WriteNext(e)
    BY <2>2, WriteWaits DEF Write, WriteResumed, WriteNext
  <2>3. CASE Read(e)
    BY <2>3, ReadWaits
  <2>4. CASE CloseRead(e) \/ Close(e)
    BY <2>4, CloseWaits
  <2>5. CASE \E pkt \in net[e], dup \in BOOLEAN : Deliver(e, pkt, dup)
    <3>1. PICK pkt \in net[e] : HandleInbound(e, pkt)
      BY <2>5 DEF Deliver
    <3>2. pkt \in Packet
      BY Zenon DEF TInv, TypeOK
    <3> QED BY <3>1, <3>2, InboundWaits
  <2>6. CASE Stray(e)
    BY <2>6, StrayPacketType, InboundWaits DEF Stray
  <2>7. CASE TickAny(e)
    BY <2>7, TickWaits
  <2>8. CASE TickClosed(e) \/ \E lost \in BOOLEAN : Transmit(e, lost)
    <3>1. UNCHANGED <<remote, readBuf, readClosed, closed, writer, reader, txQueue>>
      BY <2>8 DEF TickClosed, Transmit
    <3>2. \A x \in Ends : Parked(x)'
      BY <3>1, ParkedFrame
    <3> QED BY <3>2 DEF WaitInv
  <2> QED BY <1>2, <2>1, <2>2, <2>3, <2>4, <2>5, <2>6, <2>7, <2>8, Zenon
<1> QED BY <1>1, <1>2, Zenon DEF Next, vars

(* No wakeup is lost, for any queue and any network: a call that is parked *)
(* in Cond.Wait has its condition false, so that whoever makes it true has *)
(* broadcast (Read, Write, HandleInbound, CloseRead, Close).               *)
THEOREM WakeupsArrive == Spec => []NoLostWakeup
<1>1. Init => WaitInv
  <2>1. Cardinality({}) = 0 /\ MaxQueueSize \in Nat
    BY FS_EmptySet, ConstantsAssumption
  <2>2. DOMAIN << >> = {}
    OBVIOUS
  <2> QED BY <2>1, <2>2 DEF Init, WaitInv, Parked
<1>2. TInv /\ WaitInv => NoLostWakeup
  <2> SUFFICES ASSUME TInv, WaitInv, NEW e \in Ends, writer[e].pc = "queue"
               PROVE  Cardinality(DOMAIN txQueue[e]) = MaxQueueSize
    BY DEF WaitInv, Parked, NoLostWakeup
  <2>1. Cardinality(DOMAIN txQueue[e]) \in Nat /\ MaxQueueSize \in Nat
    BY FS_CardinalityType, ConstantsAssumption DEF TInv
  <2> QED BY <2>1 DEF WaitInv, Parked, QueueFull
<1> QED BY <1>1, <1>2, WaitStep, TypeInvariant, DeliveryInvariant, PTL DEF Spec


=============================================================================
