-------------------------- MODULE ReliableDelivery --------------------------
(***************************************************************************)
(* DeliveryInv is inductive relative to TInv: the steps of one layer, of   *)
(* its sending side and of its receiving side.                             *)
(***************************************************************************)
EXTENDS ReliableTypes

(* The provers every leaf may use, and how long the first may take. *)
USE SMTT(20), Zenon

-----------------------------------------------------------------------------
(* The frame lemmas, which say which changes leave each part of the        *)
(* invariant alone, and the actions of the sending side.                   *)

(* The send side is sound as long as its queue and the peer's receipts stay. *)
LEMMA SenderFrame ==
  ASSUME NEW x \in Ends, SenderInv(x),
         written'[x] = written[x], nextTxPID'[x] = nextTxPID[x],
         writer'[x].pc # "idle" => nextTxPID[x] > 0,
         DOMAIN txQueue'[x] = DOMAIN txQueue[x],
         \A p \in DOMAIN txQueue[x] : txQueue'[x][p].body = txQueue[x][p].body,
         \A p \in Nat : Received(Peer(x), p) => Received(Peer(x), p)',
         nextTxPID[x] \in Nat
  PROVE  SenderInv(x)'
BY DEF SenderInv, Chunks

(* The receive side is sound as long as its buffers stay and the peer only sends more. *)
LEMMA ReceiverFrame ==
  ASSUME NEW x \in Ends, ReceiverInv(x),
         remote'[x] = remote[x], nextRxPID'[x] = nextRxPID[x],
         rxBuffer'[x] = rxBuffer[x], stream'[x] = stream[x],
         readBuf'[x] = readBuf[x],
         nextTxPID[Peer(x)] \in Nat, nextTxPID'[Peer(x)] \in Nat,
         nextRxPID[x] \in Nat, DOMAIN rxBuffer[x] \subseteq Nat,
         nextTxPID[Peer(x)] <= nextTxPID'[Peer(x)],
         \A i \in DOMAIN pendingAcks'[x] : Received(x, pendingAcks'[x][i])
  PROVE  ReceiverInv(x)'
<1>1. \A p : Received(x, p)' <=> Received(x, p)
  BY DEF Received
<1>2. (\A i \in DOMAIN pendingAcks[x] : Received(x, pendingAcks[x][i]))'
  BY DEF Received
<1>3. /\ remote'[x] # StraySid => nextRxPID'[x] <= nextTxPID'[Peer(x)]
      /\ \A p \in DOMAIN rxBuffer'[x] : p < nextTxPID'[Peer(x)] /\ rxBuffer'[x][p] = p
  BY DEF ReceiverInv
<1> QED BY <1>2, <1>3, Zenon DEF ReceiverInv

(* Packets under way are sound if they were, or are newly emitted and sound. *)
LEMMA InFlightFrame ==
  ASSUME NEW x \in Ends, InFlightInv(x), TInv,
         nextTxPID'[x] \in Nat,
         nextTxPID[x] <= nextTxPID'[x],
         \A p \in Nat : Received(x, p) => Received(x, p)',
         \A i \in DOMAIN outbound'[x] :
           \/ \E h \in DOMAIN outbound[x] : outbound'[x][i] = outbound[x][h]
           \/ Sound(x, outbound[x][i])',
         \A pkt \in net'[Peer(x)] :
           \/ pkt \in net[Peer(x)]
           \/ \E h \in DOMAIN outbound[x] : pkt = outbound[x][h]
  PROVE  InFlightInv(x)'
<1>1. /\ outbound[x] \in Seq(Packet) /\ net[Peer(x)] \subseteq Packet
      /\ nextTxPID[x] \in Nat
  BY PeerFacts DEF TInv, TypeOK
<1>2. ASSUME NEW pkt \in Packet, Sound(x, pkt)
      PROVE  Sound(x, pkt)'
  <2>1. pkt.pid \in Nat /\ pkt.acks \in Seq(Nat)
    BY DEF Packet, PID
  <2>2. \A i \in DOMAIN pkt.acks : Received(x, pkt.acks[i])'
    BY <1>2, <2>1 DEF Sound
  <2>3. pkt.op # "ACK" => pkt.pid < nextTxPID'[x] /\ pkt.body = pkt.pid
    BY <1>1, <1>2, <2>1 DEF Sound
  <2> QED BY <1>2, <2>2, <2>3 DEF Sound
<1>3. \A i \in DOMAIN outbound[x] : outbound[x][i] \in Packet /\ Sound(x, outbound[x][i])
  BY <1>1 DEF InFlightInv
<1>4. \A pkt \in net[Peer(x)] : pkt \in Packet /\ Sound(x, pkt)
  BY <1>1 DEF InFlightInv
<1>5. \A i \in DOMAIN outbound'[x] : Sound(x, outbound[x][i])'
  <2> SUFFICES ASSUME NEW i \in DOMAIN outbound'[x],
                      NEW h \in DOMAIN outbound[x],
                      outbound'[x][i] = outbound[x][h]
               PROVE  Sound(x, outbound[x][i])'
    OBVIOUS
  <2> DEFINE pkt == outbound[x][h]
  <2>1. PICK c : c = outbound[x][h]
    OBVIOUS
  <2>2. Sound(x, c)'
    BY <1>2, <1>3, <2>1
  <2> QED BY <2>1, <2>2 DEF Sound
<1>6. \A pkt \in net'[Peer(x)] : Sound(x, pkt)'
  BY <1>2, <1>3, <1>4
<1> QED BY <1>5, <1>6 DEF InFlightInv

(* A step after which everything that was received is received still, and  *)
(* that leaves the receive side, the queue's bodies and the packets in     *)
(* flight alone: only the writer may have moved.                           *)
LEMMA QuietStep ==
  ASSUME TInv, DeliveryInv,
         UNCHANGED <<remote, nextTxPID, txQueue, nextRxPID, rxBuffer,
                     pendingAcks, outbound, readBuf, written, stream>>,
         \A x \in Ends : net'[x] \subseteq net[x],
         \A x \in Ends : writer'[x].pc # "idle" => nextTxPID[x] > 0
  PROVE  DeliveryInv'
<1> SUFFICES ASSUME NEW x \in Ends
             PROVE  (SenderInv(x) /\ ReceiverInv(x) /\ InFlightInv(x))'
  BY DEF DeliveryInv
<1>1. SenderInv(x) /\ ReceiverInv(x) /\ InFlightInv(x) /\ Peer(x) \in Ends
  BY PeerFacts DEF DeliveryInv
<1>2. /\ nextTxPID \in [Ends -> Nat] /\ nextRxPID \in [Ends -> Nat]
      /\ DOMAIN rxBuffer[x] \subseteq Nat
  BY DEF TInv, TypeOK, PID
<1>3. \A z \in Ends : \A p : Received(z, p)' <=> Received(z, p)
  BY DEF Received
<1>4. SenderInv(x)'
  BY <1>1, <1>2, <1>3, SenderFrame
<1>5. ReceiverInv(x)'
  <2>1. \A i \in DOMAIN pendingAcks'[x] : Received(x, pendingAcks'[x][i])
    BY <1>1 DEF ReceiverInv
  <2> QED BY <1>1, <1>2, <2>1, ReceiverFrame
<1>6. InFlightInv(x)'
  <2>1. \A pkt \in net'[Peer(x)] : pkt \in net[Peer(x)]
    BY <1>1
  <2> QED BY <1>1, <1>2, <1>3, <2>1, InFlightFrame
<1> QED BY <1>4, <1>5, <1>6

(* What an emission puts in flight is sound. *)
LEMMA EmissionSound ==
  ASSUME TInv, DeliveryInv, NEW e \in Ends, NEW items \in Seq(Item), NEW st,
         Emission(e, items, st), Emit(e, st),
         \A i \in DOMAIN items : /\ items[i].pid < nextTxPID'[e]
                                 /\ items[i].body = items[i].pid,
         nextTxPID'[e] \in Nat, nextTxPID[e] <= nextTxPID'[e],
         UNCHANGED <<nextRxPID, rxBuffer, net>>
  PROVE  /\ InFlightInv(e)'
         /\ \A i \in DOMAIN pendingAcks'[e] : Received(e, pendingAcks'[e][i])
<1>1. outbound'[e] = st.out /\ pendingAcks'[e] = st.acks
  BY EmitStep
<1>2. InFlightInv(e) /\ ReceiverInv(e) /\ Peer(e) \in Ends
  BY PeerFacts DEF DeliveryInv
<1>3. \A p : Received(e, p)' <=> Received(e, p)
  BY DEF Received
<1>4. ASSUME NEW i \in DOMAIN outbound'[e],
             ~ \E h \in DOMAIN outbound[e] : outbound'[e][i] = outbound[e][h]
      PROVE  Sound(e, outbound[e][i])'
  <2>1. PICK pkt : pkt = outbound'[e][i]
    OBVIOUS
  <2>2. Fresh(e, items, pkt)
    BY <1>1, <1>4, <2>1 DEF Emission
  <2>3. \A a \in DOMAIN pkt.acks : Received(e, pkt.acks[a])
    BY <1>2, <2>2 DEF Fresh, ReceiverInv
  <2>4. pkt.op # "ACK" => pkt.pid < nextTxPID'[e] /\ pkt.body = pkt.pid
    BY <2>2 DEF Fresh
  <2>5. \A a \in DOMAIN pkt.acks : Received(e, pkt.acks[a])'
    BY <1>3, <2>3
  <2>6. Sound(e, pkt)'
    BY <2>2, <2>4, <2>5 DEF Sound, Fresh
  <2> QED BY <2>1, <2>6 DEF Sound
<1>5. InFlightInv(e)'
  BY <1>2, <1>3, <1>4, InFlightFrame
<1>6. \A i \in DOMAIN pendingAcks'[e] : Received(e, pendingAcks'[e][i])
  BY <1>1, <1>2 DEF Emission, ReceiverInv
<1> QED BY <1>5, <1>6

(* The end that does not take part in a step of e's sender. *)
LEMMA OtherEnd ==
  ASSUME TInv, DeliveryInv, NEW e \in Ends, NEW x \in Ends, x # e,
         nextTxPID' \in [Ends -> Nat],
         nextTxPID'[x] = nextTxPID[x], nextTxPID[e] <= nextTxPID'[e],
         written'[x] = written[x], writer'[x] = writer[x],
         txQueue'[x] = txQueue[x], outbound'[x] = outbound[x],
         pendingAcks'[x] = pendingAcks[x],
         UNCHANGED <<remote, nextRxPID, rxBuffer, readBuf, stream, net>>
  PROVE  (SenderInv(x) /\ ReceiverInv(x) /\ InFlightInv(x))'
<1>1. SenderInv(x) /\ ReceiverInv(x) /\ InFlightInv(x) /\ Peer(x) \in Ends
  BY PeerFacts DEF DeliveryInv
<1>2. /\ nextTxPID \in [Ends -> Nat] /\ nextRxPID \in [Ends -> Nat]
      /\ DOMAIN rxBuffer[x] \subseteq Nat
  BY DEF TInv, TypeOK, PID
<1>3. \A z \in Ends : \A p : Received(z, p)' <=> Received(z, p)
  BY DEF Received
<1>4. Peer(x) = e
  BY SidFacts, PeerFacts
<1>5. SenderInv(x)'
  <2>1. writer'[x].pc # "idle" => nextTxPID[x] > 0
    BY <1>1 DEF SenderInv
  <2> QED BY <1>1, <1>2, <1>3, <2>1, SenderFrame
<1>6. ReceiverInv(x)'
  <2>1. \A i \in DOMAIN pendingAcks'[x] : Received(x, pendingAcks'[x][i])
    BY <1>1 DEF ReceiverInv
  <2> QED BY <1>1, <1>2, <1>4, <2>1, ReceiverFrame
<1>7. InFlightInv(x)'
  BY <1>1, <1>2, <1>3, InFlightFrame
<1> QED BY <1>5, <1>6, <1>7

(* A packet with the next packet-id and the next chunk may be queued. *)
LEMMA EnqueueDelivery ==
  ASSUME TInv, DeliveryInv, NEW e \in Ends, NEW op \in {"RESET", "CONTROL"},
         NEW body \in Body, body = nextTxPID[e],
         enqueueAndEmitLocked(e, op, body),
         written'[e] = nextTxPID[e],
         \A x \in Ends : x # e => /\ written'[x] = written[x]
                                  /\ writer'[x] = writer[x],
         UNCHANGED <<remote, nextRxPID, rxBuffer, readBuf, stream, net>>
  PROVE  DeliveryInv'
<1> DEFINE item == [op |-> op, pid |-> nextTxPID[e], body |-> body]
           new == [op |-> op, body |-> body, attempts |-> 1, higherACKs |-> 0]
<1>1. /\ nextTxPID \in [Ends -> Nat] /\ nextTxPID[e] \in Nat
      /\ nextRxPID \in [Ends -> Nat] /\ DOMAIN rxBuffer[e] \subseteq Nat
      /\ DOMAIN txQueue = Ends /\ DOMAIN txQueue[e] \subseteq Nat
  BY DEF TInv, TypeOK, PID
<1>2. item \in Item /\ <<item>> \in Seq(Item)
  BY <1>1 DEF Item, PID
<1>3. Emission(e, <<item>>, emitLocked(e, <<item>>))
  BY <1>2, EmitFacts, EmittingFromType, Zenon
<1>4. Emit(e, emitLocked(e, <<item>>))
  BY DEF enqueueAndEmitLocked
<1>5. nextTxPID' = [nextTxPID EXCEPT ![e] = @ + 1]
  BY DEF enqueueAndEmitLocked
<1>6. txQueue' = [txQueue EXCEPT ![e] = Put(@, nextTxPID[e], new)]
  BY DEF enqueueAndEmitLocked
<1>7. /\ nextTxPID'[e] = nextTxPID[e] + 1
      /\ nextTxPID' \in [Ends -> Nat]
      /\ \A x \in Ends : x # e => nextTxPID'[x] = nextTxPID[x]
  BY <1>1, <1>5
<1>8. /\ InFlightInv(e)'
      /\ \A i \in DOMAIN pendingAcks'[e] : Received(e, pendingAcks'[e][i])
  <2>1. \A i \in DOMAIN <<item>> : /\ <<item>>[i].pid < nextTxPID'[e]
                                   /\ <<item>>[i].body = <<item>>[i].pid
    BY <1>1, <1>7
  <2>2. nextTxPID'[e] \in Nat /\ nextTxPID[e] <= nextTxPID'[e]
    BY <1>1, <1>7
  <2> DEFINE its == <<item>>
             st == emitLocked(e, its)
  <2> HIDE DEF item, its, st
  <2>3. /\ its \in Seq(Item) /\ Emission(e, its, st) /\ Emit(e, st)
        /\ \A i \in DOMAIN its : /\ its[i].pid < nextTxPID'[e]
                                  /\ its[i].body = its[i].pid
    BY <1>2, <1>3, <1>4, <2>1 DEF its, st
  <2> QED BY <2>2, <2>3, EmissionSound
<1>9. SenderInv(e) /\ ReceiverInv(e) /\ Peer(e) \in Ends /\ Peer(e) # e
  BY PeerFacts DEF DeliveryInv
<1>10. SenderInv(e)'
  <2>1. /\ DOMAIN txQueue'[e] = DOMAIN txQueue[e] \cup {nextTxPID[e]}
        /\ txQueue'[e][nextTxPID[e]] = new
        /\ \A p \in DOMAIN txQueue[e] :
             p # nextTxPID[e] => txQueue'[e][p] = txQueue[e][p]
    <3> HIDE DEF new
    <3> QED BY <1>1, <1>6 DEF Put
  <2>2. new.body = nextTxPID[e]
    OBVIOUS
  <2> HIDE DEF new
  <2>3. \A p \in DOMAIN txQueue'[e] : p < nextTxPID'[e] /\ txQueue'[e][p].body = p
    BY <1>1, <1>7, <1>9, <2>1, <2>2 DEF SenderInv
  <2>4. \A p \in 0 .. nextTxPID'[e] - 1 :
          p \in DOMAIN txQueue'[e] \/ Received(Peer(e), p)'
    BY <1>1, <1>7, <1>9, <2>1 DEF SenderInv, Received
  <2>5. written'[e] = Chunks(nextTxPID'[e])
    BY <1>1, <1>7 DEF Chunks
  <2>6. nextTxPID'[e] > 0
    BY <1>1, <1>7
  <2> QED BY <2>3, <2>4, <2>5, <2>6 DEF SenderInv
<1>11. ReceiverInv(e)'
  BY <1>1, <1>7, <1>8, <1>9, ReceiverFrame
<1>12. ASSUME NEW x \in Ends, x # e
       PROVE  (SenderInv(x) /\ ReceiverInv(x) /\ InFlightInv(x))'
  <2>1. outbound'[x] = outbound[x] /\ pendingAcks'[x] = pendingAcks[x]
    <3> HIDE DEF item
    <3> QED BY <1>2, <1>3, <1>4, <1>12, EmitStep, Zenon
  <2>2. txQueue'[x] = txQueue[x]
    BY <1>1, <1>6, <1>12
  <2>3. nextTxPID[e] <= nextTxPID'[e]
    BY <1>1, <1>7
  <2> QED BY <1>7, <1>12, <2>1, <2>2, <2>3, OtherEnd
<1> QED BY <1>8, <1>10, <1>11, <1>12 DEF DeliveryInv


(* The hard reset is packet 0 and carries no chunk. *)
LEMMA SendHardResetDelivery ==
  ASSUME TInv, DeliveryInv, NEW e \in Ends, SendHardReset(e)
  PROVE  DeliveryInv'
<1>1. /\ enqueueAndEmitLocked(e, "RESET", Empty) /\ Empty \in Body
      /\ Empty = nextTxPID[e]
  BY DEF SendHardReset, Empty, Body
<1>2. written'[e] = nextTxPID[e]
  BY DEF SendHardReset, DeliveryInv, SenderInv, Chunks
<1> QED BY <1>1, <1>2, EnqueueDelivery DEF SendHardReset

(* Write gives each chunk the packet-id that is its number. *)
LEMMA WriteChunkDelivery ==
  ASSUME TInv, DeliveryInv, NEW e \in Ends, NEW left \in Nat,
         nextTxPID[e] > 0, WriteChunk(e, left)
  PROVE  DeliveryInv'
<1>1. /\ writer \in [Ends -> [pc : {"idle", "remote", "queue", "woken", "run"},
                              left : Nat]]
      /\ nextTxPID \in [Ends -> Nat] /\ written \in [Ends -> Nat]
  BY DEF TInv, TypeOK
<1>2. ASSUME NEW pc, NEW n, WriterAt(e, pc, n)
      PROVE  /\ \A x \in Ends : x # e => writer'[x] = writer[x]
             /\ \A x \in Ends : writer'[x].pc # "idle" => nextTxPID[x] > 0
  BY <1>1, <1>2 DEF WriterAt, DeliveryInv, SenderInv
<1>3. CASE UNCHANGED unchangedByPark
  BY <1>2, <1>3, QuietStep, Zenon DEF WriteChunk, unchangedByPark, SendChunk
<1>4. CASE SendChunk(e, left)
  <2>1. written[e] = nextTxPID[e] - 1
    BY <1>1 DEF DeliveryInv, SenderInv, Chunks
  <2>2. written' = [written EXCEPT ![e] = @ + 1]
    BY <1>4 DEF SendChunk
  <2>3. /\ written[e] + 1 = nextTxPID[e] /\ written'[e] = nextTxPID[e]
        /\ written[e] + 1 \in Body
        /\ \A x \in Ends : x # e => written'[x] = written[x]
    BY <1>1, <2>1, <2>2 DEF Body
  <2>4. \A x \in Ends : x # e => writer'[x] = writer[x]
    BY <1>2, <1>4 DEF SendChunk
  <2>5. enqueueAndEmitLocked(e, "CONTROL", written[e] + 1)
    BY <1>4 DEF SendChunk
  <2> QED BY <1>4, <2>3, <2>4, <2>5, EnqueueDelivery DEF SendChunk
<1> QED BY <1>3, <1>4 DEF WriteChunk

(* So does Write from its start or after it was woken. *)
LEMMA WriteFromDelivery ==
  ASSUME TInv, DeliveryInv, NEW e \in Ends, NEW left \in Nat,
         nextTxPID[e] > 0, WriteFrom(e, left)
  PROVE  DeliveryInv'
<1>1. writer \in [Ends -> [pc : {"idle", "remote", "queue", "woken", "run"},
                           left : Nat]]
  BY DEF TInv, TypeOK
<1>2. ASSUME NEW pc, NEW n, WriterAt(e, pc, n), UNCHANGED unchangedByPark
      PROVE  DeliveryInv'
  <2>1. \A x \in Ends : writer'[x].pc # "idle" => nextTxPID[x] > 0
    BY <1>1, <1>2 DEF WriterAt, DeliveryInv, SenderInv
  <2> QED BY <1>2, <2>1, QuietStep DEF unchangedByPark
<1>3. CASE WriteChunk(e, left)
  BY <1>3, WriteChunkDelivery
<1> QED BY <1>2, <1>3 DEF WriteFrom

(* A broadcast leaves an idle writer idle. *)
LEMMA WakeDelivery ==
  ASSUME TInv, DeliveryInv, NEW e \in Ends, NEW conds,
         conds \subseteq {"remote", "queue"}, WakeWriter(e, conds)
  PROVE  \A x \in Ends : writer'[x].pc # "idle" => nextTxPID[x] > 0
<1>1. writer \in [Ends -> [pc : {"idle", "remote", "queue", "woken", "run"},
                           left : Nat]]
  BY DEF TInv, TypeOK
<1>2. \A x \in Ends : writer'[x].pc # "idle" => writer[x].pc # "idle"
  <2>1. \A x \in Ends : x # e => writer'[x] = writer[x]
    BY <1>1 DEF WakeWriter
  <2>2. writer'[e].pc = IF writer[e].pc \in conds THEN "woken" ELSE writer[e].pc
    BY <1>1 DEF WakeWriter
  <2> QED BY <2>1, <2>2
<1> QED BY <1>2 DEF DeliveryInv, SenderInv


(* Closing either side changes nothing that is sent or delivered. *)
LEMMA CloseDelivery ==
  ASSUME TInv, DeliveryInv, NEW e \in Ends,
         CloseRead(e) \/ Close(e) \/ TickClosed(e)
  PROVE  DeliveryInv'
<1>1. \A x \in Ends : writer'[x].pc # "idle" => nextTxPID[x] > 0
  <2>1. CASE CloseRead(e)
    BY <2>1, WakeDelivery DEF CloseRead
  <2>2. CASE Close(e)
    BY <2>2, WakeDelivery DEF Close
  <2>3. CASE TickClosed(e)
    BY <2>3 DEF TickClosed, DeliveryInv, SenderInv
  <2> QED BY <2>1, <2>2, <2>3
<1> QED BY <1>1, QuietStep DEF CloseRead, Close, TickClosed

(* Read takes from the front of what was delivered. *)
LEMMA ReadDelivery ==
  ASSUME TInv, DeliveryInv, NEW e \in Ends, Read(e)
  PROVE  DeliveryInv'
<1>1. CASE UNCHANGED readBuf
  <2>1. \A x \in Ends : writer'[x].pc # "idle" => nextTxPID[x] > 0
    BY DEF Read, DeliveryInv, SenderInv
  <2> QED BY <1>1, <2>1, QuietStep DEF Read
<1>2. CASE \E n \in 1..Len(readBuf[e]) :
             readBuf' = [readBuf EXCEPT ![e] = SubSeq(@, n + 1, Len(@))]
  <2>1. PICK n \in 1..Len(readBuf[e]) :
             readBuf' = [readBuf EXCEPT ![e] = SubSeq(@, n + 1, Len(@))]
    BY <1>2, Zenon
  <2>2. /\ readBuf \in [Ends -> Seq(Body)] /\ stream \in [Ends -> Seq(Body)]
        /\ Len(readBuf[e]) \in Nat /\ Len(stream[e]) \in Nat
    BY DEF TInv, TypeOK
  <2>3. /\ readBuf'[e] = SubSeq(readBuf[e], n + 1, Len(readBuf[e]))
        /\ \A x \in Ends : x # e => readBuf'[x] = readBuf[x]
    BY <2>1, <2>2
  <2>4. \A i \in (n + 1) .. Len(readBuf[e]) : readBuf[e][i] \in Body
    BY <2>2
  <2>5. /\ Len(readBuf'[e]) = Len(readBuf[e]) - n
        /\ \A i \in 1 .. Len(readBuf[e]) - n : readBuf'[e][i] = readBuf[e][n + i]
    BY <2>2, <2>3, <2>4
  <2>6. /\ Len(readBuf'[e]) <= Len(stream[e])
        /\ \A i \in 1 .. Len(readBuf'[e]) :
             readBuf'[e][i] = Len(stream[e]) - Len(readBuf'[e]) + i
    BY <2>2, <2>5 DEF DeliveryInv, ReceiverInv
  <2>7. /\ \A x \in Ends : ReceiverInv(x)
        /\ \A x \in Ends : \A p : Received(x, p)' <=> Received(x, p)
    BY DEF DeliveryInv, Received, Read
  <2>8. UNCHANGED <<remote, nextTxPID, nextRxPID, rxBuffer, pendingAcks, stream>>
    BY DEF Read
  <2>9. \A x \in Ends : (\A i \in DOMAIN pendingAcks[x] :
                           Received(x, pendingAcks[x][i]))'
    BY <2>7, <2>8, Zenon DEF ReceiverInv
  <2>10. ASSUME NEW x \in Ends PROVE ReceiverInv(x)'
    <3>1. CASE x = e
      BY <2>6, <2>7, <2>8, <2>9, <3>1, Zenon DEF ReceiverInv
    <3>2. CASE x # e
      BY <2>3, <2>7, <2>8, <2>9, <3>2, Zenon DEF ReceiverInv
    <3> QED BY <3>1, <3>2
  <2>11. ASSUME NEW x \in Ends PROVE SenderInv(x)'
    BY DEF Read, DeliveryInv, SenderInv, Received, Chunks
  <2>12. ASSUME NEW x \in Ends PROVE InFlightInv(x)'
    BY DEF Read, DeliveryInv, InFlightInv, Sound, Received
  <2> QED BY <2>10, <2>11, <2>12 DEF DeliveryInv
<1> QED BY <1>1, <1>2 DEF Read

(* What Tick sends again is what was sent before. *)
LEMMA TickDelivery ==
  ASSUME TInv, DeliveryInv, NEW e \in Ends, TickAny(e)
  PROVE  DeliveryInv'
<1>1. PICK order \in Seq(DOMAIN txQueue[e]) : \E st : Ticked(e, order, st)
  BY TickFacts
<1>2. PICK st : Ticked(e, order, st)
  BY <1>1
<1>3. /\ SenderInv(e) /\ ReceiverInv(e) /\ Peer(e) \in Ends
      /\ nextTxPID \in [Ends -> Nat] /\ nextRxPID \in [Ends -> Nat]
      /\ DOMAIN rxBuffer[e] \subseteq Nat
  BY PeerFacts DEF DeliveryInv, TInv, TypeOK, PID
<1> DEFINE items == Walked(e, order)
<1>4. \A i \in DOMAIN items : /\ items[i].pid < nextTxPID[e]
                              /\ items[i].body = items[i].pid
  <2>1. \A i \in DOMAIN order : order[i] \in DOMAIN txQueue[e]
    OBVIOUS
  <2> QED BY <1>3, <2>1 DEF Walked, SenderInv
<1> HIDE DEF items
<1>5. /\ items \in Seq(Item) /\ Emission(e, items, st) /\ Emit(e, st)
      /\ nextTxPID'[e] \in Nat /\ nextTxPID[e] <= nextTxPID'[e]
      /\ UNCHANGED <<remote, nextTxPID, nextRxPID, rxBuffer, readBuf, writer,
                     net, written, stream>>
  <2>1. /\ items \in Seq(Item) /\ Emission(e, items, st) /\ Emit(e, st)
        /\ UNCHANGED <<remote, nextTxPID, nextRxPID, rxBuffer, readBuf, writer,
                       net, written, stream>>
    BY <1>2 DEF Ticked, items
  <2>2. nextTxPID'[e] = nextTxPID[e] /\ nextTxPID[e] \in Nat
    BY <1>3, <2>1, Zenon
  <2> QED BY <2>1, <2>2
<1>6. /\ InFlightInv(e)'
      /\ \A i \in DOMAIN pendingAcks'[e] : Received(e, pendingAcks'[e][i])
  BY <1>4, <1>5, EmissionSound
<1>7. \A x \in Ends : \A p : Received(x, p)' <=> Received(x, p)
  BY <1>5 DEF Received
<1>8. SenderInv(e)'
  <2>1. writer'[e].pc # "idle" => nextTxPID[e] > 0
    BY <1>3, <1>5 DEF SenderInv
  <2>2. /\ DOMAIN txQueue'[e] = DOMAIN txQueue[e]
        /\ \A p \in DOMAIN txQueue[e] : txQueue'[e][p].body = txQueue[e][p].body
    BY <1>2, Zenon DEF Ticked
  <2> QED BY <1>3, <1>5, <1>7, <2>1, <2>2, SenderFrame
<1>9. ReceiverInv(e)'
  <2>1. nextTxPID' = nextTxPID
    BY <1>5
  <2>2. nextTxPID[Peer(e)] \in Nat /\ nextRxPID[e] \in Nat
    BY <1>3
  <2>3. /\ nextTxPID'[Peer(e)] \in Nat
        /\ nextTxPID[Peer(e)] <= nextTxPID'[Peer(e)]
    BY <2>1, <2>2
  <2> QED BY <1>3, <1>5, <1>6, <2>2, <2>3, ReceiverFrame, Zenon
<1>10. ASSUME NEW x \in Ends, x # e
       PROVE  (SenderInv(x) /\ ReceiverInv(x) /\ InFlightInv(x))'
  <2>1. outbound'[x] = outbound[x] /\ pendingAcks'[x] = pendingAcks[x]
    BY <1>5, <1>10, EmitStep
  <2>2. txQueue'[x] = txQueue[x]
    BY <1>2, <1>10 DEF Ticked
  <2> QED BY <1>3, <1>5, <1>10, <2>1, <2>2, OtherEnd
<1> QED BY <1>6, <1>8, <1>9, <1>10 DEF DeliveryInv

(* The write loop moves a packet to the network or loses it. *)
LEMMA TransmitDelivery ==
  ASSUME TInv, DeliveryInv, NEW e \in Ends, NEW lost, Transmit(e, lost)
  PROVE  DeliveryInv'
<1>1. /\ outbound \in [Ends -> Seq(Packet)] /\ outbound[e] # << >>
      /\ net \in [Ends -> SUBSET Packet]
      /\ nextTxPID \in [Ends -> Nat] /\ nextRxPID \in [Ends -> Nat]
      /\ \A x \in Ends : DOMAIN rxBuffer[x] \subseteq Nat
  BY Zenon DEF TInv, TypeOK, Transmit, PID
<1>2. UNCHANGED <<remote, nextTxPID, txQueue, nextRxPID, rxBuffer, pendingAcks,
                  readBuf, writer, written, stream>>
  BY DEF Transmit
<1>3. \A x \in Ends : \A p : Received(x, p)' <=> Received(x, p)
  BY <1>2 DEF Received
<1>4. ASSUME NEW x \in Ends PROVE InFlightInv(x)'
  <2>1. InFlightInv(x)
    BY DEF DeliveryInv
  <2>2. \A i \in DOMAIN outbound'[x] :
          \E h \in DOMAIN outbound[x] : outbound'[x][i] = outbound[x][h]
    <3>1. CASE x # e
      BY <1>1, <3>1, Zenon DEF Transmit
    <3>2. CASE x = e
      <4>1. outbound'[e] = Tail(outbound[e])
        BY <1>1 DEF Transmit
      <4>2. \A i \in DOMAIN Tail(outbound[e]) :
              /\ i + 1 \in DOMAIN outbound[e]
              /\ Tail(outbound[e])[i] = outbound[e][i + 1]
        BY <1>1
      <4> QED BY <3>2, <4>1, <4>2
    <3> QED BY <3>1, <3>2
  <2>3. \A pkt \in net'[Peer(x)] :
          \/ pkt \in net[Peer(x)]
          \/ \E h \in DOMAIN outbound[x] : pkt = outbound[x][h]
    <3>1. Head(outbound[e]) = outbound[e][1] /\ 1 \in DOMAIN outbound[e]
      BY <1>1
    <3>2. Peer(x) = Peer(e) => x = e
      BY PeerFacts
    <3> QED BY <1>1, <3>1, <3>2, PeerFacts DEF Transmit
  <2>4. nextTxPID'[x] \in Nat /\ nextTxPID[x] <= nextTxPID'[x]
    BY <1>1, <1>2
  <2> QED BY <1>3, <2>1, <2>2, <2>3, <2>4, InFlightFrame
<1>5. ASSUME NEW x \in Ends PROVE SenderInv(x)'
  BY <1>2 DEF DeliveryInv, SenderInv, Received, Chunks
<1>6. ASSUME NEW x \in Ends PROVE ReceiverInv(x)'
  BY <1>2, Zenon DEF DeliveryInv, ReceiverInv, Received, Chunks
<1> QED BY <1>4, <1>5, <1>6 DEF DeliveryInv

-----------------------------------------------------------------------------
(* What a message that arrives does to the receive window and the stream.  *)

(* The bodies that an in-order packet makes readable continue the stream. *)
LEMMA RunFacts ==
  ASSUME TInv, DeliveryInv, NEW e \in Ends, NEW pkt \in Packet,
         pkt.pid = nextRxPID[e], pkt.body = pkt.pid, DeliverInOrder(e, pkt)
  PROVE  /\ Run(e, pkt) \in Seq(Body)
         /\ Len(Run(e, pkt)) = Gap(e, pkt) - 1 - Len(stream[e])
         /\ \A j \in 1 .. Len(Run(e, pkt)) : Run(e, pkt)[j] = Len(stream[e]) + j
<1> DEFINE gap == Gap(e, pkt)
           rest == Contiguous(e, pkt)
           pid == pkt.pid
<1>1. /\ gap \in Nat /\ pid < gap /\ pid \in Nat
      /\ \A m \in pid + 1 .. gap - 1 : m \in DOMAIN rxBuffer[e]
      /\ rest \in Seq(Body) /\ Len(rest) = gap - pid - 1
      /\ Run(e, pkt) \in Seq(Body)
  BY DeliverInOrderFacts, Zenon DEF Packet, PID
<1>2. \A j \in 1 .. gap - pid - 1 : rest[j] = rxBuffer[e][pid + j]
  BY DEF Contiguous
<1>3. \A p \in DOMAIN rxBuffer[e] : rxBuffer[e][p] = p
  BY Zenon DEF DeliveryInv, ReceiverInv
<1>4. Len(stream[e]) = Chunks(pid)
  BY Zenon DEF DeliveryInv, ReceiverInv
<1>5. Run(e, pkt) = IF pid = 0 THEN rest ELSE <<pid>> \o rest
  BY DEF Run, Empty
<1> HIDE DEF gap, rest, pid
<1>6. \A j \in 1 .. gap - pid - 1 : rest[j] = pid + j
  <2> TAKE j \in 1 .. gap - pid - 1
  <2>1. pid + j \in pid + 1 .. gap - 1
    BY <1>1
  <2>2. rxBuffer[e][pid + j] = pid + j
    BY <1>1, <1>3, <2>1
  <2> QED BY <1>2, <2>2
<1>7. CASE pid = 0
  <2>1. Len(stream[e]) = 0 /\ Run(e, pkt) = rest
    BY <1>4, <1>5, <1>7 DEF Chunks
  <2> QED BY <1>1, <1>6, <1>7, <2>1 DEF gap
<1>8. CASE pid # 0
  <2>1. Len(stream[e]) = pid - 1 /\ Run(e, pkt) = <<pid>> \o rest
    BY <1>4, <1>5, <1>8 DEF Chunks
  <2>2. <<pid>> \in Seq(Nat) /\ Len(<<pid>>) = 1 /\ <<pid>>[1] = pid /\ rest \in Seq(Nat)
    BY <1>1 DEF Body
  <2> DEFINE one == <<pid>>
  <2> HIDE DEF one
  <2>3. /\ Len(one \o rest) = Len(one) + Len(rest)
        /\ \A i \in 1 .. Len(one) + Len(rest) :
             (one \o rest)[i] = IF i <= Len(one) THEN one[i] ELSE rest[i - Len(one)]
    BY <2>2, JoinFacts DEF one
  <2>4. Len(one) = 1 /\ one[1] = pid /\ Run(e, pkt) = one \o rest
    BY <2>1, <2>2 DEF one
  <2>5. Len(Run(e, pkt)) = gap - pid
    BY <1>1, <2>3, <2>4
  <2>6. \A j \in 1 .. gap - pid : Run(e, pkt)[j] = pid - 1 + j
    <3> SUFFICES ASSUME NEW j \in 1 .. gap - pid
                 PROVE  Run(e, pkt)[j] = pid - 1 + j
      OBVIOUS
    <3>1. CASE j = 1
      BY <1>1, <2>3, <2>4, <3>1
    <3>2. CASE j # 1
      <4>1. j - 1 \in 1 .. gap - pid - 1 /\ j \in 1 .. Len(one) + Len(rest)
        BY <1>1, <2>4, <3>2
      <4>2. Run(e, pkt)[j] = rest[j - 1]
        BY <2>3, <2>4, <3>2, <4>1
      <4> QED BY <1>1, <1>6, <4>1, <4>2
    <3> QED BY <3>1, <3>2
  <2> QED BY <1>1, <2>1, <2>5, <2>6 DEF gap
<1> QED BY <1>1, <1>7, <1>8, Zenon

(* addPendingAckLocked adds an ack of something received. *)
LEMMA AddAckReceived ==
  ASSUME TInv, DeliveryInv, NEW e \in Ends, NEW pid \in PID,
         addPendingAckLocked(e, pid),
         \A p \in Nat : Received(e, p) => Received(e, p)',
         Received(e, pid)'
  PROVE  (\A i \in DOMAIN pendingAcks[e] : Received(e, pendingAcks[e][i]))'
<1>1. pendingAcks \in [Ends -> Seq(PID)] /\ pendingAcks[e] \in Seq(PID)
  BY Zenon DEF TInv, TypeOK
<1>2. \A i \in DOMAIN pendingAcks[e] : Received(e, pendingAcks[e][i])
  BY Zenon DEF DeliveryInv, ReceiverInv
<1>3. \/ pendingAcks'[e] = pendingAcks[e]
      \/ pendingAcks'[e] = Append(pendingAcks[e], pid)
  BY <1>1 DEF addPendingAckLocked
<1>4. \A i \in DOMAIN pendingAcks'[e] : \/ i \in DOMAIN pendingAcks[e] /\
                                             pendingAcks'[e][i] = pendingAcks[e][i]
                                        \/ pendingAcks'[e][i] = pid
  <2> DEFINE q == Append(pendingAcks[e], pid)
  <2>1. /\ q \in Seq(PID) /\ Len(q) = Len(pendingAcks[e]) + 1
        /\ \A i \in 1 .. Len(pendingAcks[e]) : q[i] = pendingAcks[e][i]
        /\ q[Len(pendingAcks[e]) + 1] = pid
    BY <1>1
  <2>2. /\ Len(pendingAcks[e]) \in Nat /\ DOMAIN q = 1 .. Len(pendingAcks[e]) + 1
        /\ DOMAIN pendingAcks[e] = 1 .. Len(pendingAcks[e])
    BY <1>1, <2>1
  <2> HIDE DEF q
  <2>3. \A i \in DOMAIN q : i \in DOMAIN pendingAcks[e] \/ i = Len(pendingAcks[e]) + 1
    BY <2>2
  <2>4. \A i \in DOMAIN q : (i \in DOMAIN pendingAcks[e] /\ q[i] = pendingAcks[e][i])
                            \/ q[i] = pid
    BY <2>1, <2>2, <2>3
  <2> QED BY <1>3, <2>4 DEF q
<1>5. ASSUME NEW i \in DOMAIN pendingAcks'[e]
      PROVE  pendingAcks'[e][i] < nextRxPID'[e] \/ pendingAcks'[e][i] \in DOMAIN rxBuffer'[e]
  <2>1. CASE pendingAcks'[e][i] = pid
    BY <2>1 DEF Received
  <2>2. CASE i \in DOMAIN pendingAcks[e] /\ pendingAcks'[e][i] = pendingAcks[e][i]
    <3>1. PICK p : p = pendingAcks[e][i]
      OBVIOUS
    <3>2. p \in Nat /\ Received(e, p)
      BY <1>1, <1>2, <2>2, <3>1 DEF PID
    <3> QED BY <2>2, <3>1, <3>2 DEF Received
  <2> QED BY <1>4, <2>1, <2>2
<1> QED BY <1>5 DEF Received


(* What an arriving message changes at its receiver: nothing received is   *)
(* forgotten, only the message is new, and the stream grows with it.       *)
Absorbed(e, pid) ==
  /\ \A p \in Nat : Received(e, p) => Received(e, p)'
  /\ \A p \in Nat : Received(e, p)' => Received(e, p) \/ p = pid
  /\ \A p \in DOMAIN rxBuffer'[e] : rxBuffer'[e][p] = p
  /\ (\A i \in DOMAIN pendingAcks[e] : Received(e, pendingAcks[e][i]))'
  /\ Len(stream'[e]) = Chunks(nextRxPID'[e])
  /\ \A i \in 1 .. Len(stream'[e]) : stream'[e][i] = i
  /\ Len(readBuf'[e]) <= Len(stream'[e])
  /\ \A i \in 1 .. Len(readBuf'[e]) :
       readBuf'[e][i] = Len(stream'[e]) - Len(readBuf'[e]) + i
  /\ \A x \in Ends : x # e => /\ nextRxPID'[x] = nextRxPID[x]
                              /\ rxBuffer'[x] = rxBuffer[x]
                              /\ stream'[x] = stream[x]
                              /\ readBuf'[x] = readBuf[x]
                              /\ pendingAcks'[x] = pendingAcks[x]

(* A message is acked only once it is delivered or buffered. *)
LEMMA HandleMessageDelivery ==
  ASSUME TInv, DeliveryInv, NEW e \in Ends, NEW pkt \in Packet,
         HandleMessage(e, pkt), pkt.body = pkt.pid
  PROVE  Absorbed(e, pkt.pid)
<1>1. /\ pkt.pid \in Nat /\ pkt.pid \in PID
      /\ nextRxPID \in [Ends -> Nat]
      /\ DOMAIN rxBuffer = Ends
      /\ \A x \in Ends : DOMAIN rxBuffer[x] \subseteq Nat
      /\ readBuf \in [Ends -> Seq(Body)]
      /\ stream \in [Ends -> Seq(Body)]
      /\ pendingAcks \in [Ends -> Seq(PID)]
  BY Zenon DEF TInv, TypeOK, Packet, PID
<1>2. ReceiverInv(e)
  BY DEF DeliveryInv
<1>3. addPendingAckLocked(e, pkt.pid) =>
        \A x \in Ends : x # e => pendingAcks'[x] = pendingAcks[x]
  BY <1>1 DEF addPendingAckLocked
<1>4. CASE /\ Duplicate(e, pkt.pid)
           /\ addPendingAckLocked(e, pkt.pid)
           /\ UNCHANGED <<nextRxPID, rxBuffer, readBuf, stream, reader>>
  <2>1. \A p : Received(e, p)' <=> Received(e, p)
    BY <1>4, Zenon DEF Received
  <2>2. Received(e, pkt.pid)'
    BY <1>4 DEF Received, Duplicate
  <2>3. (\A i \in DOMAIN pendingAcks[e] : Received(e, pendingAcks[e][i]))'
    BY <1>1, <1>4, <2>1, <2>2, AddAckReceived, Zenon
  <2>4. \A x \in Ends : x # e => /\ nextRxPID'[x] = nextRxPID[x]
                                 /\ rxBuffer'[x] = rxBuffer[x]
                                 /\ stream'[x] = stream[x]
                                 /\ readBuf'[x] = readBuf[x]
                                 /\ pendingAcks'[x] = pendingAcks[x]
    BY <1>3, <1>4
  <2> QED BY <1>2, <1>4, <2>1, <2>3, <2>4, Zenon DEF Absorbed, ReceiverInv
<1>5. CASE DropBeyond(e, pkt)
  <2>1. \A p : Received(e, p)' <=> Received(e, p)
    BY <1>5 DEF Received, DropBeyond
  <2> QED BY <1>2, <1>5, <2>1, Zenon DEF Absorbed, ReceiverInv, DropBeyond
<1>6. CASE /\ pkt.pid > nextRxPID[e]
           /\ BufferFuture(e, pkt)
  <2>1. /\ addPendingAckLocked(e, pkt.pid)
        /\ UNCHANGED <<nextRxPID, readBuf, stream, reader>>
        /\ rxBuffer' = [rxBuffer EXCEPT ![e] = Put(@, pkt.pid, pkt.body)]
    BY <1>6 DEF BufferFuture
  <2>2. /\ \A x \in Ends : x # e => rxBuffer'[x] = rxBuffer[x]
        /\ rxBuffer'[e] = [p \in DOMAIN rxBuffer[e] \cup {pkt.pid} |->
                             IF p = pkt.pid THEN pkt.pid ELSE rxBuffer[e][p]]
    BY <1>1, <2>1 DEF Put
  <2>3. \A p : Received(e, p)' <=> Received(e, p) \/ p = pkt.pid
    BY <2>1, <2>2 DEF Received
  <2>4. \A p \in DOMAIN rxBuffer'[e] : rxBuffer'[e][p] = p
    BY <1>2, <2>2, Zenon DEF ReceiverInv
  <2>5. Received(e, pkt.pid)'
    BY <2>2 DEF Received
  <2>6. (\A i \in DOMAIN pendingAcks[e] : Received(e, pendingAcks[e][i]))'
    BY <1>1, <2>1, <2>3, <2>5, AddAckReceived, Zenon
  <2>7. /\ Len(stream'[e]) = Chunks(nextRxPID'[e])
        /\ \A i \in 1 .. Len(stream'[e]) : stream'[e][i] = i
        /\ Len(readBuf'[e]) <= Len(stream'[e])
        /\ \A i \in 1 .. Len(readBuf'[e]) :
             readBuf'[e][i] = Len(stream'[e]) - Len(readBuf'[e]) + i
    BY <1>2, <2>1, Zenon DEF ReceiverInv, Chunks
  <2>8. \A x \in Ends : x # e => /\ nextRxPID'[x] = nextRxPID[x]
                                 /\ rxBuffer'[x] = rxBuffer[x]
                                 /\ stream'[x] = stream[x]
                                 /\ readBuf'[x] = readBuf[x]
                                 /\ pendingAcks'[x] = pendingAcks[x]
    BY <1>3, <2>1, <2>2
  <2> QED BY <2>3, <2>4, <2>6, <2>7, <2>8, Zenon DEF Absorbed
<1>7. CASE /\ pkt.pid = nextRxPID[e]
           /\ DeliverInOrder(e, pkt)
           /\ addPendingAckLocked(e, pkt.pid)
  <2> DEFINE gap == Gap(e, pkt)
             run == Run(e, pkt)
  <2>1. /\ gap \in Nat /\ pkt.pid < gap
        /\ gap \notin DOMAIN rxBuffer[e]
        /\ \A m \in pkt.pid + 1 .. gap - 1 : m \in DOMAIN rxBuffer[e]
        /\ nextRxPID' = [nextRxPID EXCEPT ![e] = gap]
        /\ DOMAIN rxBuffer'[e] = {p \in DOMAIN rxBuffer[e] : gap < p}
        /\ \A p \in DOMAIN rxBuffer'[e] : rxBuffer'[e][p] = rxBuffer[e][p]
        /\ \A x \in Ends : x # e => rxBuffer'[x] = rxBuffer[x]
        /\ readBuf' = [readBuf EXCEPT ![e] = @ \o run]
        /\ stream' = [stream EXCEPT ![e] = @ \o run]
    BY <1>7, DeliverInOrderFacts, Zenon
  <2>2. /\ run \in Seq(Body)
        /\ Len(run) = gap - 1 - Len(stream[e])
        /\ \A j \in 1 .. Len(run) : run[j] = Len(stream[e]) + j
    BY <1>7, RunFacts, Zenon
  <2> HIDE DEF gap, run
  <2>3. nextRxPID'[e] = gap
    BY <1>1, <2>1, Zenon
  <2>4. \A p \in Nat : Received(e, p)' <=> Received(e, p) \/ p = pkt.pid
    <3> TAKE p \in Nat
    <3>0. gap \in Nat /\ pkt.pid \in Nat /\ pkt.pid < gap
      BY <1>1, <2>1, Zenon
    <3>1. Received(e, p)' <=> p < gap \/ (p \in DOMAIN rxBuffer[e] /\ gap < p)
      BY <2>1, <2>3 DEF Received
    <3>2. Received(e, p) <=> p < pkt.pid \/ p \in DOMAIN rxBuffer[e]
      BY <1>7 DEF Received
    <3>3. p < gap => p < pkt.pid \/ p = pkt.pid \/ p \in pkt.pid + 1 .. gap - 1
      BY <3>0
    <3>4. p \in DOMAIN rxBuffer[e] => p < gap \/ gap < p
      BY <2>1
    <3>5. p < pkt.pid \/ p = pkt.pid => p < gap
      BY <3>0
    <3> QED BY <2>1, <3>1, <3>2, <3>3, <3>4, <3>5, Zenon
  <2>5. \A p \in DOMAIN rxBuffer'[e] : rxBuffer'[e][p] = p
    BY <1>2, <2>1 DEF ReceiverInv
  <2>6. (\A i \in DOMAIN pendingAcks[e] : Received(e, pendingAcks[e][i]))'
    BY <1>1, <1>7, <2>4, AddAckReceived, Zenon
  <2> DEFINE ls == Len(stream[e])
             lb == Len(readBuf[e])
             lr == Len(run)
  <2>7. /\ stream[e] \in Seq(Body) /\ readBuf[e] \in Seq(Body)
        /\ ls \in Nat /\ lb \in Nat /\ lr \in Nat
        /\ stream'[e] = stream[e] \o run /\ readBuf'[e] = readBuf[e] \o run
    <3>1. stream[e] \in Seq(Body) /\ readBuf[e] \in Seq(Body) /\ run \in Seq(Body)
      BY <1>1, <2>2, Zenon
    <3>2. ls \in Nat /\ lb \in Nat /\ lr \in Nat
      BY <3>1, LenFacts, Zenon
    <3>3. stream'[e] = stream[e] \o run /\ readBuf'[e] = readBuf[e] \o run
      BY <1>1, <2>1, Zenon
    <3> QED BY <3>1, <3>2, <3>3
  <2>8. /\ ls = Chunks(nextRxPID[e]) /\ lb <= ls
        /\ \A i \in 1 .. ls : stream[e][i] = i
        /\ \A i \in 1 .. lb : readBuf[e][i] = ls - lb + i
        /\ lr = gap - 1 - ls
        /\ \A i \in 1 .. lr : run[i] = ls + i
    BY <1>2, <2>2, Zenon DEF ReceiverInv
  <2>9. /\ Len(stream[e] \o run) = ls + lr
        /\ \A i \in 1 .. ls + lr :
             (stream[e] \o run)[i] = IF i <= ls THEN stream[e][i] ELSE run[i - ls]
    BY <2>2, <2>7, JoinFacts, Zenon
  <2>10. /\ Len(readBuf[e] \o run) = lb + lr
         /\ \A i \in 1 .. lb + lr :
              (readBuf[e] \o run)[i] = IF i <= lb THEN readBuf[e][i] ELSE run[i - lb]
    BY <2>2, <2>7, JoinFacts, Zenon
  <2> HIDE DEF ls, lb, lr
  <2>11. ls + lr = gap - 1 /\ gap - 1 = Chunks(nextRxPID'[e])
    <3>0. gap \in Nat /\ pkt.pid \in Nat /\ pkt.pid < gap
      BY <1>1, <2>1, Zenon
    <3>1. gap \in Nat /\ gap # 0
      BY <3>0
    <3>2. Chunks(gap) = gap - 1
      BY <3>1 DEF Chunks
    <3>3. lr = gap - 1 - ls
      BY <2>8
    <3>4. ls + lr = gap - 1
      BY <2>7, <3>1, <3>3
    <3> QED BY <2>3, <3>2, <3>4
  <2>12. \A i \in 1 .. ls + lr : (stream[e] \o run)[i] = i
    <3> TAKE i \in 1 .. ls + lr
    <3>1. CASE i <= ls
      <4>1. i \in 1 .. ls
        BY <2>7, <3>1
      <4>2. stream[e][i] = i
        BY <2>8, <4>1
      <4> QED BY <2>9, <3>1, <4>2
    <3>2. CASE ~(i <= ls)
      <4>1. i - ls \in 1 .. lr /\ ls + (i - ls) = i
        BY <2>7, <3>2
      <4>2. run[i - ls] = ls + (i - ls)
        BY <2>8, <4>1
      <4> QED BY <2>9, <3>2, <4>1, <4>2
    <3> QED BY <3>1, <3>2, Zenon
  <2>13. \A i \in 1 .. lb + lr :
           (readBuf[e] \o run)[i] = (ls + lr) - (lb + lr) + i
    <3> TAKE i \in 1 .. lb + lr
    <3>0. (ls + lr) - (lb + lr) + i = ls - lb + i
      BY <2>7
    <3>1. CASE i <= lb
      <4>1. i \in 1 .. lb
        BY <2>7, <3>1
      <4>2. readBuf[e][i] = ls - lb + i
        BY <2>8, <4>1
      <4> QED BY <2>10, <3>0, <3>1, <4>2
    <3>2. CASE ~(i <= lb)
      <4>1. i - lb \in 1 .. lr /\ ls + (i - lb) = ls - lb + i
        BY <2>7, <3>2
      <4>2. run[i - lb] = ls + (i - lb)
        BY <2>8, <4>1
      <4> QED BY <2>10, <3>0, <3>2, <4>1, <4>2
    <3> QED BY <3>1, <3>2, Zenon
  <2>14. /\ Len(stream'[e]) = Chunks(nextRxPID'[e])
         /\ \A i \in 1 .. Len(stream'[e]) : stream'[e][i] = i
         /\ Len(readBuf'[e]) <= Len(stream'[e])
         /\ \A i \in 1 .. Len(readBuf'[e]) :
              readBuf'[e][i] = Len(stream'[e]) - Len(readBuf'[e]) + i
    <3>1. lb + lr <= ls + lr
      BY <2>7, <2>8
    <3> QED BY <2>7, <2>9, <2>10, <2>11, <2>12, <2>13, <3>1, Zenon
  <2>15. \A x \in Ends : x # e => /\ nextRxPID'[x] = nextRxPID[x]
                                  /\ rxBuffer'[x] = rxBuffer[x]
                                  /\ stream'[x] = stream[x]
                                  /\ readBuf'[x] = readBuf[x]
                                  /\ pendingAcks'[x] = pendingAcks[x]
    BY <1>1, <1>3, <1>7, <2>1, Zenon
  <2> QED BY <2>4, <2>5, <2>6, <2>14, <2>15, Zenon DEF Absorbed
<1> QED BY <1>4, <1>5, <1>6, <1>7 DEF HandleMessage

=============================================================================
