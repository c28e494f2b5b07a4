------------------------------ MODULE Reliable ------------------------------
(***************************************************************************)
(* Two reliability layers (internal/reliable.Layer) joined by an           *)
(* unreliable network, the way the client's Layer faces the server's and   *)
(* the way the package's own tests wire two Layers together.               *)
(*                                                                         *)
(* Every method that takes Layer.mu is one action, because it holds the    *)
(* lock from its first to its last statement.  The exception is Write and  *)
(* Read, which release the lock in Cond.Wait: a parked call is a state of  *)
(* its own, and only a Broadcast lets it look at its condition again.      *)
(*                                                                         *)
(* A definition whose name ends in an underscore and a word is a faulty     *)
(* variant of the one that follows it, kept to show which property would   *)
(* notice that fault.  No action uses one.                                 *)
(*                                                                         *)
(* Time is abstracted: which packets' backoff has elapsed at a Tick, and   *)
(* whether the ack grace period has, are chosen by the environment.        *)
(***************************************************************************)
EXTENDS Integers, Sequences, FiniteSets, Functions

CONSTANTS
  MaxQueueSize,            (* cap of txQueue, RELIABLE_CAPACITY (12)       *)
  MaxRxBuffer,             (* width of the receive window (64)             *)
  MaxAcksPerPacket,        (* acks one packet can carry (8)                *)
  MaxRetransmits,          (* attempts after which Tick gives up (8)       *)
  FastRetransmitThreshold, (* higher acks that stand for a loss (3)        *)
  OutboundBuffer,          (* capacity of the outbound channel (64)        *)
  MaxPackets,              (* bound: packets each end may queue            *)
  NetCap,                  (* bound: packets in flight towards one end     *)
  MaxStray,                (* bound: packets of a foreign session          *)
  Readers,                 (* bound: ends whose TLS reads                  *)
  Closers                  (* bound: ends that may be closed               *)

Ends == {"client", "server"}
NoSid == "none"      (* remoteKnown = false                                *)
StraySid == "stray"  (* the session-id of somebody who is not the peer     *)

Peer(e) == IF e = "client" THEN "server" ELSE "client"

ASSUME ConstantsAssumption ==
  /\ MaxQueueSize \in Nat \ {0}
  /\ MaxRxBuffer \in Nat \ {0}
  /\ MaxAcksPerPacket \in Nat \ {0}
  /\ MaxRetransmits \in Nat \ {0}
  /\ FastRetransmitThreshold \in Nat \ {0}
  /\ OutboundBuffer \in Nat
  /\ MaxQueueSize < OutboundBuffer
  /\ MaxPackets \in [Ends -> Nat]
  /\ NetCap \in Nat
  /\ MaxStray \in Nat
  /\ Readers \subseteq Ends
  /\ Closers \subseteq Ends

VARIABLES
  remote,       (* remote[e]: latched session-id of the peer, or NoSid     *)
  nextTxPID,    (* next message packet-id to assign                        *)
  txQueue,      (* unacknowledged packets: pid -> pending packet           *)
  nextRxPID,    (* next message packet-id to deliver                       *)
  rxBuffer,     (* out-of-order packets: pid -> body                       *)
  pendingAcks,  (* FIFO of packet-ids to acknowledge                       *)
  ackTimer,     (* ackPendingSince is set                                  *)
  readBuf,      (* bodies delivered and not yet read by TLS                *)
  readClosed,
  closed,
  outbound,     (* the outbound channel                                    *)
  writer,       (* the Write call in progress, if any                      *)
  reader,       (* the Read call in progress, if any                       *)
  ticking,      (* the layer's tickLoop has not returned                   *)
  net,          (* packets in flight towards e                             *)
  written,      (* history: chunks e has enqueued                          *)
  stream,       (* history: bodies appended to e's readBuf                 *)
  strays        (* foreign packets injected so far                         *)

layerVars == <<remote, nextTxPID, txQueue, nextRxPID, rxBuffer, pendingAcks,
               ackTimer, readBuf, readClosed, closed, outbound, writer, reader,
               ticking, written, stream>>
vars == <<layerVars, net, strays>>

-----------------------------------------------------------------------------
(* Packets.  A body is the number of the chunk it carries; resets and acks *)
(* have the empty body.                                                    *)

Empty == 0
Body == Nat
PID == Nat
Opcode == {"RESET", "CONTROL", "ACK"}

Packet == [op : Opcode, sid : Ends \cup {StraySid}, pid : PID, body : Body,
           acks : Seq(PID)]

Pending == [op : {"RESET", "CONTROL"}, body : Body, attempts : Nat \ {0},
            higherACKs : Nat]

min(a, b) == IF a < b THEN a ELSE b

(* The map f with f[x] = v. *)
Put(f, x, v) == [y \in DOMAIN f \cup {x} |-> IF y = x THEN v ELSE f[y]]

-----------------------------------------------------------------------------
(* A new layer; rekey seeds the peer's session-id before the first packet  *)
(* (SetRemoteSessionID), a first connection learns it from the wire.       *)

Init ==
  /\ \E seeded \in BOOLEAN :
       remote = [e \in Ends |-> IF seeded THEN Peer(e) ELSE NoSid]
  /\ nextTxPID = [e \in Ends |-> 0]
  /\ txQueue = [e \in Ends |-> << >>]
  /\ nextRxPID = [e \in Ends |-> 0]
  /\ rxBuffer = [e \in Ends |-> << >>]
  /\ pendingAcks = [e \in Ends |-> << >>]
  /\ ackTimer = [e \in Ends |-> FALSE]
  /\ readBuf = [e \in Ends |-> << >>]
  /\ readClosed = [e \in Ends |-> FALSE]
  /\ closed = [e \in Ends |-> FALSE]
  /\ outbound = [e \in Ends |-> << >>]
  /\ writer = [e \in Ends |-> [pc |-> "idle", left |-> 0]]
  /\ reader = [e \in Ends |-> "idle"]
  /\ ticking = [e \in Ends |-> TRUE]
  /\ net = [e \in Ends |-> {}]
  /\ written = [e \in Ends |-> 0]
  /\ stream = [e \in Ends |-> << >>]
  /\ strays = 0

(* A Write between two chunks still holds Layer.mu: nothing else that      *)
(* needs the lock runs at e, only the channel and the network move.        *)
Unlocked(e) == writer[e].pc # "run"

-----------------------------------------------------------------------------
(* Emission.  items is the sequence of control packets pushed, in order;   *)
(* the first ones find room in the outbound channel, each takes up to      *)
(* MaxAcksPerPacket pending acks along, and the rest leaves the acks where *)
(* they were (emitLocked drains them and pushes them back).                *)

drainAcks(acks, i) == SubSeq(acks, MaxAcksPerPacket * (i - 1) + 1,
                             min(MaxAcksPerPacket * i, Len(acks)))

emitLocked(e, items) ==
  LET k == min(Len(items), OutboundBuffer - Len(outbound[e]))
      left == SubSeq(pendingAcks[e], MaxAcksPerPacket * k + 1,
                     Len(pendingAcks[e]))
  IN [out |-> outbound[e] \o
                [i \in 1..k |-> [op |-> items[i].op, sid |-> e,
                                 pid |-> items[i].pid, body |-> items[i].body,
                                 acks |-> drainAcks(pendingAcks[e], i)]],
      acks |-> left,
      timer |-> left # << >> /\ (ackTimer[e] \/ k < Len(items))]

(* The P_ACK_V1 that Tick sends last, from what emitLocked left. *)
emitStandaloneAckLocked(e, st) ==
  LET left == SubSeq(st.acks, MaxAcksPerPacket + 1, Len(st.acks))
  IN IF st.acks = << >> \/ remote[e] = NoSid THEN st
     ELSE IF Len(st.out) >= OutboundBuffer THEN [st EXCEPT !.timer = TRUE]
     ELSE [out |-> Append(st.out, [op |-> "ACK", sid |-> e, pid |-> 0,
                                   body |-> Empty,
                                   acks |-> drainAcks(st.acks, 1)]),
           acks |-> left,
           timer |-> st.timer /\ left # << >>]

Emit(e, st) ==
  /\ outbound' = [outbound EXCEPT ![e] = st.out]
  /\ pendingAcks' = [pendingAcks EXCEPT ![e] = st.acks]
  /\ ackTimer' = [ackTimer EXCEPT ![e] = st.timer]

enqueueAndEmitLocked(e, op, body) ==
  /\ nextTxPID' = [nextTxPID EXCEPT ![e] = @ + 1]
  /\ txQueue' = [txQueue EXCEPT ![e] =
       Put(@, nextTxPID[e], [op |-> op, body |-> body, attempts |-> 1,
                             higherACKs |-> 0])]
  /\ Emit(e, emitLocked(e, <<[op |-> op, pid |-> nextTxPID[e], body |-> body]>>))

(* The first packet of a layer, before TLS writes anything. *)
SendHardReset(e) ==
  /\ Unlocked(e)
  /\ ~closed[e]
  /\ nextTxPID[e] = 0 /\ MaxPackets[e] > 0
  /\ enqueueAndEmitLocked(e, "RESET", Empty)
  /\ UNCHANGED <<remote, nextRxPID, rxBuffer, readBuf, readClosed, closed,
                 writer, reader, ticking, net, written, stream, strays>>

-----------------------------------------------------------------------------
(* Write.  The writer is idle, parked on remoteCond ("remote") or on       *)
(* queueCond ("queue"), woken but without the lock ("woken"), or between   *)
(* two chunks with the lock ("run"); left counts the chunks to go.         *)

WriterAt(e, pc, left) == writer' = [writer EXCEPT ![e] =
                                      [pc |-> pc, left |-> left]]

unchangedByPark == <<remote, nextTxPID, txQueue, nextRxPID, rxBuffer,
                     pendingAcks, ackTimer, readBuf, readClosed, closed,
                     outbound, reader, ticking, net, written, stream, strays>>

(* One round of the chunk loop. *)
QueueFull(e) == Cardinality(DOMAIN txQueue[e]) >= MaxQueueSize

SendChunk(e, left) ==
  /\ written' = [written EXCEPT ![e] = @ + 1]
  /\ enqueueAndEmitLocked(e, "CONTROL", written[e] + 1)
  /\ IF left = 1 THEN WriterAt(e, "idle", 0) ELSE WriterAt(e, "run", left - 1)
  /\ UNCHANGED <<remote, nextRxPID, rxBuffer, readBuf, readClosed, closed,
                 reader, ticking, net, stream, strays>>

WriteChunk_NoRecheck(e, left) ==
  \/ /\ QueueFull(e)
     /\ IF closed[e] THEN WriterAt(e, "idle", 0) ELSE WriterAt(e, "queue", left)
     /\ UNCHANGED unchangedByPark
  \/ ~QueueFull(e) /\ SendChunk(e, left)
WriteChunk(e, left) ==
  \/ closed[e] /\ WriterAt(e, "idle", 0) /\ UNCHANGED unchangedByPark
  \/ /\ ~closed[e] /\ QueueFull(e)
     /\ WriterAt(e, "queue", left)
     /\ UNCHANGED unchangedByPark
  \/ ~closed[e] /\ ~QueueFull(e) /\ SendChunk(e, left)

(* From the top: wait for the peer's session-id, then send. *)
WriteFrom(e, left) ==
  \/ /\ remote[e] = NoSid /\ ~closed[e] /\ ~readClosed[e]
     /\ WriterAt(e, "remote", left)
     /\ UNCHANGED unchangedByPark
  \/ /\ remote[e] = NoSid /\ ~closed[e] /\ readClosed[e]
     /\ WriterAt(e, "idle", 0)
     /\ UNCHANGED unchangedByPark
  \/ /\ remote[e] # NoSid \/ closed[e]
     /\ WriteChunk(e, left)

(* TLS calls Write with a buffer of n chunks, after the reset was queued. *)
Write(e, n) ==
  /\ writer[e].pc = "idle"
  /\ nextTxPID[e] > 0
  /\ nextTxPID[e] + n <= MaxPackets[e]
  /\ WriteFrom(e, n)

(* A woken Write has the lock again.  One woken from queueCond knows the   *)
(* peer, so that the remoteCond loop it does not return to would pass.     *)
WriteResumed(e) == writer[e].pc = "woken" /\ WriteFrom(e, writer[e].left)

WriteNext(e) == writer[e].pc = "run" /\ WriteChunk(e, writer[e].left)

(* writer' when the conditions in conds are broadcast at e. *)
WakeWriter(e, conds) ==
  writer' = [writer EXCEPT ![e].pc = IF @ \in conds THEN "woken" ELSE @]

WakeReader(e) ==
  reader' = [reader EXCEPT ![e] = IF @ = "parked" THEN "woken" ELSE @]

-----------------------------------------------------------------------------
(* Read: TLS takes a non-empty prefix of readBuf, fails, or parks. *)

Read(e) ==
  /\ e \in Readers
  /\ Unlocked(e)
  /\ reader[e] \in {"idle", "woken"}
  /\ \/ /\ readBuf[e] # << >>
        /\ \E n \in 1..Len(readBuf[e]) :
             readBuf' = [readBuf EXCEPT ![e] = SubSeq(@, n + 1, Len(@))]
        /\ reader' = [reader EXCEPT ![e] = "idle"]
     \/ /\ readBuf[e] = << >>
        /\ reader' = [reader EXCEPT ![e] =
                        IF closed[e] \/ readClosed[e] THEN "idle" ELSE "parked"]
        /\ UNCHANGED readBuf
  /\ UNCHANGED <<remote, nextTxPID, txQueue, nextRxPID, rxBuffer, pendingAcks,
                 ackTimer, readClosed, closed, outbound, writer, ticking, net,
                 written, stream, strays>>

CloseRead_ReadersOnly(e) ==
  /\ e \in Closers
  /\ Unlocked(e)
  /\ ~readClosed[e]
  /\ readClosed' = [readClosed EXCEPT ![e] = TRUE]
  /\ WakeReader(e)
  /\ UNCHANGED <<remote, nextTxPID, txQueue, nextRxPID, rxBuffer, pendingAcks,
                 ackTimer, readBuf, closed, outbound, writer, ticking, net,
                 written, stream, strays>>
CloseRead(e) ==
  /\ e \in Closers
  /\ Unlocked(e)
  /\ ~readClosed[e]
  /\ readClosed' = [readClosed EXCEPT ![e] = TRUE]
  /\ WakeReader(e)
  /\ WakeWriter(e, {"remote"})
  /\ UNCHANGED <<remote, nextTxPID, txQueue, nextRxPID, rxBuffer, pendingAcks,
                 ackTimer, readBuf, closed, outbound, ticking, net, written,
                 stream, strays>>

(* The channel is closed too: what it holds is still drained. *)
Close(e) ==
  /\ e \in Closers
  /\ Unlocked(e)
  /\ ~closed[e]
  /\ closed' = [closed EXCEPT ![e] = TRUE]
  /\ readClosed' = [readClosed EXCEPT ![e] = TRUE]
  /\ WakeReader(e)
  /\ WakeWriter(e, {"remote", "queue"})
  /\ UNCHANGED <<remote, nextTxPID, txQueue, nextRxPID, rxBuffer, pendingAcks,
                 ackTimer, readBuf, outbound, ticking, net, written, stream,
                 strays>>

-----------------------------------------------------------------------------
(* HandleInbound *)

(* Acknowledged packets leave the queue; each ack credits the packets      *)
(* below it that stay.  The credit saturates at the threshold, the only    *)
(* value it is compared with.                                              *)
HandleAcks(q, acks) ==
  [p \in DOMAIN q \ Range(acks) |->
     [q[p] EXCEPT !.higherACKs =
        min(@ + Cardinality({i \in DOMAIN acks : p < acks[i]}),
            FastRetransmitThreshold)]]

addPendingAckLocked(e, pid) ==
  /\ pendingAcks' = [pendingAcks EXCEPT ![e] =
                       IF pid \in Range(@) THEN @ ELSE Append(@, pid)]
  /\ ackTimer' = [ackTimer EXCEPT ![e] =
                    @ \/ pid \notin Range(pendingAcks[e])]

(* The first packet-id after pid that is not buffered; every buffered one  *)
(* lies less than MaxRxBuffer above pid.                                   *)
NextGap(buf, pid) ==
  CHOOSE n \in pid + 1 .. pid + MaxRxBuffer :
    /\ n \notin DOMAIN buf
    /\ \A m \in pid + 1 .. n - 1 : m \in DOMAIN buf

(* The in-order packet and the contiguous buffered ones.  appendReadLocked *)
(* skips an empty body; only a reset has one, and it comes first.          *)
Gap(e, pkt) == NextGap(rxBuffer[e], pkt.pid)
Contiguous(e, pkt) ==
  [i \in 1 .. Gap(e, pkt) - pkt.pid - 1 |-> rxBuffer[e][pkt.pid + i]]
Run(e, pkt) ==
  IF pkt.body = Empty THEN Contiguous(e, pkt) ELSE <<pkt.body>> \o Contiguous(e, pkt)

DeliverInOrder(e, pkt) ==
  /\ nextRxPID' = [nextRxPID EXCEPT ![e] = Gap(e, pkt)]
  /\ rxBuffer' = [rxBuffer EXCEPT ![e] =
                    Restrict(@, DOMAIN @ \ (pkt.pid .. Gap(e, pkt) - 1))]
  /\ readBuf' = [readBuf EXCEPT ![e] = @ \o Run(e, pkt)]
  /\ stream' = [stream EXCEPT ![e] = @ \o Run(e, pkt)]
  /\ IF Run(e, pkt) = << >> THEN UNCHANGED reader ELSE WakeReader(e)

(* Where an arriving message falls: delivered or buffered already, next,   *)
(* inside the receive window, or beyond it.                                *)
Duplicate(e, pid) == pid < nextRxPID[e] \/ pid \in DOMAIN rxBuffer[e]
Beyond(e, pid) == pid - nextRxPID[e] >= MaxRxBuffer

(* A future packet waits in the buffer for its predecessors. *)
BufferFuture_AtOnce(e, pkt) ==
  /\ nextRxPID' = [nextRxPID EXCEPT ![e] = pkt.pid + 1]
  /\ readBuf' = [readBuf EXCEPT ![e] = Append(@, pkt.body)]
  /\ stream' = [stream EXCEPT ![e] = Append(@, pkt.body)]
  /\ addPendingAckLocked(e, pkt.pid)
  /\ UNCHANGED <<rxBuffer, reader>>
BufferFuture(e, pkt) ==
  /\ rxBuffer' = [rxBuffer EXCEPT ![e] = Put(@, pkt.pid, pkt.body)]
  /\ addPendingAckLocked(e, pkt.pid)
  /\ UNCHANGED <<nextRxPID, readBuf, stream, reader>>

(* A packet beyond the window is not acknowledged either, so that the peer *)
(* keeps sending it.                                                       *)
DropBeyond_Acked(e, pkt) ==
  /\ addPendingAckLocked(e, pkt.pid)
  /\ UNCHANGED <<nextRxPID, rxBuffer, readBuf, stream, reader>>
DropBeyond(e, pkt) ==
  UNCHANGED <<nextRxPID, rxBuffer, readBuf, stream, reader, pendingAcks, ackTimer>>

(* An old packet is acknowledged again: the first ack may have been lost.  *)
HandleMessage(e, pkt) ==
  \/ /\ Duplicate(e, pkt.pid)
     /\ addPendingAckLocked(e, pkt.pid)
     /\ UNCHANGED <<nextRxPID, rxBuffer, readBuf, stream, reader>>
  \/ /\ pkt.pid = nextRxPID[e]
     /\ DeliverInOrder(e, pkt)
     /\ addPendingAckLocked(e, pkt.pid)
  \/ /\ pkt.pid > nextRxPID[e] /\ ~Duplicate(e, pkt.pid) /\ ~Beyond(e, pkt.pid)
     /\ BufferFuture(e, pkt)
  \/ Beyond(e, pkt.pid) /\ DropBeyond(e, pkt)

(* closed, or the packet of another session *)
Rejected(e, pkt) == closed[e] \/ remote[e] \notin {NoSid, pkt.sid}

(* The conditions an accepted packet broadcasts. *)
Broadcasts_NotOnAck(e, pkt) ==
  {c \in {"remote", "queue"} : IF c = "remote" THEN remote[e] = NoSid
                              ELSE pkt.op # "ACK" /\ pkt.acks # << >>}
Broadcasts(e, pkt) ==
  {c \in {"remote", "queue"} : IF c = "remote" THEN remote[e] = NoSid
                              ELSE pkt.op = "ACK" \/ pkt.acks # << >>}

HandleInbound(e, pkt) ==
  /\ Unlocked(e)
  /\ \/ Rejected(e, pkt) /\ UNCHANGED layerVars
     \/ /\ ~Rejected(e, pkt)
        /\ remote' = [remote EXCEPT ![e] = pkt.sid]
        /\ txQueue' = [txQueue EXCEPT ![e] = HandleAcks(@, pkt.acks)]
        /\ WakeWriter(e, Broadcasts(e, pkt))
        /\ IF pkt.op = "ACK"
           THEN UNCHANGED <<nextRxPID, rxBuffer, readBuf, stream, reader,
                            pendingAcks, ackTimer>>
           ELSE HandleMessage(e, pkt)
        /\ UNCHANGED <<nextTxPID, readClosed, closed, outbound, ticking, written>>

(* The network hands over a packet, and may do so again (dup). *)
Deliver(e, pkt, dup) ==
  /\ HandleInbound(e, pkt)
  /\ net' = [net EXCEPT ![e] = IF dup THEN @ ELSE @ \ {pkt}]
  /\ UNCHANGED strays

(* A reset that carries somebody else's session-id: an earlier connection  *)
(* of the same address, a scanner, another server.                         *)
StrayPacket == [op |-> "RESET", sid |-> StraySid, pid |-> 0, body |-> Empty,
                acks |-> << >>]
Stray(e) ==
  /\ strays < MaxStray
  /\ strays' = strays + 1
  /\ HandleInbound(e, StrayPacket)
  /\ UNCHANGED net

-----------------------------------------------------------------------------
(* Tick.  due are the packets whose backoff has elapsed, flush says that   *)
(* the ack grace period has, order is the order in which the map is walked *)
(* as far as it was walked: a packet out of attempts ends the walk.  The   *)
(* writeLoop may empty the channel during the walk; because the walk can   *)
(* never fill it by itself (MaxQueueSize < OutboundBuffer) and its order is *)
(* arbitrary, that is the same as emptying it before the walk.             *)

Walks(S) == UNION {Injection(1 .. k, S) : k \in 0 .. Cardinality(S)}

(* A packet after one more transmission. *)
Resent_NotCounted(pkt) == [pkt EXCEPT !.higherACKs = 0]
Resent(pkt) == [pkt EXCEPT !.attempts = @ + 1, !.higherACKs = 0]

AckNow(walk, flush) ==
  /\ walk.acks # << >>
  /\ Len(walk.acks) >= MaxAcksPerPacket \/ (walk.timer /\ flush)

Fast(e, p) == txQueue[e][p].higherACKs >= FastRetransmitThreshold
Spent(e, p) == txQueue[e][p].attempts >= MaxRetransmits

Tick(e, due, order, flush) ==
  LET visited == due \cup {p \in DOMAIN txQueue[e] : Fast(e, p)}
      fatal == \E p \in visited : Spent(e, p)
      sent == Range(order)
      walk == emitLocked(e, [i \in DOMAIN order |->
                [op |-> txQueue[e][order[i]].op, pid |-> order[i],
                 body |-> txQueue[e][order[i]].body]])
  IN /\ Unlocked(e)
     /\ ticking[e]
     /\ ~closed[e]
     /\ due \subseteq DOMAIN txQueue[e]
     /\ sent \subseteq {p \in visited : ~Spent(e, p)}
     /\ ~fatal => sent = visited
     /\ txQueue' = [txQueue EXCEPT ![e] =
          [p \in DOMAIN @ |-> IF p \in sent THEN Resent(@[p]) ELSE @[p]]]
     /\ ticking' = [ticking EXCEPT ![e] = ~fatal]
     /\ Emit(e, IF ~fatal /\ AckNow(walk, flush)
                THEN emitStandaloneAckLocked(e, walk) ELSE walk)
     /\ UNCHANGED <<remote, nextTxPID, nextRxPID, rxBuffer, readBuf, readClosed,
                    closed, writer, reader, net, written, stream, strays>>

(* Tick of a closed layer fails, and the tickLoop returns. *)
TickClosed(e) ==
  /\ Unlocked(e) /\ ticking[e] /\ closed[e]
  /\ ticking' = [ticking EXCEPT ![e] = FALSE]
  /\ UNCHANGED <<remote, nextTxPID, txQueue, nextRxPID, rxBuffer, pendingAcks,
                 ackTimer, readBuf, readClosed, closed, outbound, writer, reader,
                 net, written, stream, strays>>

-----------------------------------------------------------------------------
(* The writeLoop takes the next packet and writes it to the transport; it  *)
(* reaches the peer's network queue, or the write fails or it is lost.     *)

Transmit(e, lost) ==
  /\ outbound[e] # << >>
  /\ outbound' = [outbound EXCEPT ![e] = Tail(@)]
  /\ lost \/ Cardinality(net[Peer(e)]) < NetCap
  /\ net' = [net EXCEPT ![Peer(e)] =
               IF lost THEN @ ELSE @ \cup {Head(outbound[e])}]
  /\ UNCHANGED <<remote, nextTxPID, txQueue, nextRxPID, rxBuffer, pendingAcks,
                 ackTimer, readBuf, readClosed, closed, writer, reader, ticking,
                 written, stream, strays>>

TickAny(e) ==
  \E due \in SUBSET DOMAIN txQueue[e], flush \in BOOLEAN :
    \E order \in Walks(DOMAIN txQueue[e]) :
      Tick(e, due, order, flush)

Next ==
  \E e \in Ends :
    \/ SendHardReset(e)
    \/ \E n \in 1..MaxPackets[e] : Write(e, n)
    \/ WriteResumed(e)
    \/ WriteNext(e)
    \/ Read(e)
    \/ CloseRead(e)
    \/ Close(e)
    \/ \E pkt \in net[e], dup \in BOOLEAN : Deliver(e, pkt, dup)
    \/ Stray(e)
    \/ TickAny(e)
    \/ TickClosed(e)
    \/ \E lost \in BOOLEAN : Transmit(e, lost)

Spec == Init /\ [][Next]_vars

(* What the scheduling guarantees: a layer's tickLoop runs every 10 ms, so *)
(* that every packet's backoff and every ack's grace period elapse at some *)
(* tick; its writeLoop drains the channel (the packet may be lost); a      *)
(* goroutine that was woken, or that holds the lock, runs on.  Nothing is  *)
(* assumed of the network, the peer's traffic, TLS or the closers.         *)
TickWith(e, p) ==
  \E due \in SUBSET DOMAIN txQueue[e], flush \in BOOLEAN :
    \E order \in Walks(DOMAIN txQueue[e]) :
      p \in due /\ Tick(e, due, order, flush)

TickFlush(e) ==
  \E due \in SUBSET DOMAIN txQueue[e] :
    \E order \in Walks(DOMAIN txQueue[e]) :
      Tick(e, due, order, TRUE)

Fairness ==
  \A e \in Ends :
    /\ \A p \in 0 .. MaxPackets[e] - 1 : WF_vars(TickWith(e, p))
    /\ WF_vars(TickFlush(e))
    /\ WF_vars(\E lost \in BOOLEAN : Transmit(e, lost))
    /\ WF_vars(WriteResumed(e))
    /\ WF_vars(WriteNext(e))
    /\ WF_vars(reader[e] = "woken" /\ Read(e))

FairSpec == Spec /\ Fairness

-----------------------------------------------------------------------------
(* Properties *)

(* Every variable stays in its domain, and what the writer has left agrees *)
(* with where it is.                                                       *)
TypeOK ==
  /\ remote \in [Ends -> Ends \cup {NoSid, StraySid}]
  /\ nextTxPID \in [Ends -> Nat]
  /\ DOMAIN txQueue = Ends /\ DOMAIN rxBuffer = Ends
  /\ \A e \in Ends : /\ txQueue[e] \in [DOMAIN txQueue[e] -> Pending]
                     /\ DOMAIN txQueue[e] \subseteq PID
                     /\ rxBuffer[e] \in [DOMAIN rxBuffer[e] -> Body]
                     /\ DOMAIN rxBuffer[e] \subseteq PID
  /\ nextRxPID \in [Ends -> Nat]
  /\ pendingAcks \in [Ends -> Seq(PID)]
  /\ ackTimer \in [Ends -> BOOLEAN]
  /\ readBuf \in [Ends -> Seq(Body)]
  /\ readClosed \in [Ends -> BOOLEAN]
  /\ closed \in [Ends -> BOOLEAN]
  /\ outbound \in [Ends -> Seq(Packet)]
  /\ writer \in [Ends -> [pc : {"idle", "remote", "queue", "woken", "run"},
                          left : Nat]]
  /\ \A e \in Ends : writer[e].pc = "idle" <=> writer[e].left = 0
  /\ reader \in [Ends -> {"idle", "parked", "woken"}]
  /\ ticking \in [Ends -> BOOLEAN]
  /\ net \in [Ends -> SUBSET Packet]
  /\ written \in [Ends -> Nat]
  /\ stream \in [Ends -> Seq(Body)]
  /\ strays \in Nat

(* TLS at e sees the peer's chunks once each and in the order written,     *)
(* whatever the network lost, duplicated or reordered, and what it has not *)
(* read yet is the end of that stream (HandleInbound, appendReadLocked).   *)
InOrderDelivery ==
  \A e \in Ends :
    /\ stream[e] = [i \in 1..Len(stream[e]) |-> i]
    /\ Len(stream[e]) <= written[Peer(e)]
    /\ Len(readBuf[e]) <= Len(stream[e])
    /\ readBuf[e] = SubSeq(stream[e], Len(stream[e]) - Len(readBuf[e]) + 1,
                           Len(stream[e]))

Received(e, p) == p < nextRxPID[e] \/ p \in DOMAIN rxBuffer[e]

(* Why delivery works, an inductive invariant.  A packet-id stands for its *)
(* chunk everywhere: in the queue, in the receive buffer, in flight; what  *)
(* e's packets say of e's own state (the acks they carry) stays true while *)
(* they are delayed, because what was received stays received.  A layer    *)
(* that latched a foreign session has at most that session's reset.        *)
Chunks(packets) == IF packets = 0 THEN 0 ELSE packets - 1

Sound(e, pkt) ==
  /\ pkt.sid = e
  /\ pkt.op # "ACK" => pkt.pid < nextTxPID[e] /\ pkt.body = pkt.pid
  /\ \A i \in DOMAIN pkt.acks : Received(e, pkt.acks[i])

SenderInv(e) ==
  /\ written[e] = Chunks(nextTxPID[e])
  /\ writer[e].pc # "idle" => nextTxPID[e] > 0
  /\ \A p \in DOMAIN txQueue[e] : p < nextTxPID[e] /\ txQueue[e][p].body = p
  /\ \A p \in 0 .. nextTxPID[e] - 1 :
       p \in DOMAIN txQueue[e] \/ Received(Peer(e), p)

ReceiverInv(e) ==
  /\ remote[e] \in {NoSid, StraySid, Peer(e)}
  /\ remote[e] # Peer(e) => nextRxPID[e] <= 1 /\ DOMAIN rxBuffer[e] = {}
  /\ remote[e] = NoSid => nextRxPID[e] = 0
  /\ remote[e] # StraySid => nextRxPID[e] <= nextTxPID[Peer(e)]
  /\ \A p \in DOMAIN rxBuffer[e] : p < nextTxPID[Peer(e)] /\ rxBuffer[e][p] = p
  /\ \A i \in DOMAIN pendingAcks[e] : Received(e, pendingAcks[e][i])
  /\ Len(stream[e]) = Chunks(nextRxPID[e])
  /\ \A i \in 1 .. Len(stream[e]) : stream[e][i] = i
  /\ Len(readBuf[e]) <= Len(stream[e])
  /\ \A i \in 1 .. Len(readBuf[e]) :
       readBuf[e][i] = Len(stream[e]) - Len(readBuf[e]) + i

InFlightInv(e) ==
  /\ \A i \in DOMAIN outbound[e] : Sound(e, outbound[e][i])
  /\ \A pkt \in net[Peer(e)] : Sound(e, pkt)

DeliveryInv == \A e \in Ends : SenderInv(e) /\ ReceiverInv(e) /\ InFlightInv(e)

(* A packet leaves txQueue only once the peer has it, delivered or buffered *)
(* (so that the receive buffer can always be completed by retransmission), *)
(* as long as the peer did not latch a foreign session.                    *)
AckedMeansReceived ==
  \A e \in Ends :
    remote[Peer(e)] # StraySid =>
      \A p \in 0 .. nextTxPID[e] - 1 :
        p \in DOMAIN txQueue[e] \/ Received(Peer(e), p)

(* A call parked on a condition variable has nothing to wake up for: no    *)
(* step makes its condition true without broadcasting (Read, Write,        *)
(* HandleInbound, CloseRead, Close).                                       *)
NoLostWakeup ==
  \A e \in Ends :
    /\ writer[e].pc = "remote" => remote[e] = NoSid /\ ~closed[e] /\ ~readClosed[e]
    /\ writer[e].pc = "queue" =>
         Cardinality(DOMAIN txQueue[e]) = MaxQueueSize /\ ~closed[e]
    /\ reader[e] = "parked" => readBuf[e] = << >> /\ ~closed[e] /\ ~readClosed[e]

(* Nothing is sent on the outbound channel after Close has closed it (the  *)
(* program would panic), not even by a Write that was parked meanwhile.    *)
NoSendOnClosed ==
  [][\A e \in Ends : closed[e] => Len(outbound'[e]) <= Len(outbound[e])]_vars

(* The two layers and the network between them implement a pair of         *)
(* streams: every step is a step of ReliableStream or invisible to TLS.    *)
Stream == INSTANCE ReliableStream WITH sent <- written
ImplementsStream == Stream!Spec

(* No packet is retransmitted for ever: it is acknowledged, or Tick gives  *)
(* up with ErrTooManyRetransmits, or the layer is closed.                  *)
RetransmitEnds ==
  \A e \in Ends : \A p \in 0 .. MaxPackets[e] - 1 :
    p \in DOMAIN txQueue[e] ~> \/ p \notin DOMAIN txQueue[e]
                               \/ ~ticking[e]
                               \/ closed[e]

(* A Write that waits for room in the queue returns, unless the tickLoop   *)
(* has given up: then nothing but Close will ever wake it.                 *)
WriteReturns ==
  \A e \in Ends :
    writer[e].pc \in {"queue", "woken", "run"} ~>
      writer[e].pc \in {"idle", "remote"} \/ ~ticking[e]

=============================================================================
