--------------------------- MODULE ReliableTypes ---------------------------
(***************************************************************************)
(* Proofs about the reliability layer, for every value of the constants:   *)
(* facts about its operators, and its types.                               *)
(***************************************************************************)
EXTENDS Reliable, FiniteSetTheorems, TLAPS

(* The provers every leaf may use, and how long the first may take. *)
USE SMTT(20), Zenon

-----------------------------------------------------------------------------
(* Arithmetic, sequences and the two ends. *)

(* A sequence has a length, what is joined is as long as its parts, and    *)
(* equal elements make equal sequences.                                    *)
LEMMA LenFacts ==
  ASSUME NEW S, NEW s \in Seq(S)
  PROVE  Len(s) \in Nat /\ DOMAIN s = 1 .. Len(s)
OBVIOUS

LEMMA JoinFacts ==
  ASSUME NEW S, NEW s \in Seq(S), NEW t \in Seq(S)
  PROVE  /\ s \o t \in Seq(S) /\ Len(s \o t) = Len(s) + Len(t)
         /\ \A i \in 1 .. Len(s) + Len(t) :
              (s \o t)[i] = IF i <= Len(s) THEN s[i] ELSE t[i - Len(s)]
OBVIOUS

LEMMA SameSequence ==
  ASSUME NEW S, NEW s \in Seq(S), NEW t \in Seq(S), Len(s) = Len(t),
         \A i \in 1 .. Len(s) : s[i] = t[i]
  PROVE  s = t
OBVIOUS

(* The peer of an end is the other end. *)
LEMMA PeerFacts ==
  \A e \in Ends : Peer(e) \in Ends /\ Peer(e) # e /\ Peer(Peer(e)) = e
BY DEF Ends, Peer

(* The ends are the only ones, and neither is the marker for no session or *)
(* a foreign one.                                                          *)
LEMMA SidFacts ==
  /\ \A e, x \in Ends : x = e \/ x = Peer(e)
  /\ NoSid \notin Ends /\ StraySid \notin Ends /\ NoSid # StraySid
BY DEF Ends, Peer, NoSid, StraySid

(* The naturals have a well-founded order that contains <. *)
LEMMA NatOrder ==
  \E R : /\ IsWellFoundedOn(R, Nat)
         /\ \A k, m \in Nat : k < m => <<k, m>> \in R
<1>1. \A k, m \in Nat : k < m => <<k, m>> \in OpToRel(<, Nat)
  BY DEF OpToRel
<1> QED BY <1>1, NatLessThanWellFounded, Zenon

(* A non-empty set of naturals has a least element. *)
LEMMA LeastNatural ==
  ASSUME NEW S \in SUBSET Nat, S # {}
  PROVE  \E m \in S : \A k \in S : m <= k
<1>1. PICK R : /\ IsWellFoundedOn(R, Nat)
               /\ \A k, m \in Nat : k < m => <<k, m>> \in R
  BY NatOrder, Zenon
<1>2. IsWellFoundedOn(R, Nat)
  BY <1>1, Zenon
<1>3. S \subseteq Nat
  OBVIOUS
<1>4. PICK m \in S : \A k \in S : ~(<<k, m>> \in R)
  BY <1>2, <1>3, WFMin, Zenon
<1>5. \A k \in S : ~(k < m)
  BY <1>1, <1>3, <1>4, Zenon
<1>6. \A k \in S : m <= k
  BY <1>3, <1>5
<1> QED BY <1>6

(* The drain of the receive buffer stops at the first packet-id that is    *)
(* missing, which exists because every buffered one lies in the window.    *)
LEMMA NextGapFacts ==
  ASSUME NEW buf, NEW pid \in Nat,
         \A p \in DOMAIN buf : p \in pid + 1 .. pid + MaxRxBuffer - 1
  PROVE  /\ NextGap(buf, pid) \in pid + 1 .. pid + MaxRxBuffer
         /\ NextGap(buf, pid) \notin DOMAIN buf
         /\ \A m \in pid + 1 .. NextGap(buf, pid) - 1 : m \in DOMAIN buf
<1> DEFINE S == {n \in pid + 1 .. pid + MaxRxBuffer : n \notin DOMAIN buf}
<1>1. MaxRxBuffer \in Nat \ {0}
  BY ConstantsAssumption
<1>2. pid + MaxRxBuffer \in S
  BY <1>1
<1>3. S \in SUBSET Nat
  BY <1>1
<1>4. PICK g \in S : \A k \in S : g <= k
  BY <1>2, <1>3, LeastNatural, Zenon
<1>5. \A m \in pid + 1 .. g - 1 : m \in DOMAIN buf
  BY <1>1, <1>4
<1>6. \E n \in pid + 1 .. pid + MaxRxBuffer :
        /\ n \notin DOMAIN buf
        /\ \A m \in pid + 1 .. n - 1 : m \in DOMAIN buf
  BY <1>4, <1>5
<1> QED BY <1>6 DEF NextGap

-----------------------------------------------------------------------------
(* Emission *)

(* A subsequence consists of elements of the sequence. *)
LEMMA SubSeqFacts ==
  ASSUME NEW S, NEW s \in Seq(S), NEW m \in Nat \ {0}, NEW n \in Int, n <= Len(s)
  PROVE  /\ SubSeq(s, m, n) \in Seq(S)
         /\ \A j \in DOMAIN SubSeq(s, m, n) :
              \E h \in DOMAIN s : SubSeq(s, m, n)[j] = s[h]
<1>1. /\ Len(s) \in Nat
      /\ DOMAIN s = 1..Len(s)
      /\ \A i \in 1..Len(s) : s[i] \in S
  OBVIOUS
<1>2. \A i \in m..n : s[i] \in S
  BY <1>1
<1>3. /\ SubSeq(s, m, n) \in Seq(S)
      /\ Len(SubSeq(s, m, n)) = IF m <= n THEN n - m + 1 ELSE 0
      /\ \A i \in 1 .. n - m + 1 : SubSeq(s, m, n)[i] = s[m + i - 1]
  BY <1>2
<1>4. DOMAIN SubSeq(s, m, n) = 1 .. Len(SubSeq(s, m, n))
  BY <1>3
<1>5. ASSUME NEW j \in DOMAIN SubSeq(s, m, n)
      PROVE  m + j - 1 \in DOMAIN s /\ SubSeq(s, m, n)[j] = s[m + j - 1]
  BY <1>1, <1>3, <1>4, <1>5
<1> QED BY <1>3, <1>5

(* The acks one packet takes, and the acks that k packets leave, are among *)
(* the pending ones.                                                       *)
LEMMA DrainFacts ==
  ASSUME NEW acks \in Seq(PID), NEW i \in Nat \ {0}
  PROVE  /\ drainAcks(acks, i) \in Seq(PID)
         /\ \A j \in DOMAIN drainAcks(acks, i) :
              \E h \in DOMAIN acks : drainAcks(acks, i)[j] = acks[h]
<1>1. Len(acks) \in Nat
  OBVIOUS
<1>2. MaxAcksPerPacket * (i - 1) \in Nat /\ MaxAcksPerPacket * i \in Nat
  BY ConstantsAssumption
<1> DEFINE m == MaxAcksPerPacket * (i - 1) + 1
           n == min(MaxAcksPerPacket * i, Len(acks))
<1>3. m \in Nat \ {0} /\ n \in Int /\ n <= Len(acks)
  BY <1>1, <1>2 DEF min
<1> HIDE DEF m, n
<1>4. /\ SubSeq(acks, m, n) \in Seq(PID)
      /\ \A j \in DOMAIN SubSeq(acks, m, n) :
           \E h \in DOMAIN acks : SubSeq(acks, m, n)[j] = acks[h]
  BY <1>3, SubSeqFacts
<1> QED BY <1>4 DEF drainAcks, m, n

(* The acks left over after k packets are pending ones. *)
LEMMA RestFacts ==
  ASSUME NEW acks \in Seq(PID), NEW k \in Nat
  PROVE  LET left == SubSeq(acks, MaxAcksPerPacket * k + 1, Len(acks))
         IN /\ left \in Seq(PID)
            /\ \A j \in DOMAIN left : \E h \in DOMAIN acks : left[j] = acks[h]
<1>1. Len(acks) \in Nat
  OBVIOUS
<1>2. MaxAcksPerPacket * k \in Nat
  BY ConstantsAssumption
<1> DEFINE m == MaxAcksPerPacket * k + 1
<1>3. m \in Nat \ {0}
  BY <1>2
<1> HIDE DEF m
<1>4. /\ SubSeq(acks, m, Len(acks)) \in Seq(PID)
      /\ \A j \in DOMAIN SubSeq(acks, m, Len(acks)) :
           \E h \in DOMAIN acks : SubSeq(acks, m, Len(acks))[j] = acks[h]
  BY <1>1, <1>3, SubSeqFacts
<1> QED BY <1>4 DEF m

(* What an emission of items from e's present state may produce: packets   *)
(* of the channel as it was, and new ones that carry an item or nothing    *)
(* and acknowledge what was pending.                                       *)
Item == [op : {"RESET", "CONTROL"}, pid : PID, body : Body]

Fresh(e, items, pkt) ==
  /\ pkt.sid = e
  /\ pkt.op # "ACK" => \E i \in DOMAIN items : /\ pkt.pid = items[i].pid
                                               /\ pkt.body = items[i].body
  /\ \A a \in DOMAIN pkt.acks :
       \E h \in DOMAIN pendingAcks[e] : pkt.acks[a] = pendingAcks[e][h]

Emission(e, items, st) ==
  /\ st.out \in Seq(Packet)
  /\ Len(st.out) <= OutboundBuffer
  /\ st.acks \in Seq(PID)
  /\ st.timer \in BOOLEAN
  /\ \A j \in DOMAIN st.out : \/ \E h \in DOMAIN outbound[e] :
                                   st.out[j] = outbound[e][h]
                              \/ Fresh(e, items, st.out[j])
  /\ \A j \in DOMAIN st.acks :
       \E h \in DOMAIN pendingAcks[e] : st.acks[j] = pendingAcks[e][h]

Emitting(e) ==
  /\ outbound[e] \in Seq(Packet)
  /\ Len(outbound[e]) <= OutboundBuffer
  /\ pendingAcks[e] \in Seq(PID)
  /\ ackTimer[e] \in BOOLEAN

(* The smaller of two naturals. *)
LEMMA MinFacts ==
  ASSUME NEW a \in Nat, NEW b \in Nat
  PROVE  min(a, b) \in Nat /\ min(a, b) <= a /\ min(a, b) <= b
BY DEF min

(* Emission pushes what fits, and acks only what was pending. *)
LEMMA EmitFacts ==
  ASSUME NEW e \in Ends, Emitting(e), NEW items \in Seq(Item)
  PROVE  Emission(e, items, emitLocked(e, items))
<1> DEFINE A == pendingAcks[e]
           O == outbound[e]
           k == min(Len(items), OutboundBuffer - Len(O))
           left == SubSeq(A, MaxAcksPerPacket * k + 1, Len(A))
           new == [i \in 1..k |-> [op |-> items[i].op, sid |-> e,
                                   pid |-> items[i].pid, body |-> items[i].body,
                                   acks |-> drainAcks(A, i)]]
           timer == left # << >> /\ (ackTimer[e] \/ k < Len(items))
<1>1. /\ A \in Seq(PID) /\ O \in Seq(Packet)
      /\ Len(items) \in Nat /\ Len(O) \in Nat /\ OutboundBuffer \in Nat
      /\ Len(O) <= OutboundBuffer
  BY ConstantsAssumption DEF Emitting
<1>2. k \in Nat /\ k <= Len(items) /\ k <= OutboundBuffer - Len(O)
  <2>1. OutboundBuffer - Len(O) \in Nat
    BY <1>1
  <2> QED BY <1>1, <2>1, MinFacts, Zenon
<1> HIDE DEF A, O, k
<1>3. left \in Seq(PID) /\ \A j \in DOMAIN left : \E h \in DOMAIN A : left[j] = A[h]
  BY <1>1, <1>2, RestFacts
<1>4. ASSUME NEW i \in 1..k
      PROVE  /\ new[i] \in Packet
             /\ Fresh(e, items, new[i])
  <2>1. /\ drainAcks(A, i) \in Seq(PID)
        /\ \A j \in DOMAIN drainAcks(A, i) :
             \E h \in DOMAIN A : drainAcks(A, i)[j] = A[h]
    BY <1>1, <1>2, DrainFacts
  <2>2. i \in DOMAIN items /\ items[i] \in Item
    BY <1>1, <1>2
  <2>3. new[i] = [op |-> items[i].op, sid |-> e, pid |-> items[i].pid,
                  body |-> items[i].body, acks |-> drainAcks(A, i)]
    OBVIOUS
  <2>4. new[i] \in Packet
    BY <2>1, <2>2, <2>3 DEF Item, Packet, Opcode
  <2>5. Fresh(e, items, new[i])
    BY <2>1, <2>2, <2>3 DEF Fresh, A
  <2> QED BY <2>4, <2>5
<1>5. new \in Seq(Packet) /\ Len(new) = k
  BY <1>2, <1>4
<1> HIDE DEF new
<1>6. /\ O \o new \in Seq(Packet)
      /\ Len(O \o new) = Len(O) + k
      /\ \A j \in 1 .. Len(O) + k :
           (O \o new)[j] = IF j <= Len(O) THEN O[j] ELSE new[j - Len(O)]
  BY <1>1, <1>5, JoinFacts, Zenon
<1>7. ASSUME NEW j \in DOMAIN (O \o new)
      PROVE  \/ \E h \in DOMAIN O : (O \o new)[j] = O[h]
             \/ Fresh(e, items, (O \o new)[j])
  <2>1. j \in 1 .. Len(O) + k
    BY <1>6
  <2>2. CASE j <= Len(O)
    BY <1>1, <1>6, <2>1, <2>2
  <2>3. CASE ~(j <= Len(O))
    <3>1. j - Len(O) \in 1..k
      BY <1>1, <1>2, <2>1, <2>3
    <3>2. (O \o new)[j] = new[j - Len(O)]
      BY <1>6, <2>1, <2>3
    <3> QED BY <1>4, <3>1, <3>2
  <2> QED BY <2>2, <2>3
<1>8. Len(O \o new) <= OutboundBuffer
  BY <1>1, <1>2, <1>6
<1>9. timer \in BOOLEAN
  OBVIOUS
<1>10. emitLocked(e, items) = [out |-> O \o new, acks |-> left, timer |-> timer]
  BY DEF emitLocked, O, A, k, new
<1> HIDE DEF left, timer
<1>11. /\ emitLocked(e, items).out = O \o new
       /\ emitLocked(e, items).acks = left
       /\ emitLocked(e, items).timer = timer
  BY <1>10
<1> QED BY <1>3, <1>6, <1>7, <1>8, <1>9, <1>11, Zenon DEF Emission, O, A

(* emitStandaloneAckLocked after other emissions adds only an ack packet. *)
LEMMA StandaloneFacts ==
  ASSUME NEW e \in Ends, Emitting(e), NEW items \in Seq(Item),
         NEW st, Emission(e, items, st)
  PROVE  Emission(e, items, emitStandaloneAckLocked(e, st))
<1> DEFINE r == emitStandaloneAckLocked(e, st)
           left == SubSeq(st.acks, MaxAcksPerPacket + 1, Len(st.acks))
           pkt == [op |-> "ACK", sid |-> e, pid |-> 0, body |-> Empty,
                   acks |-> drainAcks(st.acks, 1)]
<1>1. CASE st.acks = << >> \/ remote[e] = NoSid
  <2>1. r = st
    BY <1>1 DEF emitStandaloneAckLocked
  <2> QED BY <2>1
<1>2. CASE /\ ~(st.acks = << >> \/ remote[e] = NoSid)
           /\ Len(st.out) >= OutboundBuffer
  <2>1. r = [st EXCEPT !.timer = TRUE]
    BY <1>2 DEF emitStandaloneAckLocked
  <2>2. r.out = st.out /\ r.acks = st.acks /\ r.timer \in BOOLEAN
    BY <2>1
  <2> QED BY <2>2 DEF Emission
<1>3. CASE /\ ~(st.acks = << >> \/ remote[e] = NoSid)
           /\ ~(Len(st.out) >= OutboundBuffer)
  <2> DEFINE timer == st.timer /\ left # << >>
  <2>1. r = [out |-> Append(st.out, pkt), acks |-> left, timer |-> timer]
    BY <1>3 DEF emitStandaloneAckLocked
  <2>0. timer \in BOOLEAN /\ st.acks \in Seq(PID) /\ Len(st.acks) \in Nat
    BY DEF Emission
  <2> HIDE DEF timer
  <2>2. r.out = Append(st.out, pkt) /\ r.acks = left /\ r.timer = timer
    <3> HIDE DEF r, pkt, left
    <3> QED BY <2>1
  <2>3. /\ drainAcks(st.acks, 1) \in Seq(PID)
        /\ \A j \in DOMAIN drainAcks(st.acks, 1) :
             \E h \in DOMAIN st.acks : drainAcks(st.acks, 1)[j] = st.acks[h]
    BY <2>0, DrainFacts
  <2>4. left \in Seq(PID) /\ \A j \in DOMAIN left : \E h \in DOMAIN st.acks :
                                left[j] = st.acks[h]
    <3>1. MaxAcksPerPacket * 1 = MaxAcksPerPacket
      BY ConstantsAssumption
    <3>2. LET l == SubSeq(st.acks, MaxAcksPerPacket * 1 + 1, Len(st.acks))
          IN /\ l \in Seq(PID)
             /\ \A j \in DOMAIN l : \E h \in DOMAIN st.acks : l[j] = st.acks[h]
      BY <2>0, RestFacts
    <3> QED BY <3>1, <3>2
  <2>5. pkt \in Packet
    BY <2>3 DEF Packet, Opcode, PID, Body, Empty
  <2>6. Fresh(e, items, pkt)
    <3>1. pkt.sid = e /\ pkt.op = "ACK" /\ pkt.acks = drainAcks(st.acks, 1)
      OBVIOUS
    <3>2. \A j \in DOMAIN drainAcks(st.acks, 1) :
            \E h \in DOMAIN pendingAcks[e] :
              drainAcks(st.acks, 1)[j] = pendingAcks[e][h]
      BY <2>3 DEF Emission
    <3> HIDE DEF pkt
    <3> QED BY <3>1, <3>2 DEF Fresh
  <2> HIDE DEF pkt, left, r
  <2>7. /\ Append(st.out, pkt) \in Seq(Packet)
        /\ Len(Append(st.out, pkt)) <= OutboundBuffer
        /\ \A j \in DOMAIN Append(st.out, pkt) :
             \/ j \in DOMAIN st.out /\ Append(st.out, pkt)[j] = st.out[j]
             \/ Append(st.out, pkt)[j] = pkt
    BY <1>3, <2>5, ConstantsAssumption DEF Emission
  <2>8. \A j \in DOMAIN left : \E h \in DOMAIN pendingAcks[e] :
                                 left[j] = pendingAcks[e][h]
    BY <2>4, Zenon DEF Emission
  <2>9. \A j \in DOMAIN Append(st.out, pkt) :
          \/ \E h \in DOMAIN outbound[e] : Append(st.out, pkt)[j] = outbound[e][h]
          \/ Fresh(e, items, Append(st.out, pkt)[j])
    BY <2>6, <2>7 DEF Emission
  <2>10. Emission(e, items, r)
    BY <2>0, <2>2, <2>4, <2>7, <2>8, <2>9, Zenon DEF Emission
  <2> QED BY <2>10 DEF r
<1> QED BY <1>1, <1>2, <1>3

-----------------------------------------------------------------------------
(* Types *)

(* TypeOK is inductive once the channel's capacity and the receive window  *)
(* are part of it: the arithmetic of emitLocked needs the free room not to *)
(* be negative, and the drain of the receive buffer a place to stop.       *)
TInv ==
  /\ TypeOK
  /\ \A e \in Ends : Len(outbound[e]) <= OutboundBuffer
  /\ \A e \in Ends : \A p \in DOMAIN rxBuffer[e] :
       nextRxPID[e] < p /\ p < nextRxPID[e] + MaxRxBuffer
  /\ \A e \in Ends : IsFiniteSet(DOMAIN txQueue[e])

(* The type invariant gives an emission what it needs. *)
LEMMA EmittingFromType ==
  ASSUME TInv, NEW e \in Ends
  PROVE  Emitting(e)
BY DEF TInv, TypeOK, Emitting

(* What Emit makes of the three variables, at every end. *)
LEMMA EmitStep ==
  ASSUME TInv, NEW e \in Ends, NEW items \in Seq(Item), NEW st,
         Emission(e, items, st), Emit(e, st)
  PROVE  /\ outbound' \in [Ends -> Seq(Packet)]
         /\ pendingAcks' \in [Ends -> Seq(PID)]
         /\ ackTimer' \in [Ends -> BOOLEAN]
         /\ \A x \in Ends : Len(outbound'[x]) <= OutboundBuffer
         /\ outbound'[e] = st.out /\ pendingAcks'[e] = st.acks
         /\ \A x \in Ends : x # e => /\ outbound'[x] = outbound[x]
                                     /\ pendingAcks'[x] = pendingAcks[x]
<1>1. /\ outbound \in [Ends -> Seq(Packet)]
      /\ pendingAcks \in [Ends -> Seq(PID)]
      /\ ackTimer \in [Ends -> BOOLEAN]
      /\ \A x \in Ends : Len(outbound[x]) <= OutboundBuffer
  BY DEF TInv, TypeOK
<1>2. /\ st.out \in Seq(Packet) /\ Len(st.out) <= OutboundBuffer
      /\ st.acks \in Seq(PID) /\ st.timer \in BOOLEAN
  BY DEF Emission
<1>3. /\ outbound' = [outbound EXCEPT ![e] = st.out]
      /\ pendingAcks' = [pendingAcks EXCEPT ![e] = st.acks]
      /\ ackTimer' = [ackTimer EXCEPT ![e] = st.timer]
  BY DEF Emit
<1> QED BY <1>1, <1>2, <1>3

(* New layers are well typed. *)
LEMMA InitType == Init => TInv
<1> SUFFICES ASSUME Init PROVE TInv
  OBVIOUS
<1>1. \A e \in Ends : Peer(e) \in Ends
  BY PeerFacts
<1>2. Len(<< >>) = 0 /\ OutboundBuffer \in Nat
  BY ConstantsAssumption
<1>3. IsFiniteSet(DOMAIN << >>)
  BY FS_EmptySet
<1> QED BY <1>1, <1>2, <1>3 DEF Init, TInv, TypeOK, PID, Body

(* enqueueAndEmitLocked keeps the send side well typed. *)
LEMMA EnqueueType ==
  ASSUME TInv, NEW e \in Ends, NEW op \in {"RESET", "CONTROL"}, NEW body \in Body,
         enqueueAndEmitLocked(e, op, body)
  PROVE  /\ nextTxPID' \in [Ends -> Nat]
         /\ DOMAIN txQueue' = Ends
         /\ \A x \in Ends : /\ txQueue'[x] \in [DOMAIN txQueue'[x] -> Pending]
                            /\ DOMAIN txQueue'[x] \subseteq PID
                            /\ IsFiniteSet(DOMAIN txQueue'[x])
         /\ outbound' \in [Ends -> Seq(Packet)]
         /\ pendingAcks' \in [Ends -> Seq(PID)]
         /\ ackTimer' \in [Ends -> BOOLEAN]
         /\ \A x \in Ends : Len(outbound'[x]) <= OutboundBuffer
<1> DEFINE item == [op |-> op, pid |-> nextTxPID[e], body |-> body]
           new == [op |-> op, body |-> body, attempts |-> 1, higherACKs |-> 0]
<1>1. nextTxPID \in [Ends -> Nat] /\ nextTxPID[e] \in Nat
  BY DEF TInv, TypeOK
<1>2. item \in Item /\ new \in Pending
  BY <1>1 DEF Item, Pending, PID
<1>3. <<item>> \in Seq(Item)
  BY <1>2
<1>4. Emission(e, <<item>>, emitLocked(e, <<item>>))
  BY <1>3, EmitFacts, EmittingFromType, Zenon
<1>5. Emit(e, emitLocked(e, <<item>>))
  BY DEF enqueueAndEmitLocked
<1>6. txQueue' = [txQueue EXCEPT ![e] = Put(@, nextTxPID[e], new)]
  BY DEF enqueueAndEmitLocked
<1>7. /\ DOMAIN txQueue = Ends
      /\ \A x \in Ends : /\ txQueue[x] \in [DOMAIN txQueue[x] -> Pending]
                         /\ DOMAIN txQueue[x] \subseteq PID
                         /\ IsFiniteSet(DOMAIN txQueue[x])
  BY DEF TInv, TypeOK
<1> HIDE DEF item, new
<1>8. /\ DOMAIN txQueue' = Ends
      /\ \A x \in Ends : /\ txQueue'[x] \in [DOMAIN txQueue'[x] -> Pending]
                         /\ DOMAIN txQueue'[x] \subseteq PID
                         /\ IsFiniteSet(DOMAIN txQueue'[x])
  <2>1. txQueue'[e] = Put(txQueue[e], nextTxPID[e], new)
    BY <1>6, <1>7
  <2>2. \A x \in Ends : x # e => txQueue'[x] = txQueue[x]
    BY <1>6, <1>7
  <2>3. DOMAIN txQueue' = Ends
    BY <1>6, <1>7
  <2>4. txQueue'[e] = [p \in DOMAIN txQueue[e] \cup {nextTxPID[e]} |->
                         IF p = nextTxPID[e] THEN new ELSE txQueue[e][p]]
    BY <2>1 DEF Put
  <2>5. /\ txQueue'[e] \in [DOMAIN txQueue'[e] -> Pending]
        /\ DOMAIN txQueue'[e] \subseteq PID
    BY <1>1, <1>2, <1>7, <2>4 DEF PID
  <2>6. IsFiniteSet(DOMAIN txQueue'[e])
    <3>1. DOMAIN txQueue'[e] = DOMAIN txQueue[e] \cup {nextTxPID[e]}
      BY <2>4
    <3> QED BY <1>7, <3>1, FS_AddElement
  <2> QED BY <1>7, <2>2, <2>3, <2>5, <2>6
<1>9. nextTxPID' \in [Ends -> Nat]
  BY <1>1 DEF enqueueAndEmitLocked
<1> QED BY <1>3, <1>4, <1>5, <1>8, <1>9, EmitStep, Zenon

(* SendHardReset keeps the types. *)
LEMMA SendHardResetType ==
  ASSUME TInv, NEW e \in Ends, SendHardReset(e)
  PROVE  TInv'
<1>1. enqueueAndEmitLocked(e, "RESET", Empty) /\ Empty \in Body
  BY DEF SendHardReset, Empty, Body
<1> QED BY <1>1, EnqueueType, Zenon DEF TInv, TypeOK, SendHardReset

(* The writer's moves. *)
LEMMA WriterType ==
  ASSUME TInv, NEW e \in Ends, NEW left \in Nat \ {0}, NEW pc,
         \/ pc = "idle" /\ WriterAt(e, "idle", 0)
         \/ pc \in {"remote", "queue", "run"} /\ WriterAt(e, pc, left)
  PROVE  /\ writer' \in [Ends -> [pc : {"idle", "remote", "queue", "woken", "run"},
                                  left : Nat]]
         /\ \A x \in Ends : writer'[x].pc = "idle" <=> writer'[x].left = 0
<1>1. /\ writer \in [Ends -> [pc : {"idle", "remote", "queue", "woken", "run"},
                              left : Nat]]
      /\ \A x \in Ends : writer[x].pc = "idle" <=> writer[x].left = 0
  BY DEF TInv, TypeOK
<1> QED BY <1>1 DEF WriterAt

(* A round of Write's loop keeps the types: it fails, parks or sends. *)
LEMMA WriteChunkType ==
  ASSUME TInv, NEW e \in Ends, NEW left \in Nat \ {0}, WriteChunk(e, left)
  PROVE  TInv'
<1>1. CASE closed[e] /\ WriterAt(e, "idle", 0) /\ UNCHANGED unchangedByPark
  BY <1>1, WriterType, Zenon DEF TInv, TypeOK, unchangedByPark
<1>2. CASE WriterAt(e, "queue", left) /\ UNCHANGED unchangedByPark
  BY <1>2, WriterType, Zenon DEF TInv, TypeOK, unchangedByPark
<1>3. CASE SendChunk(e, left)
  <2>1. written \in [Ends -> Nat] /\ written[e] + 1 \in Body
    <3>1. written \in [Ends -> Nat]
      BY Zenon DEF TInv, TypeOK
    <3> QED BY <3>1 DEF Body
  <2>2. enqueueAndEmitLocked(e, "CONTROL", written[e] + 1)
    BY <1>3 DEF SendChunk
  <2>3. /\ writer' \in [Ends -> [pc : {"idle", "remote", "queue", "woken", "run"},
                                 left : Nat]]
        /\ \A x \in Ends : writer'[x].pc = "idle" <=> writer'[x].left = 0
    <3>1. CASE left = 1
      BY <1>3, <3>1, WriterType DEF SendChunk
    <3>2. CASE left # 1
      <4>1. left - 1 \in Nat \ {0}
        BY <3>2
      <4> QED BY <1>3, <3>2, <4>1, WriterType DEF SendChunk
    <3> QED BY <3>1, <3>2
  <2>4. written' \in [Ends -> Nat]
    BY <1>3, <2>1 DEF SendChunk
  <2> QED BY <1>3, <2>1, <2>2, <2>3, <2>4, EnqueueType, Zenon DEF TInv, TypeOK, SendChunk
<1> QED BY <1>1, <1>2, <1>3 DEF WriteChunk

(* So does Write when it starts or is woken. *)
LEMMA WriteFromType ==
  ASSUME TInv, NEW e \in Ends, NEW left \in Nat \ {0}, WriteFrom(e, left)
  PROVE  TInv'
<1>1. CASE WriterAt(e, "remote", left) /\ UNCHANGED unchangedByPark
  BY <1>1, WriterType, Zenon DEF TInv, TypeOK, unchangedByPark
<1>2. CASE WriterAt(e, "idle", 0) /\ UNCHANGED unchangedByPark
  BY <1>2, WriterType, Zenon DEF TInv, TypeOK, unchangedByPark
<1>3. CASE WriteChunk(e, left)
  BY <1>3, WriteChunkType
<1> QED BY <1>1, <1>2, <1>3 DEF WriteFrom

(* Broadcast moves only parked writers. *)
LEMMA WakeType ==
  ASSUME TInv, NEW e \in Ends, NEW conds, conds \subseteq {"remote", "queue"},
         WakeWriter(e, conds)
  PROVE  /\ writer' \in [Ends -> [pc : {"idle", "remote", "queue", "woken", "run"},
                                  left : Nat]]
         /\ \A x \in Ends : writer'[x].pc = "idle" <=> writer'[x].left = 0
<1>1. /\ writer \in [Ends -> [pc : {"idle", "remote", "queue", "woken", "run"},
                              left : Nat]]
      /\ \A x \in Ends : writer[x].pc = "idle" <=> writer[x].left = 0
  BY DEF TInv, TypeOK
<1> QED BY <1>1 DEF WakeWriter

(* CloseRead and Close keep the types. *)
LEMMA CloseType ==
  ASSUME TInv, NEW e \in Ends, CloseRead(e) \/ Close(e)
  PROVE  TInv'
<1>1. CASE CloseRead(e)
  <2>1. WakeWriter(e, {"remote"})
    BY <1>1 DEF CloseRead
  <2> QED BY <1>1, <2>1, WakeType, Zenon DEF CloseRead, WakeReader, TInv, TypeOK
<1>2. CASE Close(e)
  <2>1. WakeWriter(e, {"remote", "queue"})
    BY <1>2 DEF Close
  <2> QED BY <1>2, <2>1, WakeType, Zenon DEF Close, WakeReader, TInv, TypeOK
<1> QED BY <1>1, <1>2

(* Read keeps the types. *)
LEMMA ReadType ==
  ASSUME TInv, NEW e \in Ends, Read(e)
  PROVE  TInv'
<1>1. /\ readBuf \in [Ends -> Seq(Body)] /\ readBuf[e] \in Seq(Body)
      /\ reader \in [Ends -> {"idle", "parked", "woken"}]
  BY DEF TInv, TypeOK
<1>2. readBuf' \in [Ends -> Seq(Body)]
  <2>1. ASSUME NEW n \in 1..Len(readBuf[e])
        PROVE  SubSeq(readBuf[e], n + 1, Len(readBuf[e])) \in Seq(Body)
    BY <1>1, SubSeqFacts
  <2> QED BY <1>1, <2>1, Zenon DEF Read
<1>3. reader' \in [Ends -> {"idle", "parked", "woken"}]
  BY <1>1, Zenon DEF Read
<1> QED BY <1>2, <1>3 DEF Read, TInv, TypeOK

(* What HandleMessage does to the receive side, whichever branch it takes. *)
LEMMA AddAckType ==
  ASSUME TInv, NEW e \in Ends, NEW pid \in PID, addPendingAckLocked(e, pid)
  PROVE  pendingAcks' \in [Ends -> Seq(PID)] /\ ackTimer' \in [Ends -> BOOLEAN]
<1>1. pendingAcks \in [Ends -> Seq(PID)] /\ ackTimer \in [Ends -> BOOLEAN]
  BY DEF TInv, TypeOK
<1>2. pendingAcks[e] \in Seq(PID) /\ Append(pendingAcks[e], pid) \in Seq(PID)
  BY <1>1
<1> QED BY <1>1, <1>2 DEF addPendingAckLocked

(* What an in-order packet releases: the run of buffered ones up to the first gap. *)
LEMMA DeliverInOrderFacts ==
  ASSUME TInv, NEW e \in Ends, NEW pkt \in Packet, pkt.pid = nextRxPID[e],
         DeliverInOrder(e, pkt)
  PROVE  /\ Gap(e, pkt) \in Nat /\ pkt.pid < Gap(e, pkt)
         /\ Gap(e, pkt) \notin DOMAIN rxBuffer[e]
         /\ \A m \in pkt.pid + 1 .. Gap(e, pkt) - 1 : m \in DOMAIN rxBuffer[e]
         /\ Contiguous(e, pkt) \in Seq(Body)
         /\ Len(Contiguous(e, pkt)) = Gap(e, pkt) - pkt.pid - 1
         /\ Run(e, pkt) \in Seq(Body)
         /\ nextRxPID' = [nextRxPID EXCEPT ![e] = Gap(e, pkt)]
         /\ DOMAIN rxBuffer' = Ends
         /\ DOMAIN rxBuffer'[e] = {p \in DOMAIN rxBuffer[e] : Gap(e, pkt) < p}
         /\ \A p \in DOMAIN rxBuffer'[e] : rxBuffer'[e][p] = rxBuffer[e][p]
         /\ rxBuffer'[e] \in [DOMAIN rxBuffer'[e] -> Body]
         /\ \A x \in Ends : x # e => rxBuffer'[x] = rxBuffer[x]
         /\ readBuf' = [readBuf EXCEPT ![e] = @ \o Run(e, pkt)]
         /\ stream' = [stream EXCEPT ![e] = @ \o Run(e, pkt)]
<1> DEFINE gap == Gap(e, pkt)
<1>1. /\ pkt.pid \in Nat /\ pkt.body \in Body
      /\ DOMAIN rxBuffer = Ends /\ DOMAIN rxBuffer[e] \subseteq Nat
      /\ rxBuffer[e] \in [DOMAIN rxBuffer[e] -> Body]
      /\ \A p \in DOMAIN rxBuffer[e] : pkt.pid < p /\ p < pkt.pid + MaxRxBuffer
      /\ MaxRxBuffer \in Nat \ {0}
  BY ConstantsAssumption, Zenon DEF TInv, TypeOK, Packet, PID
<1>2. \A p \in DOMAIN rxBuffer[e] : p \in pkt.pid + 1 .. pkt.pid + MaxRxBuffer - 1
  BY <1>1
<1>3. /\ gap \in pkt.pid + 1 .. pkt.pid + MaxRxBuffer
      /\ gap \notin DOMAIN rxBuffer[e]
      /\ \A m \in pkt.pid + 1 .. gap - 1 : m \in DOMAIN rxBuffer[e]
  BY <1>1, <1>2, NextGapFacts DEF Gap
<1>4. gap \in Nat /\ pkt.pid < gap
  BY <1>1, <1>3
<1>5. /\ nextRxPID' = [nextRxPID EXCEPT ![e] = gap]
      /\ rxBuffer' = [rxBuffer EXCEPT ![e] =
                        Restrict(@, DOMAIN @ \ (pkt.pid .. gap - 1))]
      /\ readBuf' = [readBuf EXCEPT ![e] = @ \o Run(e, pkt)]
      /\ stream' = [stream EXCEPT ![e] = @ \o Run(e, pkt)]
  BY DEF DeliverInOrder
<1> HIDE DEF gap
<1>6. /\ Contiguous(e, pkt) \in Seq(Body)
      /\ Len(Contiguous(e, pkt)) = gap - pkt.pid - 1
  <2>1. \A i \in 1 .. gap - pkt.pid - 1 : rxBuffer[e][pkt.pid + i] \in Body
    BY <1>1, <1>3, <1>4
  <2>2. gap - pkt.pid - 1 \in Nat
    BY <1>1, <1>4
  <2>3. Contiguous(e, pkt) = [i \in 1 .. gap - pkt.pid - 1 |->
                                rxBuffer[e][pkt.pid + i]]
    BY DEF Contiguous, gap
  <2> QED BY <2>1, <2>2, <2>3
<1>7. Run(e, pkt) \in Seq(Body)
  BY <1>1, <1>6 DEF Run
<1>8. /\ DOMAIN rxBuffer' = Ends
      /\ \A x \in Ends : x # e => rxBuffer'[x] = rxBuffer[x]
      /\ rxBuffer'[e] = [p \in DOMAIN rxBuffer[e] \ (pkt.pid .. gap - 1) |->
                           rxBuffer[e][p]]
  BY <1>1, <1>5 DEF Restrict
<1>9. DOMAIN rxBuffer[e] \ (pkt.pid .. gap - 1) = {p \in DOMAIN rxBuffer[e] : gap < p}
  BY <1>1, <1>3, <1>4
<1>10. /\ DOMAIN rxBuffer'[e] = {p \in DOMAIN rxBuffer[e] : gap < p}
       /\ \A p \in DOMAIN rxBuffer'[e] : rxBuffer'[e][p] = rxBuffer[e][p]
       /\ rxBuffer'[e] \in [DOMAIN rxBuffer'[e] -> Body]
  BY <1>1, <1>8, <1>9
<1> QED BY <1>3, <1>4, <1>5, <1>6, <1>7, <1>8, <1>10, Zenon DEF gap

(* A message leaves what is buffered within the window above nextRxPID. *)
LEMMA HandleMessageType ==
  ASSUME TInv, NEW e \in Ends, NEW pkt \in Packet, HandleMessage(e, pkt)
  PROVE  /\ nextRxPID' \in [Ends -> Nat]
         /\ DOMAIN rxBuffer' = Ends
         /\ \A x \in Ends : /\ rxBuffer'[x] \in [DOMAIN rxBuffer'[x] -> Body]
                            /\ DOMAIN rxBuffer'[x] \subseteq PID
                            /\ \A p \in DOMAIN rxBuffer'[x] :
                                 /\ nextRxPID'[x] < p
                                 /\ p < nextRxPID'[x] + MaxRxBuffer
         /\ readBuf' \in [Ends -> Seq(Body)]
         /\ stream' \in [Ends -> Seq(Body)]
         /\ reader' \in [Ends -> {"idle", "parked", "woken"}]
         /\ pendingAcks' \in [Ends -> Seq(PID)]
         /\ ackTimer' \in [Ends -> BOOLEAN]
<1>1. /\ pkt.pid \in Nat /\ pkt.pid \in PID /\ pkt.body \in Body
      /\ nextRxPID \in [Ends -> Nat]
      /\ DOMAIN rxBuffer = Ends
      /\ \A x \in Ends : /\ rxBuffer[x] \in [DOMAIN rxBuffer[x] -> Body]
                         /\ DOMAIN rxBuffer[x] \subseteq Nat
                         /\ \A p \in DOMAIN rxBuffer[x] :
                              /\ nextRxPID[x] < p
                              /\ p < nextRxPID[x] + MaxRxBuffer
      /\ readBuf \in [Ends -> Seq(Body)]
      /\ stream \in [Ends -> Seq(Body)]
      /\ reader \in [Ends -> {"idle", "parked", "woken"}]
      /\ pendingAcks \in [Ends -> Seq(PID)]
      /\ ackTimer \in [Ends -> BOOLEAN]
      /\ MaxRxBuffer \in Nat
  BY ConstantsAssumption, Zenon DEF TInv, TypeOK, Packet, PID
<1>2. CASE /\ addPendingAckLocked(e, pkt.pid)
           /\ UNCHANGED <<nextRxPID, rxBuffer, readBuf, stream, reader>>
  BY <1>1, <1>2, AddAckType DEF PID
<1>3. CASE /\ pkt.pid = nextRxPID[e]
           /\ DeliverInOrder(e, pkt)
           /\ addPendingAckLocked(e, pkt.pid)
  <2>1. pendingAcks' \in [Ends -> Seq(PID)] /\ ackTimer' \in [Ends -> BOOLEAN]
    BY <1>1, <1>3, AddAckType
  <2> DEFINE gap == Gap(e, pkt)
             run == Run(e, pkt)
  <2>2. /\ gap \in Nat /\ run \in Seq(Body)
        /\ pkt.pid < gap
        /\ nextRxPID' = [nextRxPID EXCEPT ![e] = gap]
        /\ DOMAIN rxBuffer' = Ends
        /\ DOMAIN rxBuffer'[e] = {p \in DOMAIN rxBuffer[e] : gap < p}
        /\ rxBuffer'[e] \in [DOMAIN rxBuffer'[e] -> Body]
        /\ \A x \in Ends : x # e => rxBuffer'[x] = rxBuffer[x]
        /\ readBuf' = [readBuf EXCEPT ![e] = @ \o run]
        /\ stream' = [stream EXCEPT ![e] = @ \o run]
    BY <1>3, DeliverInOrderFacts
  <2> HIDE DEF gap, run
  <2>3. reader' \in [Ends -> {"idle", "parked", "woken"}]
    <3>1. reader' = reader \/ WakeReader(e)
      BY <1>3 DEF DeliverInOrder
    <3> QED BY <1>1, <3>1, Zenon DEF WakeReader
  <2>4. readBuf' \in [Ends -> Seq(Body)] /\ stream' \in [Ends -> Seq(Body)]
    <3>1. readBuf[e] \o run \in Seq(Body) /\ stream[e] \o run \in Seq(Body)
      BY <1>1, <2>2
    <3> QED BY <1>1, <2>2, <3>1
  <2>5. nextRxPID' \in [Ends -> Nat] /\ nextRxPID'[e] = gap
    BY <1>1, <2>2
  <2>6. \A x \in Ends : x # e => nextRxPID'[x] = nextRxPID[x]
    BY <1>1, <2>2
  <2>7. \A x \in Ends : /\ rxBuffer'[x] \in [DOMAIN rxBuffer'[x] -> Body]
                        /\ DOMAIN rxBuffer'[x] \subseteq Nat
                        /\ \A p \in DOMAIN rxBuffer'[x] :
                             /\ nextRxPID'[x] < p
                             /\ p < nextRxPID'[x] + MaxRxBuffer
    BY <1>1, <1>3, <2>2, <2>5, <2>6
  <2> QED BY <2>1, <2>2, <2>3, <2>4, <2>5, <2>7, Zenon DEF PID
<1>4. CASE /\ pkt.pid > nextRxPID[e] /\ ~Beyond(e, pkt.pid)
           /\ BufferFuture(e, pkt)
  <2>1. pendingAcks' \in [Ends -> Seq(PID)] /\ ackTimer' \in [Ends -> BOOLEAN]
    BY <1>1, <1>4, AddAckType DEF BufferFuture
  <2>2. rxBuffer' = [rxBuffer EXCEPT ![e] = Put(@, pkt.pid, pkt.body)]
    BY <1>4 DEF BufferFuture
  <2>3. pkt.pid < nextRxPID[e] + MaxRxBuffer
    BY <1>1, <1>4 DEF Beyond
  <2>4. /\ DOMAIN rxBuffer' = Ends
        /\ \A x \in Ends : x # e => rxBuffer'[x] = rxBuffer[x]
        /\ rxBuffer'[e] = [p \in DOMAIN rxBuffer[e] \cup {pkt.pid} |->
                             IF p = pkt.pid THEN pkt.body ELSE rxBuffer[e][p]]
    BY <1>1, <2>2 DEF Put
  <2>5. \A x \in Ends : /\ rxBuffer'[x] \in [DOMAIN rxBuffer'[x] -> Body]
                        /\ DOMAIN rxBuffer'[x] \subseteq Nat
                        /\ \A p \in DOMAIN rxBuffer'[x] :
                             /\ nextRxPID[x] < p
                             /\ p < nextRxPID[x] + MaxRxBuffer
    <3>1. ASSUME NEW x \in Ends, x # e
          PROVE  /\ rxBuffer'[x] \in [DOMAIN rxBuffer'[x] -> Body]
                 /\ DOMAIN rxBuffer'[x] \subseteq Nat
                 /\ \A p \in DOMAIN rxBuffer'[x] :
                      nextRxPID[x] < p /\ p < nextRxPID[x] + MaxRxBuffer
      BY <1>1, <2>4, <3>1
    <3>2. rxBuffer'[e] \in [DOMAIN rxBuffer'[e] -> Body]
      BY <1>1, <2>4
    <3>3. DOMAIN rxBuffer'[e] = DOMAIN rxBuffer[e] \cup {pkt.pid}
      BY <2>4
    <3>4. \A p \in DOMAIN rxBuffer'[e] :
            nextRxPID[e] < p /\ p < nextRxPID[e] + MaxRxBuffer
      BY <1>1, <1>4, <2>3, <3>3
    <3> QED BY <1>1, <3>1, <3>2, <3>3, <3>4
  <2> QED BY <1>1, <1>4, <2>1, <2>4, <2>5 DEF BufferFuture, PID
<1>5. CASE DropBeyond(e, pkt)
  BY <1>1, <1>5 DEF DropBeyond, PID
<1> QED BY <1>2, <1>3, <1>4, <1>5, Zenon DEF HandleMessage

(* Acks remove packets from the queue and change none of the others' bodies. *)
LEMMA HandleAcksFacts ==
  ASSUME NEW q, q \in [DOMAIN q -> Pending], NEW acks \in Seq(PID)
  PROVE  /\ DOMAIN HandleAcks(q, acks) = DOMAIN q \ Range(acks)
         /\ HandleAcks(q, acks) \in [DOMAIN HandleAcks(q, acks) -> Pending]
         /\ \A p \in DOMAIN HandleAcks(q, acks) :
              HandleAcks(q, acks)[p].body = q[p].body
<1>1. ASSUME NEW p \in DOMAIN q
      PROVE  Cardinality({i \in DOMAIN acks : p < acks[i]}) \in Nat
  <2>1. IsFiniteSet(1..Len(acks))
    BY FS_Interval
  <2>2. IsFiniteSet({i \in DOMAIN acks : p < acks[i]})
    BY <2>1, FS_Subset
  <2> QED BY <2>2, FS_CardinalityType
<1> DEFINE credit(p) == min(q[p].higherACKs +
                              Cardinality({i \in DOMAIN acks : p < acks[i]}),
                            FastRetransmitThreshold)
<1>2. \A p \in DOMAIN q : credit(p) \in Nat
  <2> TAKE p \in DOMAIN q
  <2> DEFINE n == Cardinality({i \in DOMAIN acks : p < acks[i]})
  <2>1. n \in Nat
    BY <1>1
  <2> HIDE DEF n
  <2>2. q[p].higherACKs \in Nat
    BY DEF Pending
  <2>3. min(q[p].higherACKs + n, FastRetransmitThreshold) \in Nat
    BY <2>1, <2>2, ConstantsAssumption DEF min
  <2> QED BY <2>3 DEF n
<1>3. HandleAcks(q, acks) = [p \in DOMAIN q \ Range(acks) |->
                               [q[p] EXCEPT !.higherACKs = credit(p)]]
  BY DEF HandleAcks
<1> HIDE DEF credit
<1>4. \A p \in DOMAIN q : /\ [q[p] EXCEPT !.higherACKs = credit(p)] \in Pending
                          /\ [q[p] EXCEPT !.higherACKs = credit(p)].body = q[p].body
  BY <1>2 DEF Pending
<1> QED BY <1>3, <1>4, Zenon

(* HandleInbound keeps the types. *)
LEMMA InboundType ==
  ASSUME TInv, NEW e \in Ends, NEW pkt \in Packet, HandleInbound(e, pkt),
         net' \in [Ends -> SUBSET Packet], strays' \in Nat
  PROVE  TInv'
<1>1. CASE UNCHANGED layerVars
  BY <1>1 DEF layerVars, TInv, TypeOK
<1>2. CASE ~Rejected(e, pkt) /\ ~UNCHANGED layerVars
  <2>1. /\ remote' = [remote EXCEPT ![e] = pkt.sid]
        /\ txQueue' = [txQueue EXCEPT ![e] = HandleAcks(@, pkt.acks)]
        /\ WakeWriter(e, Broadcasts(e, pkt))
        /\ IF pkt.op = "ACK"
           THEN UNCHANGED <<nextRxPID, rxBuffer, readBuf, stream, reader,
                            pendingAcks, ackTimer>>
           ELSE HandleMessage(e, pkt)
        /\ UNCHANGED <<nextTxPID, readClosed, closed, outbound, ticking, written>>
    BY <1>2 DEF HandleInbound
  <2>2. /\ pkt.sid \in Ends \cup {StraySid} /\ pkt.acks \in Seq(PID)
        /\ remote \in [Ends -> Ends \cup {NoSid, StraySid}]
        /\ DOMAIN txQueue = Ends
        /\ \A x \in Ends : /\ txQueue[x] \in [DOMAIN txQueue[x] -> Pending]
                           /\ DOMAIN txQueue[x] \subseteq PID
                           /\ IsFiniteSet(DOMAIN txQueue[x])
    BY Zenon DEF Packet, TInv, TypeOK
  <2>3. remote' \in [Ends -> Ends \cup {NoSid, StraySid}]
    BY <2>1, <2>2
  <2>4. /\ DOMAIN HandleAcks(txQueue[e], pkt.acks) \subseteq DOMAIN txQueue[e]
        /\ HandleAcks(txQueue[e], pkt.acks) \in
             [DOMAIN HandleAcks(txQueue[e], pkt.acks) -> Pending]
    <3>1. txQueue[e] \in [DOMAIN txQueue[e] -> Pending] /\ pkt.acks \in Seq(PID)
      BY <2>2
    <3>2. /\ DOMAIN HandleAcks(txQueue[e], pkt.acks)
               = DOMAIN txQueue[e] \ Range(pkt.acks)
          /\ HandleAcks(txQueue[e], pkt.acks) \in
               [DOMAIN HandleAcks(txQueue[e], pkt.acks) -> Pending]
      BY <3>1, HandleAcksFacts, Zenon
    <3> QED BY <3>2
  <2>5. IsFiniteSet(DOMAIN HandleAcks(txQueue[e], pkt.acks))
    BY <2>2, <2>4, FS_Subset
  <2>6. /\ DOMAIN txQueue' = Ends
        /\ \A x \in Ends : /\ txQueue'[x] \in [DOMAIN txQueue'[x] -> Pending]
                           /\ DOMAIN txQueue'[x] \subseteq PID
                           /\ IsFiniteSet(DOMAIN txQueue'[x])
    BY <2>1, <2>2, <2>4, <2>5
  <2>7. /\ writer' \in [Ends -> [pc : {"idle", "remote", "queue", "woken", "run"},
                                 left : Nat]]
        /\ \A x \in Ends : writer'[x].pc = "idle" <=> writer'[x].left = 0
    <3>1. Broadcasts(e, pkt) \subseteq {"remote", "queue"}
      BY DEF Broadcasts
    <3> QED BY <2>1, <3>1, WakeType
  <2>8. CASE pkt.op = "ACK"
    BY <2>1, <2>3, <2>6, <2>7, <2>8, Zenon DEF TInv, TypeOK
  <2>9. CASE pkt.op # "ACK"
    BY <2>1, <2>3, <2>6, <2>7, <2>9, HandleMessageType, Zenon DEF TInv, TypeOK
  <2> QED BY <2>8, <2>9
<1> QED BY <1>1, <1>2 DEF HandleInbound

(* So does the arrival of a packet of the peer ... *)
LEMMA DeliverType ==
  ASSUME TInv, NEW e \in Ends, NEW pkt \in net[e], NEW dup, Deliver(e, pkt, dup)
  PROVE  TInv'
<1>1. net \in [Ends -> SUBSET Packet] /\ strays \in Nat
  BY DEF TInv, TypeOK
<1>2. pkt \in Packet /\ net' \in [Ends -> SUBSET Packet] /\ strays' \in Nat
  BY <1>1 DEF Deliver
<1> QED BY <1>2, InboundType DEF Deliver

(* The stray packet is a packet. *)
LEMMA StrayPacketType == StrayPacket \in Packet
BY DEF StrayPacket, Packet, Opcode, PID, Body, Empty

(* ... and that of a stray one. *)
LEMMA StrayType ==
  ASSUME TInv, NEW e \in Ends, Stray(e)
  PROVE  TInv'
<1>1. net' \in [Ends -> SUBSET Packet] /\ strays' \in Nat
  BY DEF TInv, TypeOK, Stray
<1> QED BY <1>1, StrayPacketType, InboundType DEF Stray

(* What Tick pushes: an item per packet it retransmits. *)
Walked(e, order) ==
  [i \in DOMAIN order |-> [op |-> txQueue[e][order[i]].op, pid |-> order[i],
                           body |-> txQueue[e][order[i]].body]]

Ticked(e, order, st) ==
  /\ Walked(e, order) \in Seq(Item)
  /\ Emission(e, Walked(e, order), st)
  /\ Emit(e, st)
  /\ DOMAIN txQueue' = Ends
  /\ \A x \in Ends : x # e => txQueue'[x] = txQueue[x]
  /\ DOMAIN txQueue'[e] = DOMAIN txQueue[e]
  /\ txQueue'[e] \in [DOMAIN txQueue[e] -> Pending]
  /\ \A p \in DOMAIN txQueue[e] : txQueue'[e][p].body = txQueue[e][p].body
  /\ ticking' \in [Ends -> BOOLEAN]
  /\ UNCHANGED <<remote, nextTxPID, nextRxPID, rxBuffer, readBuf, readClosed,
                 closed, writer, reader, net, written, stream, strays>>

(* Tick emits packets of the queue in some order, and perhaps an ack. *)
LEMMA TickFacts ==
  ASSUME TInv, NEW e \in Ends, TickAny(e)
  PROVE  \E order \in Seq(DOMAIN txQueue[e]) : \E st : Ticked(e, order, st)
<1>1. PICK due \in SUBSET DOMAIN txQueue[e], flush \in BOOLEAN,
           order \in Walks(DOMAIN txQueue[e]) :
             Tick(e, due, order, flush)
  BY DEF TickAny
<1>2. /\ DOMAIN txQueue = Ends
      /\ txQueue[e] \in [DOMAIN txQueue[e] -> Pending]
      /\ DOMAIN txQueue[e] \subseteq PID
      /\ IsFiniteSet(DOMAIN txQueue[e])
      /\ ticking \in [Ends -> BOOLEAN]
  BY Zenon DEF TInv, TypeOK
<1>3. order \in Seq(DOMAIN txQueue[e])
  <2>1. Cardinality(DOMAIN txQueue[e]) \in Nat
    BY <1>2, FS_CardinalityType
  <2>2. PICK k \in Nat : order \in [1 .. k -> DOMAIN txQueue[e]]
    BY <2>1 DEF Walks, Injection
  <2> QED BY <2>2
<1> DEFINE items == Walked(e, order)
           walk == emitLocked(e, items)
           visited == due \cup {p \in DOMAIN txQueue[e] : Fast(e, p)}
           fatal == \E p \in visited : Spent(e, p)
           st == IF ~fatal /\ AckNow(walk, flush)
                 THEN emitStandaloneAckLocked(e, walk) ELSE walk
<1>4. items \in Seq(Item)
  <2>1. Len(order) \in Nat /\ DOMAIN order = 1..Len(order)
    BY <1>3
  <2>2. ASSUME NEW i \in 1..Len(order)
        PROVE  [op |-> txQueue[e][order[i]].op, pid |-> order[i],
                body |-> txQueue[e][order[i]].body] \in Item
    <3>1. order[i] \in DOMAIN txQueue[e] /\ txQueue[e][order[i]] \in Pending
      BY <1>2, <1>3
    <3> QED BY <1>2, <3>1 DEF Pending, Item
  <2> QED BY <2>1, <2>2 DEF Walked
<1>5. /\ txQueue' = [txQueue EXCEPT ![e] =
           [p \in DOMAIN @ |-> IF p \in Range(order) THEN Resent(@[p]) ELSE @[p]]]
      /\ ticking' = [ticking EXCEPT ![e] = ~fatal]
      /\ Emit(e, st)
      /\ UNCHANGED <<remote, nextTxPID, nextRxPID, rxBuffer, readBuf, readClosed,
                     closed, writer, reader, net, written, stream, strays>>
  BY <1>1, Zenon DEF Tick, Walked
<1> HIDE DEF items
<1>6. Emission(e, items, walk)
  BY <1>4, EmitFacts, EmittingFromType
<1>7. Emission(e, items, emitStandaloneAckLocked(e, walk))
  BY <1>4, <1>6, StandaloneFacts, EmittingFromType
<1> HIDE DEF walk
<1>8. Emission(e, items, st)
  BY <1>6, <1>7
<1>9. ticking' \in [Ends -> BOOLEAN]
  BY <1>2, <1>5
<1> HIDE DEF st, fatal
<1>10. \A pkt \in Pending : Resent(pkt) \in Pending /\ Resent(pkt).body = pkt.body
  <2> SUFFICES ASSUME NEW pkt \in Pending
               PROVE  Resent(pkt) \in Pending /\ Resent(pkt).body = pkt.body
    OBVIOUS
  <2> DEFINE n == pkt.attempts + 1
  <2>1. n \in Nat \ {0}
    BY DEF Pending
  <2> HIDE DEF n
  <2>2. Resent(pkt) = [pkt EXCEPT !.attempts = n, !.higherACKs = 0]
    BY DEF Resent, n
  <2>3. Resent(pkt) = [op |-> pkt.op, body |-> pkt.body, attempts |-> n,
                       higherACKs |-> 0]
    BY <2>2, Zenon DEF Pending
  <2> QED BY <2>1, <2>3 DEF Pending
<1>11. /\ DOMAIN txQueue' = Ends
       /\ \A x \in Ends : x # e => txQueue'[x] = txQueue[x]
       /\ txQueue'[e] = [p \in DOMAIN txQueue[e] |->
            IF p \in Range(order) THEN Resent(txQueue[e][p]) ELSE txQueue[e][p]]
  BY <1>2, <1>5
<1>12. /\ DOMAIN txQueue'[e] = DOMAIN txQueue[e]
       /\ txQueue'[e] \in [DOMAIN txQueue[e] -> Pending]
       /\ \A p \in DOMAIN txQueue[e] : txQueue'[e][p].body = txQueue[e][p].body
  BY <1>2, <1>10, <1>11
<1> QED BY <1>3, <1>4, <1>5, <1>8, <1>9, <1>11, <1>12 DEF items, Ticked

(* Tick keeps the types. *)
LEMMA TickType ==
  ASSUME TInv, NEW e \in Ends, TickAny(e)
  PROVE  TInv'
<1>1. PICK order \in Seq(DOMAIN txQueue[e]) : \E st : Ticked(e, order, st)
  BY TickFacts
<1>2. PICK st : Ticked(e, order, st)
  BY <1>1
<1>3. \A x \in Ends : /\ txQueue'[x] \in [DOMAIN txQueue'[x] -> Pending]
                      /\ DOMAIN txQueue'[x] \subseteq PID
                      /\ IsFiniteSet(DOMAIN txQueue'[x])
  BY <1>2, Zenon DEF TInv, TypeOK, Ticked
<1>4. /\ outbound' \in [Ends -> Seq(Packet)]
      /\ pendingAcks' \in [Ends -> Seq(PID)]
      /\ ackTimer' \in [Ends -> BOOLEAN]
      /\ \A x \in Ends : Len(outbound'[x]) <= OutboundBuffer
  BY <1>2, EmitStep, Zenon DEF Ticked
<1> QED BY <1>2, <1>3, <1>4, Zenon DEF TInv, TypeOK, Ticked

(* The write loop keeps the types, whether or not the network loses the packet. *)
LEMMA TransmitType ==
  ASSUME TInv, NEW e \in Ends, NEW lost, Transmit(e, lost)
  PROVE  TInv'
<1>1. /\ outbound \in [Ends -> Seq(Packet)] /\ outbound[e] # << >>
      /\ net \in [Ends -> SUBSET Packet] /\ Peer(e) \in Ends
      /\ \A x \in Ends : Len(outbound[x]) <= OutboundBuffer
      /\ OutboundBuffer \in Nat
  BY PeerFacts, ConstantsAssumption, Zenon DEF TInv, TypeOK, Transmit
<1>2. /\ Head(outbound[e]) \in Packet /\ Tail(outbound[e]) \in Seq(Packet)
      /\ Len(Tail(outbound[e])) <= OutboundBuffer
  BY <1>1
<1>3. /\ outbound' \in [Ends -> Seq(Packet)]
      /\ \A x \in Ends : Len(outbound'[x]) <= OutboundBuffer
  BY <1>1, <1>2 DEF Transmit
<1>4. net' \in [Ends -> SUBSET Packet]
  BY <1>1, <1>2 DEF Transmit
<1> QED BY <1>3, <1>4, Zenon DEF Transmit, TInv, TypeOK

(* Every step keeps the types. *)
LEMMA TypeStep == TInv /\ [Next]_vars => TInv'
<1> SUFFICES ASSUME TInv, [Next]_vars PROVE TInv'
  OBVIOUS
<1>1. CASE UNCHANGED vars
  BY <1>1, Zenon DEF vars, layerVars, TInv, TypeOK
<1>2. ASSUME NEW e \in Ends,
             \/ SendHardReset(e)
             \/ \E n \in 1..MaxPackets[e] : Write(e, n)
             \/ WriteResumed(e)
             \/ WriteNext(e)
             \/ Read(e)
             \/ CloseRead(e)
             \/ Close(e)
             \/ \E pkt \in net[e], dup \in BOOLEAN : Deliver(e, pkt, dup)
             \/ Stray(e)
             \/ TickAny(e)
             \/ TickClosed(e)
             \/ \E lost \in BOOLEAN : Transmit(e, lost)
      PROVE  TInv'
  <2>1. CASE SendHardReset(e)
    BY <2>1, SendHardResetType
  <2>2. CASE \E n \in 1..MaxPackets[e] : Write(e, n)
    BY <2>2, WriteFromType, ConstantsAssumption DEF Write
  <2>3. CASE WriteResumed(e) \/ WriteNext(e)
    <3>1. writer[e].left \in Nat \ {0}
      BY <2>3 DEF WriteResumed, WriteNext, TInv, TypeOK
    <3> QED BY <2>3, <3>1, WriteFromType, WriteChunkType DEF WriteResumed, WriteNext
  <2>4. CASE Read(e)
    BY <2>4, ReadType
  <2>5. CASE CloseRead(e) \/ Close(e)
    BY <2>5, CloseType
  <2>6. CASE \E pkt \in net[e], dup \in BOOLEAN : Deliver(e, pkt, dup)
    BY <2>6, DeliverType
  <2>7. CASE Stray(e)
    BY <2>7, StrayType
  <2>8. CASE TickAny(e)
    BY <2>8, TickType
  <2>9. CASE TickClosed(e)
    BY <2>9, Zenon DEF TickClosed, TInv, TypeOK
  <2>10. CASE \E lost \in BOOLEAN : Transmit(e, lost)
    BY <2>10, TransmitType
  <2> QED BY <1>2, <2>1, <2>2, <2>3, <2>4, <2>5, <2>6, <2>7, <2>8, <2>9, <2>10, Zenon
<1> QED BY <1>1, <1>2, Zenon DEF Next

(* The types and the bounds the later proofs need hold always. *)
LEMMA TypeInvariant == Spec => []TInv
BY InitType, TypeStep, PTL DEF Spec

(* Every variable of both layers stays in its domain, whatever the bounds. *)
THEOREM TypeCorrect == Spec => []TypeOK
<1>1. TInv => TypeOK
  BY DEF TInv
<1> QED BY TypeInvariant, <1>1, PTL
=============================================================================
