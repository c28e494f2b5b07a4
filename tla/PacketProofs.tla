---------------------------- MODULE PacketProofs ----------------------------
(***************************************************************************)
(* What a session does with the packets of both channels, for every size   *)
(* of the windows and of the words, every number of packets, every rekey   *)
(* threshold and any goroutines.  The control channel's window first       *)
(* (module ControlWrap, here the instance Control): no packet-id is given  *)
(* out twice, none is unwrapped twice, and the bitmap is exactly the set   *)
(* of packets unwrapped.  Then the same of the data channel's (module      *)
(* ReplayWindow, here the instance Data), whose bitmap is spread over      *)
(* words.  Then the data path (module DataPath): no nonce twice, the       *)
(* reason of a close told, and handlers that stay quiet once they are      *)
(* replaced.                                                               *)
(***************************************************************************)
EXTENDS PacketPath, TLAPS

(* The provers every leaf may use, and how long the first may take. *)
USE SMTT(20), Zenon

-----------------------------------------------------------------------------
(* Wrap.  The packet-ids in the hands of the writeLoops are as distinct as *)
(* those on the wire.                                                      *)

WrapInv ==
  /\ wrapPID \in 0 .. MaxPID /\ trailer \in BOOLEAN
  /\ wrap \in [Wrappers -> 0 .. MaxPID]
  /\ wire \subseteq [pid : 1 .. MaxPID, trailer : BOOLEAN, by : Wrappers]
  /\ \A w \in Wrappers : wrap[w] <= wrapPID
  /\ \A v, w \in Wrappers : wrap[v] = wrap[w] /\ wrap[v] # 0 => v = w
  /\ \A pkt \in wire : /\ pkt.pid <= wrapPID
                       /\ pkt.trailer => ~trailer
                       /\ \A w \in Wrappers : wrap[w] # pkt.pid
  /\ WrapsDistinct

(* Every step keeps the packet-ids distinct. *)
LEMMA WrapStep == WrapInv /\ [Control!Next]_Control!vars => WrapInv'
<1> SUFFICES ASSUME WrapInv, [Control!Next]_Control!vars PROVE WrapInv'
  OBVIOUS
<1> USE ControlWrapAssumption
<1>1. ASSUME NEW w \in Wrappers, Control!WrapPID(w) PROVE WrapInv'
  <2>1. /\ wrapPID' = wrapPID + 1 /\ wrapPID' \in 0 .. MaxPID
        /\ wrap' = [wrap EXCEPT ![w] = wrapPID'] /\ trailer' = trailer /\ wire' = wire
    BY <1>1 DEF Control!WrapPID, WrapInv
  <2>2. wrap' \in [Wrappers -> 0 .. MaxPID]
    BY <2>1 DEF WrapInv
  <2>3. \A v \in Wrappers : wrap'[v] <= wrapPID' /\ (v # w => wrap'[v] <= wrapPID)
    BY <2>1 DEF WrapInv
  <2>4. \A u, v \in Wrappers : wrap'[u] = wrap'[v] /\ wrap'[u] # 0 => u = v
    BY <2>1, <2>3 DEF WrapInv
  <2>5. \A pkt \in wire : pkt.pid \in 1 .. MaxPID /\ pkt.pid <= wrapPID
    BY DEF WrapInv
  <2>6. \A pkt \in wire' : /\ pkt.pid <= wrapPID'
                           /\ pkt.trailer => ~trailer'
                           /\ \A v \in Wrappers : wrap'[v] # pkt.pid
    BY <2>1, <2>5 DEF WrapInv
  <2>7. WrapsDistinct'
    BY <2>1 DEF WrapsDistinct, Control!WrapsDistinct, WrapInv
  <2> QED BY <2>1, <2>2, <2>3, <2>4, <2>6, <2>7 DEF WrapInv
<1>2. ASSUME NEW w \in Wrappers, Control!WrapSeal(w) PROVE WrapInv'
  <2> DEFINE new == [pid |-> wrap[w], trailer |-> trailer, by |-> w]
  <2>1. /\ wrap[w] # 0 /\ wrap[w] \in 1 .. MaxPID
        /\ wire' = wire \cup {new} /\ trailer' = FALSE
        /\ wrap' = [wrap EXCEPT ![w] = 0] /\ wrapPID' = wrapPID
    BY <1>2 DEF Control!WrapSeal, WrapInv
  <2>2. wire' \subseteq [pid : 1 .. MaxPID, trailer : BOOLEAN, by : Wrappers]
    BY <2>1 DEF WrapInv
  <2>3. \A u, v \in Wrappers : wrap'[u] = wrap'[v] /\ wrap'[u] # 0 => u = v
    BY <2>1 DEF WrapInv
  <2>4. \A pkt \in wire : pkt.pid # wrap[w] /\ (pkt.trailer => ~trailer)
    BY DEF WrapInv
  <2>5. \A pkt \in wire' : /\ pkt.pid <= wrapPID'
                           /\ pkt.trailer => ~trailer'
                           /\ \A v \in Wrappers : wrap'[v] # pkt.pid
    <3>1. ASSUME NEW v \in Wrappers PROVE wrap'[v] # wrap[w]
      BY <2>1 DEF WrapInv
    <3>2. ASSUME NEW pkt \in wire, NEW v \in Wrappers PROVE wrap'[v] # pkt.pid
      BY <2>1 DEF WrapInv
    <3> QED BY <2>1, <3>1, <3>2 DEF WrapInv
  <2>6. WrapsDistinct'
    <3>1. \A a, b \in wire : a.pid = b.pid \/ (a.trailer /\ b.trailer) => a = b
      BY DEF WrapsDistinct, Control!WrapsDistinct, WrapInv
    <3>2. ASSUME NEW a \in wire PROVE a.pid # new.pid /\ ~(a.trailer /\ new.trailer)
      BY <2>4
    <3> QED BY <2>1, <3>1, <3>2 DEF WrapsDistinct, Control!WrapsDistinct
  <2>7. wrap' \in [Wrappers -> 0 .. MaxPID] /\ \A v \in Wrappers : wrap'[v] <= wrapPID'
    BY <2>1 DEF WrapInv
  <2>8. wrapPID' \in 0 .. MaxPID
    BY <2>1 DEF WrapInv
  <2> HIDE DEF new
  <2> QED BY <2>1, <2>2, <2>3, <2>5, <2>6, <2>7, <2>8, Zenon DEF WrapInv
<1>3. CASE UNCHANGED Control!wrapVars
  BY <1>3 DEF Control!wrapVars, WrapInv, WrapsDistinct, Control!WrapsDistinct
<1>4. ASSUME NEW u \in Unwrappers, NEW pid, NEW genuine,
             \/ Control!UnwrapTest(u, pid, genuine)
             \/ Control!UnwrapForged(u) \/ Control!UnwrapAccept(u)
      PROVE  UNCHANGED Control!wrapVars
  BY <1>4 DEF Control!UnwrapTest, Control!UnwrapForged, Control!UnwrapAccept, Control!wrapVars
<1>5. CASE UNCHANGED Control!vars
  BY <1>3, <1>5 DEF Control!vars
<1> QED BY <1>1, <1>2, <1>3, <1>4, <1>5 DEF Control!Next

(* No two control packets carry the same packet-id, and one at most the    *)
(* trailer, however many writeLoops share the wrapper (Wrap).              *)
THEOREM DistinctWraps == Control!Spec => []WrapsDistinct
<1>1. Control!Init => WrapInv
  BY ControlWrapAssumption DEF Control!Init, WrapInv, WrapsDistinct, Control!WrapsDistinct
<1>2. WrapInv => WrapsDistinct
  BY DEF WrapInv
<1> QED BY <1>1, <1>2, WrapStep, PTL DEF Control!Spec

-----------------------------------------------------------------------------
(* Unwrap.  The bitmap, seen from the highest packet-id, is the set of the *)
(* packets unwrapped; none of its bits lies below packet-id 1.             *)

UnwrapInv ==
  /\ highest \in 0 .. MaxPID
  /\ bitmap \subseteq 0 .. windowSize - 1
  /\ unwrap \in [Unwrappers -> [pid : 0 .. MaxPID, genuine : BOOLEAN]]
  /\ unwrapped \in [0 .. MaxPID -> 0 .. 1]
  /\ \A p \in 0 .. MaxPID : unwrapped[p] > 0 => 0 < p /\ p <= highest
  /\ \A b \in 0 .. windowSize - 1 :
       b \in bitmap <=> b < highest /\ unwrapped[highest - b] > 0

(* Test lets through the packets that are new and lie in the window. *)
LEMMA TestFacts ==
  ASSUME UnwrapInv, NEW p \in 0 .. MaxPID
  PROVE  Control!Test(p) <=> p > 0 /\ unwrapped[p] = 0 /\ highest - p < windowSize
<1> USE ControlWrapAssumption
<1>1. highest \in Int /\ p \in Int /\ unwrapped[p] \in 0 .. 1
  BY DEF UnwrapInv
<1>2. CASE p > highest
  BY <1>1, <1>2 DEF Control!Test, UnwrapInv
<1>3. CASE p <= highest /\ highest - p < windowSize /\ p > 0
  <2>1. highest - p \in 0 .. windowSize - 1 /\ highest - (highest - p) = p
    BY <1>1, <1>3
  <2>2. highest - p \in bitmap <=> unwrapped[p] > 0
    BY <1>1, <1>3, <2>1 DEF UnwrapInv
  <2> QED BY <1>1, <1>3, <2>2 DEF Control!Test
<1>4. CASE p = 0 \/ (p <= highest /\ ~(highest - p < windowSize))
  BY <1>1, <1>4 DEF Control!Test
<1> QED BY <1>1, <1>2, <1>3, <1>4

(* Accept records the packet, wherever it lies, and moves the other bits   *)
(* with the highest packet-id.                                             *)
LEMMA RecordStep ==
  ASSUME UnwrapInv, NEW p \in 0 .. MaxPID, Control!Test(p), Control!Record(p),
         unwrapped' = [unwrapped EXCEPT ![p] = @ + 1],
         unwrap' \in [Unwrappers -> [pid : 0 .. MaxPID, genuine : BOOLEAN]]
  PROVE  UnwrapInv'
<1> USE ControlWrapAssumption
<1>1. p > 0 /\ unwrapped[p] = 0 /\ highest - p < windowSize
  BY TestFacts
<1>2. /\ highest \in 0 .. MaxPID /\ bitmap \subseteq 0 .. windowSize - 1
      /\ unwrapped \in [0 .. MaxPID -> 0 .. 1]
  BY DEF UnwrapInv
<1>3. /\ unwrapped' \in [0 .. MaxPID -> 0 .. 1]
      /\ \A q \in 0 .. MaxPID : unwrapped'[q] > 0 <=> unwrapped[q] > 0 \/ q = p
  BY <1>1, <1>2
<1>4. CASE p > highest
  <2>1. highest' = p
    BY <1>4 DEF Control!Record
  <2>2. \A b \in 0 .. windowSize - 1 : b \in bitmap' <=> b = 0 \/ b - (p - highest) \in bitmap
    <3>1. CASE p - highest >= windowSize
      <4>1. bitmap' = {0}
        BY <1>4, <3>1 DEF Control!Record
      <4> QED BY <1>2, <3>1, <4>1
    <3>2. CASE ~(p - highest >= windowSize)
      <4>1. bitmap' = {0} \cup {b \in 1 .. windowSize - 1 : b - (p - highest) \in bitmap}
        BY <1>4, <3>2 DEF Control!Record
      <4> QED BY <1>2, <1>4, <4>1
    <3> QED BY <3>1, <3>2
  <2>3. bitmap' \subseteq 0 .. windowSize - 1
    BY <1>4 DEF Control!Record
  <2>4. ASSUME NEW b \in 0 .. windowSize - 1
        PROVE  b \in bitmap' <=> b < p /\ unwrapped'[p - b] > 0
    <3>1. CASE b = 0
      BY <1>1, <1>3, <2>2, <3>1
    <3>2. CASE b # 0 /\ b < p - highest
      <4>1. p - b \in 0 .. MaxPID /\ p - b > highest /\ p - b # p
        BY <1>2, <3>2
      <4>2. ~(unwrapped'[p - b] > 0)
        BY <1>3, <4>1, <1>2 DEF UnwrapInv
      <4>3. b - (p - highest) \notin bitmap
        BY <1>2, <3>2
      <4> QED BY <2>2, <3>2, <4>2, <4>3
    <3>3. CASE b # 0 /\ ~(b < p - highest)
      <4> DEFINE c == b - (p - highest)
      <4>1. /\ c \in 0 .. windowSize - 1 /\ highest - c = p - b
            /\ c < highest <=> b < p
        BY <1>2, <1>4, <3>3
      <4>2. c \in bitmap <=> c < highest /\ unwrapped[p - b] > 0
        BY <4>1 DEF UnwrapInv
      <4>3. b < p => p - b \in 0 .. MaxPID /\ p - b # p
        BY <1>2, <3>3
      <4> QED BY <1>3, <2>2, <3>3, <4>1, <4>2, <4>3
    <3> QED BY <3>1, <3>2, <3>3
  <2>5. \A q \in 0 .. MaxPID : unwrapped'[q] > 0 => 0 < q /\ q <= p
    BY <1>1, <1>2, <1>3, <1>4 DEF UnwrapInv
  <2> QED BY <1>3, <2>1, <2>3, <2>4, <2>5 DEF UnwrapInv
<1>5. CASE p <= highest
  <2>1. highest' = highest /\ bitmap' = bitmap \cup {highest - p}
    BY <1>2, <1>5 DEF Control!Record
  <2>2. highest - p \in 0 .. windowSize - 1 /\ highest - (highest - p) = p
    BY <1>1, <1>2, <1>5
  <2>3. ASSUME NEW b \in 0 .. windowSize - 1
        PROVE  b \in bitmap' <=> b < highest /\ unwrapped'[highest - b] > 0
    <3>1. b < highest => highest - b \in 0 .. MaxPID
      BY <1>2
    <3>2. b = highest - p <=> highest - b = p
      BY <1>2
    <3>3. b \in bitmap <=> b < highest /\ unwrapped[highest - b] > 0
      BY DEF UnwrapInv
    <3>4. highest - b = p => b < highest
      BY <1>1, <1>2
    <3> QED BY <1>3, <2>1, <3>1, <3>2, <3>3, <3>4
  <2>4. \A q \in 0 .. MaxPID : unwrapped'[q] > 0 => 0 < q /\ q <= highest
    BY <1>1, <1>3, <1>5 DEF UnwrapInv
  <2>5. bitmap' \subseteq 0 .. windowSize - 1
    BY <1>2, <2>1, <2>2
  <2> QED BY <1>2, <1>3, <2>1, <2>3, <2>4, <2>5 DEF UnwrapInv
<1> QED BY <1>2, <1>4, <1>5

(* A step leaves the set of packets unwrapped alone, or adds one that      *)
(* passes.                                                                 *)
LEMMA UnwrapStep ==
  UnwrapInv /\ [Control!Next]_Control!vars =>
    UnwrapInv' /\ [Control!Sliding!Next]_unwrapped
<1> SUFFICES ASSUME UnwrapInv, [Control!Next]_Control!vars
             PROVE  UnwrapInv' /\ [Control!Sliding!Next]_unwrapped
  OBVIOUS
<1>1. CASE UNCHANGED Control!windowVars
  BY <1>1 DEF Control!windowVars, UnwrapInv
<1>2. ASSUME NEW w \in Wrappers, Control!WrapPID(w) \/ Control!WrapSeal(w)
      PROVE  UNCHANGED Control!windowVars
  BY <1>2 DEF Control!WrapPID, Control!WrapSeal
<1>3. ASSUME NEW u \in Unwrappers, NEW pid \in 0 .. MaxPID, NEW genuine \in BOOLEAN,
             Control!UnwrapTest(u, pid, genuine) \/ Control!UnwrapForged(u)
      PROVE  UnwrapInv' /\ UNCHANGED unwrapped
  <2>1. unwrap' \in [Unwrappers -> [pid : 0 .. MaxPID, genuine : BOOLEAN]]
    <3> DEFINE R == [pid : 0 .. MaxPID, genuine : BOOLEAN]
    <3>1. PICK r \in R : unwrap' = [unwrap EXCEPT ![u] = r]
      <4>1. Control!Idle \in R /\ [pid |-> pid, genuine |-> genuine] \in R
        BY ControlWrapAssumption DEF Control!Idle
      <4> QED BY <1>3, <4>1 DEF Control!UnwrapTest, Control!UnwrapForged
    <3>2. unwrap \in [Unwrappers -> R]
      BY DEF UnwrapInv
    <3> HIDE DEF R
    <3>3. unwrap' \in [Unwrappers -> R]
      BY <3>1, <3>2
    <3> QED BY <3>3 DEF R
  <2>2. UNCHANGED <<highest, bitmap, unwrapped>>
    BY <1>3 DEF Control!UnwrapTest, Control!UnwrapForged
  <2> QED BY <2>1, <2>2 DEF UnwrapInv
<1>4. ASSUME NEW u \in Unwrappers, Control!UnwrapAccept(u)
      PROVE  UnwrapInv' /\ [Control!Sliding!Next]_unwrapped
  <2> DEFINE p == unwrap[u].pid
  <2>1. p \in 0 .. MaxPID
    BY DEF UnwrapInv
  <2>2. unwrap' \in [Unwrappers -> [pid : 0 .. MaxPID, genuine : BOOLEAN]]
    BY <1>4, ControlWrapAssumption DEF Control!UnwrapAccept, UnwrapInv, Control!Idle
  <2>3. CASE Control!Test(p)
    <3>1. Control!Record(p) /\ unwrapped' = [unwrapped EXCEPT ![p] = @ + 1]
      BY <1>4, <2>3 DEF Control!UnwrapAccept
    <3>2. UnwrapInv'
      BY <2>1, <2>2, <2>3, <3>1, RecordStep, Zenon
    <3>3. p > 0 /\ unwrapped[p] = 0 /\ highest - p < windowSize
      BY <2>1, <2>3, TestFacts
    <3>4. unwrapped \in [0 .. MaxPID -> 0 .. 1]
      BY DEF UnwrapInv
    <3>5. unwrapped' = [unwrapped EXCEPT ![p] = 1]
      BY <2>1, <3>1, <3>3, <3>4
    <3>6. \A q \in 0 .. MaxPID : unwrapped[q] > 0 => q - p < windowSize
      BY <2>1, <3>3, ControlWrapAssumption DEF UnwrapInv
    <3>7. p \in 1 .. MaxPID
      BY <2>1, <3>3
    <3> QED BY <3>2, <3>3, <3>5, <3>6, <3>7, Zenon
            DEF Control!Sliding!Next, Control!Sliding!Pass
  <2>4. CASE ~Control!Test(p)
    <3>1. UNCHANGED <<highest, bitmap, unwrapped>>
      BY <1>4, <2>4 DEF Control!UnwrapAccept
    <3> QED BY <2>2, <3>1 DEF UnwrapInv
  <2> QED BY <2>3, <2>4
<1>5. CASE UNCHANGED Control!vars
  BY <1>1, <1>5 DEF Control!vars
<1>6. CASE \E w \in Wrappers : Control!WrapPID(w) \/ Control!WrapSeal(w)
  BY <1>1, <1>2, <1>6
<1>7. CASE \E u \in Unwrappers :
             \/ \E pid \in 0 .. MaxPID, genuine \in BOOLEAN : Control!UnwrapTest(u, pid, genuine)
             \/ Control!UnwrapForged(u)
  <2>1. 0 \in 0 .. MaxPID /\ TRUE \in BOOLEAN
    BY ControlWrapAssumption
  <2> QED BY <1>3, <1>7, <2>1, Zenon
<1>8. CASE \E u \in Unwrappers : Control!UnwrapAccept(u)
  BY <1>4, <1>8
<1> QED BY <1>5, <1>6, <1>7, <1>8 DEF Control!Next

(* A new window satisfies the invariant. *)
LEMMA UnwrapInit == Control!Init => UnwrapInv
BY ControlWrapAssumption DEF Control!Init, UnwrapInv, Control!Idle

(* No packet is handed on twice, although other goroutines unwrap between  *)
(* the Test and the Accept of one packet (Unwrap).                         *)
THEOREM UnwrappedOnce == Control!Spec => []Control!AtMostOnce
<1>1. UnwrapInv => Control!AtMostOnce
  BY DEF UnwrapInv, Control!AtMostOnce
<1> QED BY <1>1, UnwrapInit, UnwrapStep, PTL DEF Control!Spec

(* Test lets through exactly the packets that are new and lie in the       *)
(* window, whatever shifts the bitmap has been through (pidWindow).        *)
THEOREM ExactWindow == Control!Spec => []Control!WindowExact
<1>1. UnwrapInv => Control!WindowExact
  BY TestFacts DEF UnwrapInv, Control!WindowExact
<1> QED BY <1>1, UnwrapInit, UnwrapStep, PTL DEF Control!Spec

(* The window implements the counters with a horizon of SlidingWindow. *)
THEOREM ImplementsWindow == Control!Spec => ImplementsSlidingWindow
<1>1. Control!Init => Control!Sliding!Init
  BY DEF Control!Init, Control!Sliding!Init
<1> QED BY <1>1, UnwrapInit, UnwrapStep, PTL
        DEF Control!Spec, ImplementsSlidingWindow, Control!ImplementsSlidingWindow,
            Control!Sliding!Spec

-----------------------------------------------------------------------------
(* The data channel.  First the arithmetic of words and bits. *)

LEMMA MulNat ==
  ASSUME NEW i \in Nat, NEW j \in Nat
  PROVE  i * j \in Nat
OBVIOUS

LEMMA MulStep ==
  ASSUME NEW w \in Nat \ {0}, NEW i \in Int, NEW j \in Int, i < j
  PROVE  w * i + w <= w * j
<1>1. w * (j - i - 1) \in Nat
  BY MulNat
<1>2. w * (j - i - 1) = w * j - w * i - w
  OBVIOUS
<1> QED BY <1>1, <1>2

(* A number is its word and its bit ... *)
LEMMA DivMod ==
  ASSUME NEW w \in Nat \ {0}, NEW n \in Nat
  PROVE  /\ n = w * (n \div w) + (n % w)
         /\ n \div w \in Nat /\ n % w \in 0 .. w - 1
OBVIOUS

(* ... and has no others. *)
LEMMA DivUnique ==
  ASSUME NEW w \in Nat \ {0}, NEW q \in Nat, NEW r \in 0 .. w - 1
  PROVE  (w * q + r) \div w = q /\ (w * q + r) % w = r
<1> DEFINE n == w * q + r
<1>1. n \in Nat
  BY MulNat
<1>2. n = w * (n \div w) + (n % w) /\ n \div w \in Nat /\ n % w \in 0 .. w - 1
  BY <1>1, DivMod, Zenon
<1> DEFINE d == n \div w
           m == n % w
<1>3. w * d \in Int /\ w * q \in Int
  BY <1>2
<1> HIDE DEF n, d, m
<1>4. n = w * d + m /\ d \in Nat /\ m \in 0 .. w - 1 /\ n = w * q + r
  BY <1>2 DEF n, d, m
<1>5. ~(d < q)
  BY <1>3, <1>4, MulStep
<1>6. ~(q < d)
  BY <1>3, <1>4, MulStep
<1>7. d = q
  BY <1>4, <1>5, <1>6
<1> QED BY <1>3, <1>4, <1>7 DEF n, d, m

LEMMA WordCount == Data!nWords \in Nat
<1>1. WordBits \in Nat \ {0} /\ Size + WordBits - 1 \in Nat
  BY DataWindowAssumption
<1> QED BY <1>1, DivMod, Zenon DEF Data!nWords

(* The words reach as far as the window. *)
LEMMA WordInWindow ==
  ASSUME NEW o \in 0 .. Size - 1
  PROVE  o \div WordBits \in Data!Words /\ o % WordBits \in Data!Bits
<1> USE DataWindowAssumption
<1> DEFINE n == Size + WordBits - 1
           q == o \div WordBits
           c == n \div WordBits
<1>0. WordBits \in Nat \ {0} /\ o \in Nat /\ n \in Nat
  OBVIOUS
<1>1. /\ o = WordBits * q + (o % WordBits) /\ q \in Nat /\ o % WordBits \in 0 .. WordBits - 1
      /\ n = WordBits * c + (n % WordBits) /\ c \in Nat /\ n % WordBits \in 0 .. WordBits - 1
  BY <1>0, DivMod, Zenon
<1>2. WordBits * q \in Int /\ WordBits * c \in Int
  BY <1>1
<1>3. q < c
  <2>1. SUFFICES ASSUME c <= q PROVE FALSE
    BY <1>1
  <2>2. WordBits * c <= WordBits * q
    <3>1. CASE c = q
      BY <1>2, <3>1
    <3>2. CASE c < q
      BY <1>1, <1>2, <3>2, MulStep
    <3> QED BY <1>1, <2>1, <3>1, <3>2
  <2> QED BY <1>1, <1>2, <2>2
<1> QED BY <1>1, <1>3 DEF Data!Words, Data!Bits, Data!nWords

(* Bit o of the words together. *)
Has(bm, o) == o % WordBits \in bm[o \div WordBits]

(* Every marker ages by shift packets, across the words: what is marked    *)
(* after shiftLeftLocked was marked shift packets nearer.                  *)
LEMMA ShiftedBits ==
  ASSUME NEW bm \in [Data!Words -> SUBSET Data!Bits], NEW shift \in 1 .. Size - 1,
         NEW o \in 0 .. Size - 1
  PROVE  Has(Data!shiftLeftLocked(bm, shift), o) <=> shift <= o /\ Has(bm, o - shift)
<1> USE DataWindowAssumption
<1> DEFINE W == WordBits
           i == o \div W
           b == o % W
           ws == shift \div W
           bs == shift % W
           moved == IF i - ws >= 0 THEN Data!ShiftLeft(bm[i - ws], bs) ELSE {}
           carried == IF bs > 0 /\ i - ws - 1 >= 0
                      THEN Data!ShiftRight(bm[i - ws - 1], W - bs) ELSE {}
<1>0. W \in Nat \ {0} /\ o \in Nat /\ shift \in Nat
  OBVIOUS
<1>1. /\ o = W * i + b /\ i \in Nat /\ b \in 0 .. W - 1
      /\ shift = W * ws + bs /\ ws \in Nat /\ bs \in 0 .. W - 1
  BY <1>0, DivMod, Zenon
<1>2. i \in Data!Words /\ \A j \in Nat : j <= i => j \in Data!Words
  <2>1. i \in Data!Words
    BY WordInWindow, Zenon
  <2>2. Data!nWords \in Nat
    BY WordCount
  <2> HIDE DEF i
  <2> QED BY <2>1, <2>2 DEF Data!Words
<1>3. Has(Data!shiftLeftLocked(bm, shift), o) <=> b \in moved \/ b \in carried
  BY <1>2 DEF Has, Data!shiftLeftLocked

<1>4. CASE bs <= b
  <2>1. b \notin carried
    <3> SUFFICES ASSUME NEW x \in Data!Bits, b = x - (W - bs) PROVE FALSE
      BY <1>2, <1>1 DEF Data!ShiftRight
    <3> QED BY <1>1, <1>4 DEF Data!Bits
  <2>2. CASE ws <= i
    <3>1. i - ws \in Data!Words /\ b - bs \in 0 .. W - 1 /\ i - ws \in Nat
      BY <1>1, <1>2, <1>4, <2>2
    <3>2. b \in moved <=> b - bs \in bm[i - ws]
      BY <1>1, <2>2, <3>1 DEF Data!ShiftLeft, Data!Bits
    <3>3. o - shift = W * (i - ws) + (b - bs)
      BY <1>1
    <3>4. (o - shift) \div W = i - ws /\ (o - shift) % W = b - bs
      <4>1. ASSUME NEW q \in Nat, NEW r \in 0 .. W - 1, o - shift = W * q + r
            PROVE  (o - shift) \div W = q /\ (o - shift) % W = r
        BY <1>0, <4>1, DivUnique, Zenon
      <4> HIDE DEF W, i, b, ws, bs
      <4> QED BY <3>1, <3>3, <4>1
    <3>5. shift <= o
      BY <1>0, <3>1, <3>3, MulNat
    <3> QED BY <1>3, <2>1, <3>2, <3>4, <3>5 DEF Has
  <2>3. CASE i < ws
    <3>1. W * i + W <= W * ws
      BY <1>0, <1>1, <2>3, MulStep
    <3>2. ~(shift <= o)
      BY <1>0, <1>1, <3>1
    <3>3. b \notin moved
      BY <1>1, <2>3
    <3> QED BY <1>3, <2>1, <3>2, <3>3
  <2> QED BY <1>1, <2>2, <2>3
<1>5. CASE b < bs
  <2>1. b \notin moved
    <3> SUFFICES ASSUME NEW x \in Data!Bits, b = x + bs PROVE FALSE
      BY <1>2, <1>1 DEF Data!ShiftLeft
    <3> QED BY <1>1, <1>5 DEF Data!Bits
  <2>2. CASE ws < i
    <3>1. i - ws - 1 \in Data!Words /\ b - bs + W \in 0 .. W - 1 /\ i - ws - 1 \in Nat
      BY <1>1, <1>2, <1>5, <2>2
    <3>2. b \in carried <=> b - bs + W \in bm[i - ws - 1]
      BY <1>1, <1>5, <2>2, <3>1 DEF Data!ShiftRight, Data!Bits
    <3>3. o - shift = W * (i - ws - 1) + (b - bs + W)
      BY <1>1
    <3>4. (o - shift) \div W = i - ws - 1 /\ (o - shift) % W = b - bs + W
      <4>1. ASSUME NEW q \in Nat, NEW r \in 0 .. W - 1, o - shift = W * q + r
            PROVE  (o - shift) \div W = q /\ (o - shift) % W = r
        BY <1>0, <4>1, DivUnique, Zenon
      <4> HIDE DEF W, i, b, ws, bs
      <4> QED BY <3>1, <3>3, <4>1
    <3>5. shift <= o
      BY <1>0, <3>1, <3>3, MulNat
    <3> QED BY <1>3, <2>1, <3>2, <3>4, <3>5 DEF Has
  <2>3. CASE i <= ws
    <3>1. W * i <= W * ws
      <4>1. CASE i = ws
        BY <1>1, <4>1
      <4>2. CASE i < ws
        BY <1>0, <1>1, <4>2, MulStep
      <4> QED BY <1>1, <2>3, <4>1, <4>2
    <3>2. ~(shift <= o)
      BY <1>0, <1>1, <1>5, <3>1
    <3>3. b \notin carried
      BY <1>1, <2>3
    <3> QED BY <1>3, <2>1, <3>2, <3>3
  <2> QED BY <1>1, <2>2, <2>3
<1> QED BY <1>1, <1>4, <1>5

LEMMA ShiftedType ==
  ASSUME NEW bm, NEW shift
  PROVE  Data!shiftLeftLocked(bm, shift) \in [Data!Words -> SUBSET Data!Bits]
BY DEF Data!shiftLeftLocked, Data!ShiftLeft, Data!ShiftRight

(* Marking a packet marks no other. *)
LEMMA MarkedBit ==
  ASSUME NEW bm \in [Data!Words -> SUBSET Data!Bits], NEW m \in 0 .. Size - 1
  PROVE  LET marked == [bm EXCEPT ![m \div WordBits] = @ \cup {m % WordBits}]
         IN /\ marked \in [Data!Words -> SUBSET Data!Bits]
            /\ \A o \in 0 .. Size - 1 : Has(marked, o) <=> o = m \/ Has(bm, o)
<1> DEFINE q == m \div WordBits
           r == m % WordBits
           marked == [bm EXCEPT ![q] = @ \cup {r}]
<1>1. q \in Data!Words /\ r \in Data!Bits
  BY WordInWindow, Zenon
<1>2. m = WordBits * q + r
  BY DivMod, DataWindowAssumption
<1> HIDE DEF q, r
<1>3. marked \in [Data!Words -> SUBSET Data!Bits]
  BY <1>1
<1>4. ASSUME NEW o \in 0 .. Size - 1 PROVE Has(marked, o) <=> o = m \/ Has(bm, o)
  <2> DEFINE i == o \div WordBits
             b == o % WordBits
  <2>1. i \in Data!Words /\ b \in Data!Bits
    BY WordInWindow, Zenon
  <2>2. o = WordBits * i + b
    BY DivMod, DataWindowAssumption
  <2>3. o = m <=> i = q /\ b = r
    BY <1>2, <2>2, Zenon DEF q, r
  <2> HIDE DEF i, b
  <2>4. b \in marked[i] <=> (i = q /\ b = r) \/ b \in bm[i]
    BY <1>1, <2>1
  <2> QED BY <2>3, <2>4, Zenon DEF Has, i, b
<1> QED BY <1>3, <1>4, Zenon DEF q, r

-----------------------------------------------------------------------------
(* Open.  The bits of the words together, seen from the highest packet-id, *)
(* are the packets opened, as far back as the window goes; what the last   *)
(* word holds beyond the window is left free.                              *)

Opener == [pc : {"idle", "tested"}, pid : 0 .. MaxDataPID, genuine : BOOLEAN]

DataInv ==
  /\ dataHighest \in 0 .. MaxDataPID
  /\ dataBitmap \in [Data!Words -> SUBSET Data!Bits]
  /\ opener \in [Openers -> Opener]
  /\ opened \in [0 .. MaxDataPID -> 0 .. 1]
  /\ dataHighest > 0 => opened[dataHighest] > 0
  /\ \A p \in 0 .. MaxDataPID : opened[p] > 0 => 0 < p /\ p <= dataHighest
  /\ \A o \in 0 .. Size - 1 :
       Has(dataBitmap, o) <=> o < dataHighest /\ opened[dataHighest - o] > 0

(* Test lets through the packets that are new and lie in the window. *)
LEMMA DataTestFacts ==
  ASSUME DataInv, NEW p \in 0 .. MaxDataPID
  PROVE  Data!Test(p) <=> p > 0 /\ opened[p] = 0 /\ dataHighest - p < Size
<1>1. /\ dataHighest \in Int /\ p \in Int /\ opened[p] \in 0 .. 1 /\ Size \in Nat
      /\ dataHighest <= MaxDataPID /\ MaxDataPID \in Nat
  BY DataWindowAssumption DEF DataInv
<1>2. CASE p > dataHighest
  BY <1>1, <1>2 DEF Data!Test, DataInv
<1>3. CASE p <= dataHighest /\ dataHighest - p < Size /\ p > 0
  <2> DEFINE o == dataHighest - p
  <2>1. o \in 0 .. Size - 1 /\ dataHighest - o = p /\ o < dataHighest
    BY <1>1, <1>3
  <2>2. Has(dataBitmap, o) <=> opened[p] > 0
    BY <2>1, Zenon DEF DataInv
  <2>3. Data!Marked(p) <=> Has(dataBitmap, o)
    BY Zenon DEF Data!Marked, Has
  <2>4. ~Data!TooOld(p)
    BY <1>1, <1>3 DEF Data!TooOld
  <2>5. p # 0 /\ (opened[p] > 0 <=> opened[p] # 0)
    BY <1>1, <1>3
  <2> QED BY <1>3, <2>2, <2>3, <2>4, <2>5, Zenon DEF Data!Test
<1>4. CASE p = 0
  BY <1>4 DEF Data!Test
<1>5. CASE p <= dataHighest /\ ~(dataHighest - p < Size)
  BY <1>1, <1>5 DEF Data!Test, Data!TooOld
<1> QED BY <1>1, <1>2, <1>3, <1>4, <1>5

(* Accept records the packet, wherever it lies, and moves the other bits   *)
(* with the highest packet-id, out of one word and into the next.          *)
LEMMA DataRecordStep ==
  ASSUME DataInv, NEW p \in 0 .. MaxDataPID, Data!Test(p), Data!Record(p),
         opened' = [opened EXCEPT ![p] = @ + 1],
         opener' \in [Openers -> Opener]
  PROVE  DataInv'
<1>1. p > 0 /\ opened[p] = 0 /\ dataHighest - p < Size
  BY DataTestFacts
<1>2. /\ dataHighest \in 0 .. MaxDataPID
      /\ dataBitmap \in [Data!Words -> SUBSET Data!Bits]
      /\ opened \in [0 .. MaxDataPID -> 0 .. 1]
      /\ \A q \in 0 .. MaxDataPID : opened[q] > 0 => 0 < q /\ q <= dataHighest
  BY Zenon DEF DataInv
<1>3. Size \in Nat \ {0} /\ MaxDataPID \in Nat
  BY DataWindowAssumption
<1>4. /\ opened' \in [0 .. MaxDataPID -> 0 .. 1]
      /\ \A q \in 0 .. MaxDataPID : opened'[q] > 0 <=> opened[q] > 0 \/ q = p
  BY <1>1, <1>2
<1>5. CASE p > dataHighest
  <2> DEFINE shift == p - dataHighest
             bm == Data!shiftLeftLocked(dataBitmap, shift)
  <2>1. dataHighest' = p /\ dataBitmap' = [bm EXCEPT ![0] = @ \cup {0}]
    BY <1>5, Zenon DEF Data!Record
  <2>2. shift \in Nat \ {0}
    BY <1>2, <1>5
  <2>3. bm \in [Data!Words -> SUBSET Data!Bits]
    BY ShiftedType, Zenon
  <2>4. \A o \in 0 .. Size - 1 : Has(bm, o) <=> shift <= o /\ Has(dataBitmap, o - shift)
    <3>1. CASE shift < Size
      <4>1. shift \in 1 .. Size - 1
        BY <1>3, <2>2, <3>1
      <4> QED BY <1>2, <4>1, ShiftedBits, Zenon
    <3>2. CASE ~(shift < Size)
      <4>1. bm = [i \in Data!Words |-> {}]
        BY <1>3, <2>2, <3>2 DEF Data!shiftLeftLocked
      <4> HIDE DEF bm
      <4>2. ASSUME NEW o \in 0 .. Size - 1 PROVE ~Has(bm, o)
        <5>1. o \div WordBits \in Data!Words
          BY WordInWindow, Zenon
        <5> QED BY <4>1, <5>1, Zenon DEF Has
      <4>3. ASSUME NEW o \in 0 .. Size - 1 PROVE ~(shift <= o)
        BY <1>3, <2>2, <3>2
      <4> QED BY <4>2, <4>3, Zenon
    <3> QED BY <3>1, <3>2
  <2> HIDE DEF bm
  <2>5. /\ dataBitmap' \in [Data!Words -> SUBSET Data!Bits]
        /\ \A o \in 0 .. Size - 1 : Has(dataBitmap', o) <=> o = 0 \/ Has(bm, o)
    <3>1. 0 \in 0 .. Size - 1
      BY <1>3
    <3>2. 0 \div WordBits = 0 /\ 0 % WordBits = 0
      BY DataWindowAssumption
    <3>3. dataBitmap' = [bm EXCEPT ![0 \div WordBits] = @ \cup {0 % WordBits}]
      BY <2>1, <3>2, Zenon
    <3> QED BY <2>3, <3>1, <3>3, MarkedBit, Zenon
  <2>6. ASSUME NEW o \in 0 .. Size - 1
        PROVE  Has(dataBitmap', o) <=> o < p /\ opened'[p - o] > 0
    <3>1. CASE o = 0
      BY <1>1, <1>4, <2>5, <3>1
    <3>2. CASE o # 0 /\ o < shift
      <4>1. p - o \in 0 .. MaxDataPID /\ ~(p - o <= dataHighest) /\ p - o # p /\ ~(shift <= o)
        BY <1>2, <1>3, <3>2
      <4>2. ~(opened'[p - o] > 0)
        BY <1>2, <1>4, <4>1, Zenon
      <4> QED BY <2>4, <2>5, <3>2, <4>1, <4>2, Zenon
    <3>3. CASE o # 0 /\ ~(o < shift)
      <4> DEFINE c == o - shift
      <4>1. /\ c \in 0 .. Size - 1 /\ dataHighest - c = p - o /\ shift <= o
            /\ c < dataHighest <=> o < p
        BY <1>2, <1>3, <1>5, <3>3
      <4>2. Has(dataBitmap, c) <=> o < p /\ opened[p - o] > 0
        BY <4>1, Zenon DEF DataInv
      <4>3. o < p => p - o \in 0 .. MaxDataPID /\ p - o # p
        BY <1>2, <1>3, <3>3
      <4> QED BY <1>4, <2>4, <2>5, <3>3, <4>1, <4>2, <4>3, Zenon
    <3> QED BY <3>1, <3>2, <3>3
  <2>7. \A q \in 0 .. MaxDataPID : opened'[q] > 0 => 0 < q /\ q <= p
    BY <1>1, <1>2, <1>4, <1>5
  <2>8. opened'[p] > 0
    BY <1>4
  <2> QED BY <1>4, <2>1, <2>5, <2>6, <2>7, <2>8, Zenon DEF DataInv
<1>6. CASE p <= dataHighest
  <2> DEFINE m == dataHighest - p
  <2>1. /\ dataHighest' = dataHighest
        /\ dataBitmap' = [dataBitmap EXCEPT ![m \div WordBits] = @ \cup {m % WordBits}]
    BY <1>2, <1>6 DEF Data!Record
  <2>2. m \in 0 .. Size - 1 /\ dataHighest - m = p
    BY <1>1, <1>2, <1>3, <1>6
  <2> HIDE DEF m
  <2>3. /\ dataBitmap' \in [Data!Words -> SUBSET Data!Bits]
        /\ \A o \in 0 .. Size - 1 : Has(dataBitmap', o) <=> o = m \/ Has(dataBitmap, o)
    BY <1>2, <2>1, <2>2, MarkedBit, Zenon
  <2>4. ASSUME NEW o \in 0 .. Size - 1
        PROVE  Has(dataBitmap', o) <=> o < dataHighest /\ opened'[dataHighest - o] > 0
    <3>1. o < dataHighest => dataHighest - o \in 0 .. MaxDataPID
      BY <1>2, <1>3
    <3>2. o = m <=> dataHighest - o = p
      BY <1>2, <2>2
    <3>3. Has(dataBitmap, o) <=> o < dataHighest /\ opened[dataHighest - o] > 0
      BY Zenon DEF DataInv
    <3>4. dataHighest - o = p => o < dataHighest
      BY <1>1, <1>2
    <3> QED BY <1>4, <2>3, <3>1, <3>2, <3>3, <3>4, Zenon
  <2>5. \A q \in 0 .. MaxDataPID : opened'[q] > 0 => 0 < q /\ q <= dataHighest
    BY <1>1, <1>2, <1>4, <1>6, Zenon
  <2>6. dataHighest > 0 => opened'[dataHighest] > 0
    BY <1>2, <1>4, Zenon DEF DataInv
  <2> QED BY <1>2, <1>4, <2>1, <2>3, <2>4, <2>5, <2>6, Zenon DEF DataInv
<1> QED BY <1>2, <1>5, <1>6

(* A step leaves the set of packets opened alone, or adds one that passes. *)
LEMMA DataStep ==
  DataInv /\ [Data!Next]_Data!vars => DataInv' /\ [Data!Sliding!Next]_opened
<1> SUFFICES ASSUME DataInv, [Data!Next]_Data!vars
             PROVE  DataInv' /\ [Data!Sliding!Next]_opened
  OBVIOUS
<1>0. opener \in [Openers -> Opener] /\ Data!Idle \in Opener
  BY DataWindowAssumption DEF DataInv, Data!Idle, Opener
<1>1. ASSUME opener' \in [Openers -> Opener], UNCHANGED <<dataHighest, dataBitmap, opened>>
      PROVE  DataInv'
  BY <1>1 DEF DataInv
<1>2. ASSUME NEW o \in Openers, NEW pid \in 0 .. MaxDataPID, NEW genuine \in BOOLEAN,
             Data!OpenTest(o, pid, genuine)
      PROVE  DataInv' /\ UNCHANGED opened
  <2>1. [pc |-> "tested", pid |-> pid, genuine |-> genuine] \in Opener
    BY DEF Opener
  <2>2. opener' \in [Openers -> Opener]
    BY <1>0, <1>2, <2>1 DEF Data!OpenTest
  <2> QED BY <1>1, <1>2, <2>2, Zenon DEF Data!OpenTest
<1>3. ASSUME NEW o \in Openers, Data!OpenForged(o) PROVE DataInv' /\ UNCHANGED opened
  <2>1. opener' \in [Openers -> Opener]
    BY <1>0, <1>3 DEF Data!OpenForged
  <2> QED BY <1>1, <1>3, <2>1, Zenon DEF Data!OpenForged
<1>4. ASSUME NEW o \in Openers, Data!OpenAccept(o)
      PROVE  DataInv' /\ [Data!Sliding!Next]_opened
  <2> DEFINE p == opener[o].pid
  <2>1. p \in 0 .. MaxDataPID
    BY <1>0 DEF Opener
  <2>2. opener' \in [Openers -> Opener]
    BY <1>0, <1>4 DEF Data!OpenAccept
  <2>3. CASE Data!Test(p)
    <3>1. Data!Record(p) /\ opened' = [opened EXCEPT ![p] = @ + 1]
      BY <1>4, <2>3, Zenon DEF Data!OpenAccept
    <3>2. DataInv'
      BY <2>1, <2>2, <2>3, <3>1, DataRecordStep, Zenon
    <3>3. p > 0 /\ opened[p] = 0 /\ dataHighest - p < Size
      BY <2>1, <2>3, DataTestFacts, Zenon
    <3>4. opened \in [0 .. MaxDataPID -> 0 .. 1] /\ dataHighest \in 0 .. MaxDataPID
      BY Zenon DEF DataInv
    <3> HIDE DEF p
    <3>5. opened' = [opened EXCEPT ![p] = 1]
      BY <2>1, <3>1, <3>3, <3>4
    <3>6. \A q \in 0 .. MaxDataPID : opened[q] > 0 => q <= dataHighest
      BY Zenon DEF DataInv
    <3>7. \A q \in 0 .. MaxDataPID : opened[q] > 0 => q - p < Size
      BY <2>1, <3>3, <3>4, <3>6, DataWindowAssumption
    <3>8. p \in 1 .. MaxDataPID
      BY <2>1, <3>3
    <3> QED BY <3>2, <3>3, <3>5, <3>7, <3>8, Zenon DEF Data!Sliding!Next, Data!Sliding!Pass
  <2>4. CASE ~Data!Test(p)
    BY <1>1, <1>4, <2>2, <2>4, Zenon DEF Data!OpenAccept
  <2> QED BY <2>3, <2>4
<1>5. CASE UNCHANGED Data!vars
  BY <1>0, <1>1, <1>5 DEF Data!vars
<1> QED BY <1>2, <1>3, <1>4, <1>5, Zenon DEF Data!Next

(* A new window satisfies the invariant. *)
LEMMA DataInit == Data!Init => DataInv
<1> SUFFICES ASSUME Data!Init PROVE DataInv
  OBVIOUS
<1>1. Data!Idle \in Opener
  BY DataWindowAssumption DEF Data!Idle, Opener
<1>2. ASSUME NEW o \in 0 .. Size - 1 PROVE ~Has(dataBitmap, o)
  <2>1. o \div WordBits \in Data!Words
    BY WordInWindow, Zenon
  <2> QED BY <2>1, Zenon DEF Data!Init, Has
<1>3. /\ dataHighest = 0 /\ dataBitmap \in [Data!Words -> SUBSET Data!Bits]
      /\ opener \in [Openers -> Opener] /\ opened \in [0 .. MaxDataPID -> 0 .. 1]
      /\ \A p \in 0 .. MaxDataPID : ~(opened[p] > 0)
  BY <1>1, DataWindowAssumption DEF Data!Init
<1>4. 0 \in 0 .. MaxDataPID /\ \A o \in 0 .. Size - 1 : ~(o < 0)
  BY DataWindowAssumption
<1> QED BY <1>2, <1>3, <1>4 DEF DataInv

(* Test of the data window lets through exactly the packets that are new   *)
(* and lie in the window, for every word width and window size, whatever   *)
(* jumps moved its bits across word boundaries (shiftLeftLocked, Accept),  *)
(* and forged packets leave no trace in it (Open).                         *)
THEOREM DataExactWindow == Data!Spec => []DataWindowExact
<1>1. DataInv => DataWindowExact
  <2> SUFFICES ASSUME DataInv PROVE DataWindowExact
    OBVIOUS
  <2>1. \A p \in 0 .. MaxDataPID :
          Data!Test(p) <=> p > 0 /\ opened[p] = 0 /\ dataHighest - p < Size
    BY DataTestFacts
  <2> QED BY <2>1, Zenon DEF DataInv, DataWindowExact, Data!WindowExact
<1> QED BY <1>1, DataInit, DataStep, PTL DEF Data!Spec

(* The data window implements counters with a horizon: no packet is opened *)
(* twice, although two openers may test it before either accepts it, and   *)
(* none that lies Size or more below one opened before (Open, OpenInto).   *)
THEOREM DataImplementsWindow == Data!Spec => DataImplementsSlidingWindow
<1>1. Data!Init => Data!Sliding!Init
  BY DEF Data!Init, Data!Sliding!Init
<1> QED
  BY <1>1, DataInit, DataStep, PTL
     DEF Data!Spec, DataImplementsSlidingWindow, Data!ImplementsSlidingWindow,
         Data!Sliding!Spec

-----------------------------------------------------------------------------
(* The data path.  Its writers are counted. *)

INSTANCE FiniteSetTheorems

PCs == {"idle", "seal", "reseal", "send", "failed", "torn down", "rekey", "rekeying", "poll"}

(* The writers that may still count slot up without another look at the    *)
(* margin: those about to seal on it, and those on an older slot that a    *)
(* rekey may yet send there.                                               *)
Owed(slot) ==
  {w \in Writers :
     \/ writer[w].pc \in {"seal", "reseal"} /\ writer[w].slot = slot
     \/ writer[w].pc \in {"seal", "rekey", "rekeying", "poll"} /\ writer[w].slot < slot}

WriterInv ==
  /\ active \in Slots
  /\ writer \in [Writers -> [pc : PCs, slot : 0 .. MaxSlots]]
  /\ \A w \in Writers : writer[w].slot <= active
  /\ \A w \in Writers : writer[w].pc \in {"seal", "reseal"} => writer[w].slot # 0
  /\ inProgress \in Writers => writer[inProgress].pc = "rekeying"

(* A slot's counter stays so far below the width that everyone who may     *)
(* still add one to it can do so before it wraps; every nonce is one that  *)
(* the counter has passed.                                                 *)
CountInv ==
  /\ sendPID \in [Slots -> Nat]
  /\ \A s \in Slots : s > active => sendPID[s] = 0
  /\ \A s \in Slots : sendPID[s] + Cardinality(Owed(s)) < Width
  /\ \A n \in nonces : n \in Slots \X Nat /\ n[2] <= sendPID[n[1]]
  /\ ~reused

NonceInv == WriterInv /\ CountInv

-----------------------------------------------------------------------------
(* Nonces *)

(* The constants are natural numbers. *)
LEMMA Numbers ==
  /\ Threshold \in Nat \ {0} /\ Width \in Nat \ {0} /\ MaxSlots \in Nat \ {0}
  /\ IsFiniteSet(Writers) /\ None \notin Writers /\ RekeyWatch \notin Writers
  /\ Cardinality(Writers) \in Nat
  /\ Threshold + Cardinality(Writers) + 1 < Width
BY DataPathAssumption, FS_CardinalityType

(* Writers can be counted. *)
LEMMA CountWriters ==
  ASSUME NEW T \in SUBSET Writers
  PROVE  IsFiniteSet(T) /\ Cardinality(T) \in Nat /\ Cardinality(T) <= Cardinality(Writers)
BY Numbers, FS_Subset, FS_CardinalityType

(* Fewer writers are fewer. *)
LEMMA CountFewer ==
  ASSUME NEW S \in SUBSET Writers, NEW T \in SUBSET S
  PROVE  Cardinality(T) <= Cardinality(S)
BY CountWriters, FS_Subset

(* As long as nobody joins those who may still seal on a slot, and its     *)
(* counter and the nonces stay, nothing can go wrong.                      *)
LEMMA NobodyJoins ==
  ASSUME CountInv, active' \in Slots, active' >= active, active \in Slots,
         UNCHANGED <<sendPID, nonces, reused>>,
         \A s \in Slots : Owed(s)' \subseteq Owed(s)
  PROVE  CountInv'
<1>1. ASSUME NEW s \in Slots PROVE (sendPID[s] + Cardinality(Owed(s)) < Width)'
  <2>1. Owed(s) \in SUBSET Writers /\ Owed(s)' \in SUBSET Writers
    BY DEF Owed
  <2>2. Cardinality(Owed(s)') <= Cardinality(Owed(s))
    BY <2>1, CountFewer
  <2>3. /\ Cardinality(Owed(s)) \in Nat /\ Cardinality(Owed(s)') \in Nat
        /\ sendPID[s] \in Nat /\ sendPID[s] + Cardinality(Owed(s)) < Width
    BY <2>1, CountWriters DEF CountInv
  <2> QED BY <2>2, <2>3, Numbers
<1>2. \A s \in Slots : s > active' => s > active
  BY DEF Slots
<1> QED BY <1>1, <1>2 DEF CountInv

(* A writer returns. *)
LEMMA ReturnFacts ==
  ASSUME WriterInv, NEW w \in Writers,
         writer' = [writer EXCEPT ![w] = [pc |-> "idle", slot |-> 0]]
  PROVE  /\ writer'[w].pc = "idle" /\ writer'[w].slot = 0
         /\ \A v \in Writers \ {w} : writer'[v] = writer[v]
         /\ writer' \in [Writers -> [pc : PCs, slot : 0 .. MaxSlots]]
<1>1. [pc |-> "idle", slot |-> 0] \in [pc : PCs, slot : 0 .. MaxSlots]
  BY Numbers DEF PCs
<1> QED BY <1>1 DEF WriterInv

(* A writer goes on. *)
LEMMA GotoFacts ==
  ASSUME WriterInv, NEW w \in Writers, NEW pc \in PCs,
         writer' = [writer EXCEPT ![w].pc = pc]
  PROVE  /\ writer'[w].pc = pc /\ writer'[w].slot = writer[w].slot
         /\ \A v \in Writers \ {w} : writer'[v] = writer[v]
         /\ writer' \in [Writers -> [pc : PCs, slot : 0 .. MaxSlots]]
BY DEF WriterInv

(* A writer turns to the active slot. *)
LEMMA TurnFacts ==
  ASSUME WriterInv, NEW w \in Writers, NEW pc \in PCs,
         writer' = [writer EXCEPT ![w].pc = pc, ![w].slot = active]
  PROVE  /\ writer'[w].pc = pc /\ writer'[w].slot = active
         /\ \A v \in Writers \ {w} : writer'[v] = writer[v]
         /\ writer' \in [Writers -> [pc : PCs, slot : 0 .. MaxSlots]]
<1>1. active \in 0 .. MaxSlots
  BY Numbers DEF WriterInv, Slots
<1> DEFINE one == [writer EXCEPT ![w].pc = pc]
<1>2. /\ one \in [Writers -> [pc : PCs, slot : 0 .. MaxSlots]] /\ one[w].pc = pc
      /\ \A v \in Writers \ {w} : one[v] = writer[v]
  BY DEF WriterInv
<1>3. writer' = [one EXCEPT ![w].slot = active]
  OBVIOUS
<1> HIDE DEF one
<1>4. writer'[w] = [one[w] EXCEPT !.slot = active]
  BY <1>2, <1>3, Zenon
<1>5. one[w] \in [pc : PCs, slot : 0 .. MaxSlots]
  BY <1>2
<1>6. writer'[w].pc = pc /\ writer'[w].slot = active
  BY <1>2, <1>4, <1>5
<1>7. writer'[w] \in [pc : PCs, slot : 0 .. MaxSlots]
  BY <1>1, <1>4, <1>5, Zenon
<1> QED BY <1>2, <1>3, <1>6, <1>7

(* What is to be seen to when one writer moves. *)
LEMMA WriterKept ==
  ASSUME WriterInv, NEW w \in Writers,
         active' \in Slots, active' >= active,
         writer' \in [Writers -> [pc : PCs, slot : 0 .. MaxSlots]],
         \A v \in Writers \ {w} : writer'[v] = writer[v],
         writer'[w].slot <= active',
         writer'[w].pc \in {"seal", "reseal"} => writer'[w].slot # 0,
         inProgress' = w => writer'[w].pc = "rekeying",
         inProgress' \in Writers \ {w} => inProgress' = inProgress
  PROVE  WriterInv'
<1>1. \A v \in Writers : writer'[v].slot <= active'
  <2>1. ASSUME NEW v \in Writers \ {w} PROVE writer'[v].slot <= active'
    <3>1. writer'[v] = writer[v] /\ writer[v].slot <= active /\ writer[v].slot \in 0 .. MaxSlots
      BY DEF WriterInv
    <3> QED BY <3>1 DEF WriterInv, Slots
  <2> QED BY <2>1
<1>2. \A v \in Writers : writer'[v].pc \in {"seal", "reseal"} => writer'[v].slot # 0
  BY DEF WriterInv
<1>3. inProgress' \in Writers => writer'[inProgress'].pc = "rekeying"
  BY DEF WriterInv
<1> QED BY <1>1, <1>2, <1>3 DEF WriterInv

(* A call that begins on the active slot joins those who may seal there,   *)
(* and on the slots to come; the margin has room for all writers.          *)
LEMMA WriteStep ==
  ASSUME NonceInv, NEW w \in Writers, Write(w)
  PROVE  NonceInv'
<1> USE DEF NonceInv
<1>1. CASE closed
  <2>1. writer' = [writer EXCEPT ![w] = [pc |-> "idle", slot |-> 0]]
    BY <1>1 DEF Write, Return
  <2>2. UNCHANGED <<active, sendPID, inProgress, nonces, reused>> /\ writer[w].pc = "idle"
    BY DEF Write
  <2>3. WriterInv'
    <3>1. /\ writer'[w].pc = "idle" /\ writer'[w].slot = 0
          /\ \A v \in Writers \ {w} : writer'[v] = writer[v]
          /\ writer' \in [Writers -> [pc : PCs, slot : 0 .. MaxSlots]]
      BY <2>1, ReturnFacts, Zenon
    <3>2. /\ active' \in Slots /\ active' >= active /\ writer'[w].slot <= active'
          /\ inProgress # w
      BY <2>2, <3>1 DEF WriterInv, Slots
    <3> QED BY <2>2, <3>1, <3>2, WriterKept
  <2>4. \A s \in Slots : Owed(s)' \subseteq Owed(s)
    BY <2>1, <2>2 DEF WriterInv, Owed
  <2> QED BY <2>2, <2>3, <2>4, NobodyJoins DEF WriterInv, Slots
<1>2. CASE ~closed
  <2>1. writer' = [writer EXCEPT ![w].pc = "seal", ![w].slot = active]
    BY <1>2 DEF Write
  <2>2. /\ UNCHANGED <<active, sendPID, inProgress, nonces, reused>>
        /\ writer[w].pc = "idle" /\ WithinMargin
    BY DEF Write
  <2>3. WriterInv'
    <3>1. "seal" \in PCs
      BY DEF PCs
    <3>2. /\ writer'[w].pc = "seal" /\ writer'[w].slot = active
          /\ \A v \in Writers \ {w} : writer'[v] = writer[v]
          /\ writer' \in [Writers -> [pc : PCs, slot : 0 .. MaxSlots]]
      BY <2>1, <3>1, TurnFacts, Zenon
    <3>3. /\ active' \in Slots /\ active' >= active /\ writer'[w].slot <= active'
          /\ active # 0 /\ inProgress # w
      BY <2>2, <3>2 DEF WriterInv, Slots
    <3> QED BY <2>2, <3>2, <3>3, WriterKept
  <2>4. ASSUME NEW s \in Slots PROVE (sendPID[s] + Cardinality(Owed(s)) < Width)'
    <3>1. Owed(s) \in SUBSET Writers /\ Owed(s)' \in SUBSET Writers
      BY DEF Owed
    <3>2. /\ Cardinality(Owed(s)) \in Nat /\ Cardinality(Owed(s)') \in Nat
          /\ Cardinality(Owed(s)') <= Cardinality(Writers)
          /\ sendPID[s] \in Nat /\ sendPID[s] + Cardinality(Owed(s)) < Width
      BY <3>1, CountWriters DEF CountInv
    <3>3. CASE s > active
      BY <3>2, <3>3, <2>2, Numbers DEF CountInv
    <3>4. CASE s = active
      BY <3>2, <3>4, <2>2, Numbers DEF WithinMargin
    <3>5. CASE s < active
      <4>1. Owed(s)' \subseteq Owed(s)
        BY <2>1, <2>2, <3>5 DEF WriterInv, Owed, Slots
      <4>2. Cardinality(Owed(s)') <= Cardinality(Owed(s))
        BY <3>1, <4>1, CountFewer
      <4> QED BY <4>2, <3>2, <2>2, Numbers
    <3> QED BY <3>3, <3>4, <3>5 DEF WriterInv, Slots
  <2> QED BY <2>2, <2>3, <2>4 DEF CountInv
<1> QED BY <1>1, <1>2

(* Sealing adds one to the counter, and takes the writer from those who    *)
(* may add to it: the packet-id does not wrap, and is one nobody has had.  *)
LEMMA SealStep ==
  ASSUME NonceInv, NEW w \in Writers, Seal(w)
  PROVE  NonceInv'
<1> USE DEF NonceInv
<1>1. PICK slot \in Slots :
        slot = writer[w].slot /\ slot <= active /\ writer[w].pc \in {"seal", "reseal"}
  BY DEF Seal, WriterInv, Slots
<1> DEFINE pid == sendPID[slot] + 1
<1>2. Owed(slot) \in SUBSET Writers /\ w \in Owed(slot)
  BY <1>1 DEF Owed
<1>3. /\ IsFiniteSet(Owed(slot))
      /\ Cardinality(Owed(slot)) \in Nat /\ sendPID[slot] \in Nat
      /\ sendPID[slot] + Cardinality(Owed(slot)) < Width
      /\ Cardinality(Owed(slot)) # 0
  BY <1>1, <1>2, CountWriters, FS_EmptySet DEF CountInv
<1>4. pid < Width /\ pid \in Nat
  BY <1>3, Numbers
<1>5. NextPID(slot) = pid
  BY <1>4, Numbers DEF NextPID
<1>6. <<slot, pid>> \notin nonces
  <2>1. ASSUME <<slot, pid>> \in nonces PROVE FALSE
    <3>1. pid <= sendPID[slot]
      BY <2>1 DEF CountInv
    <3> QED BY <3>1, <1>3
  <2> QED BY <2>1
<1>7. Sealed(w, slot, pid)
  BY <1>1, <1>5 DEF Seal
<1> HIDE DEF pid
<1>8. /\ sendPID' = [sendPID EXCEPT ![slot] = pid]
      /\ UNCHANGED <<active, inProgress>>
  BY <1>7 DEF Sealed
<1>9. /\ writer'[w].pc \in {"send", "rekey", "idle"} /\ writer'[w].slot \in {0, slot}
      /\ writer'[w].pc = "rekey" => writer'[w].slot = slot /\ writer[w].pc = "seal"
      /\ \A v \in Writers \ {w} : writer'[v] = writer[v]
      /\ writer' \in [Writers -> [pc : PCs, slot : 0 .. MaxSlots]]
  <2>1. CASE writer' = [writer EXCEPT ![w].pc = "send"]
    BY <1>1, <2>1, GotoFacts, Zenon DEF PCs
  <2>2. CASE writer' = [writer EXCEPT ![w].pc = "rekey"] /\ writer[w].pc = "seal"
    BY <1>1, <2>2, GotoFacts, Zenon DEF PCs
  <2>3. CASE writer' = [writer EXCEPT ![w] = [pc |-> "idle", slot |-> 0]]
    BY <2>3, ReturnFacts, Zenon
  <2> QED BY <1>7, <2>1, <2>2, <2>3 DEF Sealed, Goto, Return
<1>10. writer[w].slot \in Nat /\ active \in Nat
  BY DEF WriterInv, Slots
<1>11. inProgress # w
  BY <1>1 DEF WriterInv
<1>12. WriterInv'
  BY <1>1, <1>8, <1>9, <1>10, <1>11, WriterKept DEF WriterInv, Slots
<1>13. Owed(slot)' = Owed(slot) \ {w}
  <2>1. w \notin Owed(slot)'
    BY <1>1, <1>9, <1>10 DEF Owed
  <2>2. \A v \in Writers \ {w} : v \in Owed(slot)' <=> v \in Owed(slot)
    BY <1>9 DEF Owed
  <2> QED BY <2>1, <2>2 DEF Owed
<1>14. \A s \in Slots : Owed(s)' \subseteq Owed(s)
  BY <1>1, <1>9 DEF Owed, WriterInv, Slots
<1>15. ASSUME NEW s \in Slots PROVE (sendPID[s] + Cardinality(Owed(s)) < Width)'
  <2>1. CASE s = slot
    <3>1. Cardinality(Owed(slot) \ {w}) = Cardinality(Owed(slot)) - 1
      BY <1>2, <1>3, FS_RemoveElement, Zenon
    <3>2. sendPID'[slot] = sendPID[slot] + 1
      BY <1>1, <1>8 DEF CountInv, pid
    <3> QED BY <2>1, <3>1, <3>2, <1>3, <1>13, Numbers
  <2>2. CASE s # slot
    <3>1. Owed(s) \in SUBSET Writers /\ Owed(s)' \in SUBSET Owed(s)
      BY <1>14 DEF Owed
    <3>2. /\ Cardinality(Owed(s)) \in Nat /\ Cardinality(Owed(s)') \in Nat
          /\ Cardinality(Owed(s)') <= Cardinality(Owed(s))
          /\ sendPID[s] \in Nat /\ sendPID[s] + Cardinality(Owed(s)) < Width
      BY <3>1, CountWriters, CountFewer DEF CountInv
    <3>3. sendPID'[s] = sendPID[s]
      BY <2>2, <1>8 DEF CountInv
    <3> QED BY <3>2, <3>3, Numbers
  <2> QED BY <2>1, <2>2
<1>16. /\ nonces' \in {nonces, nonces \cup {<<slot, pid>>}}
       /\ ~reused'
  BY <1>6, <1>7, Zenon DEF Sealed, CountInv
<1>17. \A n \in nonces' : n \in Slots \X Nat /\ n[2] <= sendPID'[n[1]]
  <2>1. sendPID'[slot] = pid /\ pid = sendPID[slot] + 1 /\ pid \in Nat
    BY <1>1, <1>4, <1>8 DEF CountInv, pid
  <2>2. ASSUME NEW n \in nonces PROVE n \in Slots \X Nat /\ n[2] <= sendPID'[n[1]]
    <3>1. n \in Slots \X Nat /\ n[2] <= sendPID[n[1]] /\ n[1] \in Slots /\ n[2] \in Nat
      BY DEF CountInv
    <3>2. sendPID[n[1]] <= sendPID'[n[1]] /\ sendPID[n[1]] \in Nat /\ sendPID'[n[1]] \in Nat
      BY <3>1, <2>1, <1>1, <1>3, <1>8 DEF CountInv
    <3> QED BY <3>1, <3>2
  <2>3. <<slot, pid>> \in Slots \X Nat /\ pid <= sendPID'[slot]
    BY <2>1, <1>1
  <2> QED BY <1>16, <2>2, <2>3
<1>18. sendPID' \in [Slots -> Nat] /\ \A s \in Slots : s > active' => sendPID'[s] = 0
  BY <1>1, <1>3, <1>4, <1>8 DEF CountInv, WriterInv, Slots
<1> QED BY <1>12, <1>15, <1>16, <1>17, <1>18 DEF CountInv

(* keepaliveLoop looks at the margin before it seals. *)
LEMMA SealPingStep ==
  ASSUME NonceInv, SealPing
  PROVE  NonceInv'
<1> USE DEF NonceInv
<1> DEFINE pid == sendPID[active] + 1
<1>1. /\ active \in Slots /\ sendPID[active] \in Nat
      /\ sendPID[active] + Cardinality(Writers) + 1 < Width
      /\ UNCHANGED <<active, inProgress, writer>>
  BY DEF SealPing, WithinMargin, WriterInv, CountInv
<1>2. pid < Width /\ pid \in Nat
  BY <1>1, Numbers
<1>3. NextPID(active) = pid
  BY <1>2, Numbers DEF NextPID
<1>4. <<active, pid>> \notin nonces
  <2>1. ASSUME <<active, pid>> \in nonces PROVE FALSE
    <3>1. pid <= sendPID[active]
      BY <2>1 DEF CountInv
    <3> QED BY <3>1, <1>1
  <2> QED BY <2>1
<1>5. /\ sendPID' = [sendPID EXCEPT ![active] = pid]
      /\ nonces' \in {nonces, nonces \cup {<<active, pid>>}} /\ ~reused'
  BY <1>3, <1>4, Zenon DEF SealPing, CountInv
<1>6. sendPID'[active] = pid /\ \A s \in Slots \ {active} : sendPID'[s] = sendPID[s]
  BY <1>1, <1>5 DEF CountInv
<1>7. WriterInv'
  BY <1>1 DEF WriterInv
<1>8. ASSUME NEW s \in Slots PROVE (sendPID[s] + Cardinality(Owed(s)) < Width)'
  <2>1. Owed(s)' = Owed(s) /\ Owed(s) \in SUBSET Writers
    BY <1>1 DEF Owed
  <2>2. /\ Cardinality(Owed(s)) \in Nat /\ Cardinality(Owed(s)) <= Cardinality(Writers)
        /\ sendPID[s] + Cardinality(Owed(s)) < Width
    BY <2>1, CountWriters DEF CountInv
  <2>3. CASE s = active
    BY <1>1, <1>6, <2>1, <2>2, <2>3, Numbers
  <2>4. CASE s # active
    BY <1>6, <2>1, <2>2, <2>4
  <2> QED BY <2>3, <2>4
<1>9. \A n \in nonces' : n \in Slots \X Nat /\ n[2] <= sendPID'[n[1]]
  <2>1. ASSUME NEW n \in nonces PROVE n \in Slots \X Nat /\ n[2] <= sendPID'[n[1]]
    <3>1. n \in Slots \X Nat /\ n[2] <= sendPID[n[1]] /\ n[1] \in Slots /\ n[2] \in Nat
      BY DEF CountInv
    <3>2. sendPID[n[1]] <= sendPID'[n[1]] /\ sendPID[n[1]] \in Nat /\ sendPID'[n[1]] \in Nat
      BY <3>1, <1>1, <1>2, <1>6 DEF CountInv
    <3> QED BY <3>1, <3>2
  <2>2. <<active, pid>> \in Slots \X Nat /\ pid <= sendPID'[active]
    BY <1>1, <1>2, <1>6
  <2> QED BY <1>5, <2>1, <2>2
<1>10. sendPID' \in [Slots -> Nat] /\ \A s \in Slots : s > active' => sendPID'[s] = 0
  BY <1>1, <1>2, <1>5, <1>6 DEF CountInv, Slots
<1> QED BY <1>5, <1>7, <1>8, <1>9, <1>10 DEF CountInv

(* A writer returns, goes on to anything but a seal, or falls back on a    *)
(* rekey.                                                                  *)
MovesOn(w) ==
  \/ writer' = [writer EXCEPT ![w] = [pc |-> "idle", slot |-> 0]]
  \/ \E pc \in {"send", "failed", "torn down"} : writer' = [writer EXCEPT ![w].pc = pc]
  \/ /\ writer[w].pc \in {"seal", "rekey", "rekeying"}
     /\ \E pc \in {"rekey", "rekeying", "poll"} : writer' = [writer EXCEPT ![w].pc = pc]

(* Then it joins nobody. *)
LEMMA MoveOn ==
  ASSUME NonceInv, NEW w \in Writers,
         active' \in Slots, active' >= active,
         UNCHANGED <<sendPID, nonces, reused>>,
         MovesOn(w),
         inProgress' = w => writer'[w].pc = "rekeying",
         inProgress' \in Writers \ {w} => inProgress' = inProgress
  PROVE  NonceInv'
<1> USE DEF NonceInv
<1>1. /\ writer' \in [Writers -> [pc : PCs, slot : 0 .. MaxSlots]]
      /\ \A v \in Writers \ {w} : writer'[v] = writer[v]
      /\ writer'[w].slot \in {0, writer[w].slot}
      /\ writer'[w].pc \notin {"seal", "reseal"}
      /\ writer'[w].pc \in {"rekey", "rekeying", "poll"} =>
           writer'[w].slot = writer[w].slot /\ writer[w].pc \in {"seal", "rekey", "rekeying"}
  <2>1. CASE writer' = [writer EXCEPT ![w] = [pc |-> "idle", slot |-> 0]]
    BY <2>1, ReturnFacts, Zenon
  <2>2. CASE \E pc \in {"send", "failed", "torn down"} : writer' = [writer EXCEPT ![w].pc = pc]
    BY <2>2, GotoFacts, Zenon DEF PCs
  <2>3. CASE /\ writer[w].pc \in {"seal", "rekey", "rekeying"}
             /\ \E pc \in {"rekey", "rekeying", "poll"} : writer' = [writer EXCEPT ![w].pc = pc]
    BY <2>3, GotoFacts, Zenon DEF PCs
  <2> QED BY <2>1, <2>2, <2>3, Zenon DEF MovesOn
<1>2. writer[w].slot \in 0 .. MaxSlots /\ writer[w].slot <= active /\ active \in Slots
  BY DEF WriterInv
<1>3. writer'[w].slot <= active'
  <2>1. writer[w].slot <= active' /\ 0 <= active'
    BY <1>2, Numbers DEF Slots
  <2> QED BY <1>1, <2>1
<1>4. WriterInv'
  BY <1>1, <1>3, WriterKept
<1>5. ASSUME NEW s \in Slots PROVE Owed(s)' \subseteq Owed(s)
  <2>1. w \in Owed(s)' => w \in Owed(s)
    BY <1>1 DEF Owed
  <2>2. \A v \in Writers \ {w} : v \in Owed(s)' => v \in Owed(s)
    BY <1>1 DEF Owed
  <2> QED BY <2>1, <2>2 DEF Owed
<1> QED BY <1>2, <1>4, <1>5, NobodyJoins

(* A writer whose rekey is over turns to the new slot, as it was owed. *)
LEMMA PollStep ==
  ASSUME NonceInv, NEW w \in Writers, Poll(w)
  PROVE  NonceInv'
<1> USE DEF NonceInv
<1>1. /\ writer[w].pc = "poll" /\ UNCHANGED <<active, sendPID, inProgress, nonces, reused>>
      /\ active \in Slots /\ active' >= active
  BY DEF Poll, WriterInv, Slots
<1>2. inProgress # w
  BY <1>1 DEF WriterInv
<1>3. CASE active = writer[w].slot
  BY <1>1, <1>2, <1>3, MoveOn, Zenon DEF Poll, Return, MovesOn
<1>4. CASE active # writer[w].slot
  <2>1. writer' = [writer EXCEPT ![w].pc = "reseal", ![w].slot = active]
    BY <1>4 DEF Poll
  <2>2. "reseal" \in PCs
    BY DEF PCs
  <2>3. /\ writer'[w].pc = "reseal" /\ writer'[w].slot = active
        /\ \A v \in Writers \ {w} : writer'[v] = writer[v]
        /\ writer' \in [Writers -> [pc : PCs, slot : 0 .. MaxSlots]]
    BY <2>1, <2>2, TurnFacts, Zenon
  <2>4. writer'[w].slot <= active' /\ active # 0
    BY <1>1, <2>3 DEF Slots
  <2>5. WriterInv'
    BY <1>1, <1>2, <2>3, <2>4, WriterKept
  <2>6. writer[w].slot < active /\ writer[w].slot \in Nat
    BY <1>1, <1>4 DEF WriterInv, Slots
  <2>7. ASSUME NEW s \in Slots PROVE Owed(s)' \subseteq Owed(s)
    <3>1. w \in Owed(s)' => w \in Owed(s)
      BY <1>1, <2>3, <2>6 DEF Owed
    <3>2. \A v \in Writers \ {w} : v \in Owed(s)' => v \in Owed(s)
      BY <2>3 DEF Owed
    <3> QED BY <3>1, <3>2 DEF Owed
  <2> QED BY <1>1, <2>5, <2>7, NobodyJoins
<1> QED BY <1>3, <1>4

(* No step of the data path breaks the invariant. *)
LEMMA NonceStep == NonceInv /\ [Next]_vars => NonceInv'
<1> SUFFICES ASSUME NonceInv, [Next]_vars PROVE NonceInv'
  OBVIOUS
<1>0. active \in Slots /\ active >= active /\ \A w \in Writers : inProgress = w => writer[w].pc = "rekeying"
  BY DEF NonceInv, WriterInv, Slots
<1>1. CASE \E w \in Writers : Write(w) \/ Seal(w) \/ Poll(w)
  BY <1>1, WriteStep, SealStep, PollStep
<1>2. ASSUME NEW w \in Writers, WritePacket(w) PROVE NonceInv'
  BY <1>0, <1>2, MoveOn, Zenon DEF WritePacket, Return, Goto, MovesOn
<1>3. ASSUME NEW w \in Writers, WriteFails(w) PROVE NonceInv'
  BY <1>0, <1>3, MoveOn, Zenon DEF WriteFails, Return, MovesOn
<1>4. ASSUME NEW w \in Writers, ForceRekey(w) PROVE NonceInv'
  <2>1. CASE inProgress' = inProgress
    BY <1>0, <1>4, <2>1, MoveOn, Zenon DEF ForceRekey, Return, Goto, MovesOn
  <2>2. CASE inProgress' = w /\ Goto(w, "rekeying")
    <3>1. writer'[w].pc = "rekeying"
      BY <2>2, GotoFacts, Zenon DEF NonceInv, Goto, PCs
    <3> QED BY <1>0, <1>4, <2>2, <3>1, MoveOn, Zenon DEF ForceRekey, Goto, MovesOn
  <2> QED BY <1>4, <2>1, <2>2, Zenon DEF ForceRekey
<1>5. ASSUME NEW w \in Writers, Switch(w) \/ RekeyFails(w) PROVE NonceInv'
  <2>1. writer[w].pc = "rekeying" /\ inProgress' = None /\ UNCHANGED <<sendPID, nonces, reused>>
    BY <1>0, <1>5, Zenon DEF Switch, RekeyFails
  <2>2. active' \in Slots /\ active' >= active
    <3>1. active' = active \/ (active < MaxSlots /\ active' = active + 1)
      BY <1>5, Zenon DEF Switch, RekeyFails
    <3> QED BY <1>0, <3>1, Numbers DEF Slots
  <2>3. Goto(w, "poll") \/ Return(w, "forced rekey")
    BY <1>5, Zenon DEF Switch, RekeyFails
  <2> QED BY <2>1, <2>2, <2>3, Numbers, MoveOn, Zenon DEF Goto, Return, MovesOn
<1>6. CASE Switch(RekeyWatch) \/ RekeyFails(RekeyWatch)
  <2>1. UNCHANGED <<writer, sendPID, nonces, reused>> /\ inProgress' = None
    BY <1>6, Numbers DEF Switch, RekeyFails
  <2>2. active' \in Slots /\ active' >= active
    <3>1. active' = active \/ (active < MaxSlots /\ active' = active + 1)
      BY <1>6, Zenon DEF Switch, RekeyFails
    <3> QED BY <1>0, <3>1, Numbers DEF Slots
  <2>3. WriterInv'
    BY <2>1, <2>2, Numbers DEF NonceInv, WriterInv, Slots
  <2>4. \A s \in Slots : Owed(s)' \subseteq Owed(s)
    BY <2>1 DEF Owed
  <2> QED BY <2>1, <2>2, <2>3, <2>4, <1>0, NobodyJoins DEF NonceInv
<1>7. CASE SealPing
  BY <1>7, SealPingStep
<1>8. CASE WatchRekeys \/ Inbound \/ Closing \/ UNCHANGED vars
  <2>1. /\ UNCHANGED <<active, sendPID, writer, nonces, reused>>
        /\ inProgress' = inProgress \/ inProgress' = RekeyWatch
    BY <1>8 DEF WatchRekeys, Inbound, PacketArrives, HandlerReturns, Enqueue, HandlerSet,
         SetIngressHandler, Read, ReadEnds, Closing, setCloseErr, Close, Shutdown, vars, outVars
  <2>2. \A s \in Slots : Owed(s)' = Owed(s)
    BY <2>1 DEF Owed
  <2> QED BY <2>1, <2>2, Numbers DEF NonceInv, WriterInv, CountInv
<1> QED BY <1>1, <1>2, <1>3, <1>4, <1>5, <1>6, <1>7, <1>8
        DEF Next, Outbound, WriterStep

-----------------------------------------------------------------------------
(* The close *)

(* The transport is closed after the context, and that after closed is     *)
(* set; a write that was cut off has seen the context done; a reason that  *)
(* was there when Close began stays.                                       *)
CloseInv ==
  /\ ctxDone => closed
  /\ ~transportOpen => ctxDone
  /\ closeErr \in {None, "RestartError"}
  /\ closedWith # None => closeErr # None
  /\ \A w \in Writers : writer[w].pc = "torn down" => ctxDone
  /\ misled = FALSE

(* What a call returns, other than the transport's own error, misleads     *)
(* nobody.                                                                 *)
LEMMA Honest ==
  ASSUME CloseInv, NEW r, Returned(r),
         r \in {"ok", "failed", "forced rekey", "ErrRekeyRequired", "ErrPacketIDExhausted",
                "deadline", closedErr}
  PROVE  misled' = FALSE
BY Zenon DEF CloseInv, Returned, closedErr, None

(* Where the writers go is the same to the close. *)
LEMMA WritersClose ==
  ASSUME NonceInv, CloseInv, NEW w \in Writers, Write(w) \/ WriterStep(w)
  PROVE  CloseInv'
<1> USE DEF NonceInv
<1>1. UNCHANGED closeVars
  BY Zenon DEF Write, WriterStep, Seal, Sealed, WritePacket, WriteFails, ForceRekey, Poll
<1>2. \A v \in Writers \ {w} : writer'[v] = writer[v]
  BY Zenon DEF Write, WriterStep, Seal, Sealed, WritePacket, WriteFails, ForceRekey, Poll, Return,
         Goto, WriterInv
<1>3. writer'[w].pc = "torn down" => ctxDone
  <2>1. CASE writer' = [writer EXCEPT ![w].pc = "torn down"] /\ (ctxDone \/ ~transportOpen)
    BY <2>1, Zenon DEF CloseInv
  <2>2. CASE \E pc \in PCs \ {"torn down"} : \/ Goto(w, pc)
                                             \/ writer' = [writer EXCEPT ![w].pc = pc, ![w].slot = active]
    BY <2>2, GotoFacts, TurnFacts, Zenon DEF Goto
  <2>3. CASE writer' = [writer EXCEPT ![w] = [pc |-> "idle", slot |-> 0]]
    BY <2>3, ReturnFacts, Zenon
  <2>4. /\ "send" \in PCs \ {"torn down"} /\ "failed" \in PCs \ {"torn down"}
        /\ "rekey" \in PCs \ {"torn down"} /\ "poll" \in PCs \ {"torn down"}
        /\ "rekeying" \in PCs \ {"torn down"} /\ "seal" \in PCs \ {"torn down"}
        /\ "reseal" \in PCs \ {"torn down"}
    BY DEF PCs
  <2>5. CASE Write(w)
    BY <2>2, <2>3, <2>4, <2>5, Zenon DEF Write, Return
  <2>6. CASE Seal(w)
    BY <2>2, <2>3, <2>4, <2>6, Zenon DEF Seal, Sealed, Return
  <2>7. CASE WritePacket(w)
    BY <2>1, <2>2, <2>3, <2>4, <2>7, Zenon DEF WritePacket, Return, Goto
  <2>8. CASE WriteFails(w) \/ ForceRekey(w) \/ Poll(w)
    BY <2>2, <2>3, <2>4, <2>8, Zenon DEF WriteFails, ForceRekey, Poll, Return
  <2> QED BY <2>5, <2>6, <2>7, <2>8, Zenon DEF WriterStep
<1>4. misled' = FALSE
  <2>1. CASE Write(w) \/ Seal(w) \/ WritePacket(w) \/ ForceRekey(w) \/ Poll(w)
    BY <2>1, Honest, Zenon DEF Write, Seal, Sealed, WritePacket, ForceRekey, Poll, Return, Goto, CloseInv
  <2>2. CASE WriteFails(w)
    <3>1. Returned(IF ctxDone THEN closedErr ELSE writer[w].pc)
      BY <2>2, Zenon DEF WriteFails, Return
    <3>2. CASE ctxDone
      BY <3>1, <3>2, Honest, Zenon
    <3>3. CASE ~ctxDone
      <4>1. writer[w].pc = "failed"
        BY <2>2, <3>3, Zenon DEF WriteFails, CloseInv
      <4> QED BY <3>1, <3>3, <4>1, Honest, Zenon
    <3> QED BY <3>2, <3>3, Zenon
  <2> QED BY <2>1, <2>2, Zenon DEF WriterStep
<1> QED BY <1>1, <1>2, <1>3, <1>4, Zenon DEF CloseInv, closeVars

(* No step breaks the order of the close, or misleads anyone. *)
LEMMA CloseStep == NonceInv /\ CloseInv /\ [Next]_vars => CloseInv'
<1> SUFFICES ASSUME NonceInv, CloseInv, [Next]_vars PROVE CloseInv'
  OBVIOUS
<1>1. CASE \E w \in Writers : Write(w) \/ WriterStep(w)
  BY <1>1, WritersClose
<1>2. ASSUME NEW w \in Writers \cup {RekeyWatch}, Switch(w) \/ RekeyFails(w) PROVE CloseInv'
  <2>1. /\ UNCHANGED <<closed, ctxDone, transportOpen, closedWith>>
        /\ closeErr' \in {closeErr, "RestartError"} /\ (closeErr # None => closeErr' = closeErr)
    BY <1>2, Zenon DEF Switch, RekeyFails, closeVars, CloseInv
  <2>2. misled' = FALSE
    BY <1>2, Honest, Zenon DEF Switch, RekeyFails, Goto, Return, CloseInv
  <2>3. \A v \in Writers : writer'[v].pc = "torn down" => writer[v].pc = "torn down"
    <3>1. CASE UNCHANGED writer
      BY <3>1, Zenon
    <3>2. CASE w \in Writers /\ writer' = [writer EXCEPT ![w].pc = "poll"]
      BY <3>2, GotoFacts, Zenon DEF NonceInv, PCs
    <3>3. CASE w \in Writers /\ writer' = [writer EXCEPT ![w] = [pc |-> "idle", slot |-> 0]]
      BY <3>3, ReturnFacts, Zenon DEF NonceInv
    <3> QED BY <1>2, <3>1, <3>2, <3>3, Zenon DEF Switch, RekeyFails, Goto, Return
  <2> QED BY <2>1, <2>2, <2>3, Zenon DEF CloseInv, None
<1>3. CASE SealPing \/ WatchRekeys
  <2>1. UNCHANGED <<closeVars, writer, misled>>
    BY <1>3 DEF SealPing, WatchRekeys
  <2> QED BY <2>1, Zenon DEF closeVars, CloseInv
<1>4. CASE Inbound
  <2>1. UNCHANGED <<closeVars, writer>>
    BY <1>4 DEF Inbound, PacketArrives, HandlerReturns, Enqueue, HandlerSet,
         SetIngressHandler, Read, ReadEnds, outVars
  <2>2. misled' = misled \/ (\E r \in {"ok", "deadline", closedErr} : Returned(r))
    BY <1>4 DEF Inbound, PacketArrives, HandlerReturns, Enqueue, HandlerSet,
         SetIngressHandler, Read, ReadEnds
  <2>3. misled' = FALSE
    BY <2>2, Honest, Zenon DEF CloseInv
  <2> QED BY <2>1, <2>3, Zenon DEF CloseInv, closeVars
<1>5. CASE Closing
  <2>1. UNCHANGED <<writer, misled>>
    BY <1>5 DEF Closing, setCloseErr, Close, Shutdown, outVars
  <2>2. CASE setCloseErr
    BY <2>1, <2>2, Zenon DEF setCloseErr, CloseInv, None
  <2>3. CASE Close
    BY <2>1, <2>3, Zenon DEF Close, CloseInv
  <2>4. CASE Shutdown
    <3>1. closed /\ ctxDone' /\ UNCHANGED <<closeErr, closed, closedWith>>
      BY <2>4 DEF Shutdown
    <3> QED BY <2>1, <3>1, Zenon DEF CloseInv
  <2> QED BY <1>5, <2>2, <2>3, <2>4 DEF Closing
<1>6. CASE UNCHANGED vars
  BY <1>6, Zenon DEF vars, outVars, closeVars, CloseInv
<1> QED BY <1>1, <1>2, <1>3, <1>4, <1>5, <1>6 DEF Next, Outbound

(* Initially the session is open and nothing has been used. *)
LEMMA InitInv == Init => NonceInv /\ CloseInv
<1> SUFFICES ASSUME Init PROVE NonceInv /\ CloseInv
  OBVIOUS
<1>1. WriterInv
  BY Numbers DEF Init, WriterInv, PCs, Slots
<1>2. \A s \in Slots : Owed(s) = {}
  BY DEF Init, Owed
<1>3. ASSUME NEW s \in Slots PROVE sendPID[s] + Cardinality(Owed(s)) < Width
  <2>1. sendPID[s] = 0 /\ Cardinality(Owed(s)) = 0
    BY <1>2, FS_EmptySet DEF Init
  <2> QED BY <2>1, Numbers
<1>4. CountInv
  BY <1>3 DEF Init, CountInv
<1>5. CloseInv
  BY Zenon DEF Init, CloseInv
<1> QED BY <1>1, <1>4, <1>5 DEF NonceInv

-----------------------------------------------------------------------------
(* Results *)

(* No packet-id is used twice under the keys of one slot, for any number   *)
(* of writers and whatever rekeys are forced or fail (slot.go:97-99).      *)
THEOREM NonceUnique == Spec => []NonceOnce
<1>1. NonceInv => NonceOnce
  BY DEF NonceInv, CountInv, NonceOnce
<1> QED BY <1>1, InitInv, NonceStep, PTL DEF Spec

(* Whoever is told that the session is gone is told why, if a reason had   *)
(* been recorded before Close (session.go:603-611).                        *)
THEOREM ReasonTold == Spec => []CloseReasonTold
<1>1. CloseInv => CloseReasonTold
  BY Zenon DEF CloseInv, CloseReasonTold
<1> QED BY <1>1, InitInv, NonceStep, CloseStep, PTL DEF Spec

(* The handler that runs is the one that is set: SetIngressHandler returns *)
(* only when the previous one neither runs nor can be called again         *)
(* (session.go:508-512).                                                   *)
THEOREM QuietHandlers == Spec => []HandlerQuiet
<1>1. Init => HandlerQuiet
  BY DEF Init, HandlerQuiet
<1>2. HandlerQuiet /\ [Next]_vars => HandlerQuiet'
  <2> SUFFICES ASSUME HandlerQuiet, [Next]_vars PROVE HandlerQuiet'
    OBVIOUS
  <2>1. CASE Inbound
    BY <2>1 DEF Inbound, PacketArrives, HandlerReturns, Enqueue, HandlerSet,
         SetIngressHandler, Read, ReadEnds, inVars, HandlerQuiet
  <2>2. CASE Outbound \/ Closing \/ UNCHANGED vars
    <3>1. UNCHANGED inVars
      BY <2>2, Zenon DEF Outbound, WriterStep, Write, Seal, Sealed, WritePacket, WriteFails,
           ForceRekey, Switch, RekeyFails, Poll, SealPing, WatchRekeys, Closing,
           setCloseErr, Close, Shutdown, vars
    <3> QED BY <3>1 DEF inVars, HandlerQuiet
  <2> QED BY <2>1, <2>2 DEF Next
<1> QED BY <1>1, <1>2, PTL DEF Spec

=============================================================================
