---------------------------- MODULE ReplayWindow ----------------------------
(***************************************************************************)
(* The replay window of the data channel (internal/data.ReplayWindow) and  *)
(* the way Slot.Open and Slot.OpenInto use it: Test before the packet is   *)
(* authenticated, Accept after, each under the window's own mutex and      *)
(* nothing between them, so that other packets come and go meanwhile.      *)
(*                                                                         *)
(* A 64-bit word is the set of its bits that are 1.                        *)
(*                                                                         *)
(* A name that ends in an underscore and a word is a faulty variant of the *)
(* definition that follows it; no action uses one.                         *)
(***************************************************************************)
EXTENDS Integers, FiniteSets

CONSTANTS
  WordBits,   (* bits of a bitmap word (64)                                *)
  Size,       (* the window's size in packets (1024)                       *)
  MaxPID,     (* bound: packet-ids on the wire (2^32 - 1)                  *)
  Openers     (* goroutines that open packets                              *)

VARIABLES
  highest,    (* the highest packet-id accepted                            *)
  bitmap,     (* bit o of the words together: highest - o was accepted     *)
  opener,     (* the packet each opener works on                           *)
  opened      (* history: how often each packet-id was opened              *)

vars == <<highest, bitmap, opener, opened>>

nWords == (Size + WordBits - 1) \div WordBits
Words == 0 .. nWords - 1
Bits == 0 .. WordBits - 1

ShiftLeft(word, n) == {b + n : b \in word} \cap Bits
ShiftRight(word, n) == {b - n : b \in word} \cap Bits

Idle == [pc |-> "idle", pid |-> 0, genuine |-> FALSE]

Init ==
  /\ highest = 0
  /\ bitmap = [i \in Words |-> {}]
  /\ opener = [o \in Openers |-> Idle]
  /\ opened = [p \in 0 .. MaxPID |-> 0]

(* Every marker ages by shift packets.  The loop runs from the last word   *)
(* down, so that each word is computed from words not yet overwritten.     *)
shiftLeftLocked_NoCarry(bm, shift) ==
  IF shift >= Size THEN [i \in Words |-> {}]
  ELSE [i \in Words |-> IF i >= shift \div WordBits
                        THEN ShiftLeft(bm[i - shift \div WordBits], shift % WordBits)
                        ELSE {}]
shiftLeftLocked(bm, shift) ==
  LET wordShift == shift \div WordBits
      bitShift == shift % WordBits
      moved(src) == IF src >= 0 THEN ShiftLeft(bm[src], bitShift) ELSE {}
      carried(src) == IF bitShift > 0 /\ src - 1 >= 0
                      THEN ShiftRight(bm[src - 1], WordBits - bitShift)
                      ELSE {}
  IN IF shift >= Size THEN [i \in Words |-> {}]
     ELSE [i \in Words |-> moved(i - wordShift) \cup carried(i - wordShift)]

Marked(pid) == (highest - pid) % WordBits \in bitmap[(highest - pid) \div WordBits]
TooOld_OffByOne(pid) == highest - pid > Size
TooOld(pid) == highest - pid >= Size

(* Test *)
Test(pid) ==
  /\ pid # 0
  /\ pid <= highest => ~TooOld(pid) /\ ~Marked(pid)

(* Accept, when it returns true *)
Record(pid) ==
  IF pid > highest
  THEN LET bm == shiftLeftLocked(bitmap, pid - highest)
       IN bitmap' = [bm EXCEPT ![0] = @ \cup {0}] /\ highest' = pid
  ELSE /\ bitmap' = [bitmap EXCEPT ![(highest - pid) \div WordBits] =
                       @ \cup {(highest - pid) % WordBits}]
       /\ UNCHANGED highest

-----------------------------------------------------------------------------
(* Open.  A packet of this slot arrives, authentic or not; packets that    *)
(* name another key-id or peer-id, or are too short, change nothing.       *)

OpenTest(o, pid, genuine) ==
  /\ opener[o].pc = "idle"
  /\ Test(pid)
  /\ opener' = [opener EXCEPT ![o] =
                  [pc |-> "tested", pid |-> pid, genuine |-> genuine]]
  /\ UNCHANGED <<highest, bitmap, opened>>

(* The AEAD rejects what is not authentic; nothing was recorded. *)
OpenForged(o) ==
  /\ opener[o].pc = "tested" /\ ~opener[o].genuine
  /\ opener' = [opener EXCEPT ![o] = Idle]
  /\ UNCHANGED <<highest, bitmap, opened>>

(* Accept asks again what Test asked: another opener may have been here. *)
OpenAccept(o) ==
  /\ opener[o].pc = "tested" /\ opener[o].genuine
  /\ opener' = [opener EXCEPT ![o] = Idle]
  /\ IF Test(opener[o].pid)
     THEN /\ Record(opener[o].pid)
          /\ opened' = [opened EXCEPT ![opener[o].pid] = @ + 1]
     ELSE UNCHANGED <<highest, bitmap, opened>>

Next ==
  \E o \in Openers :
    \/ \E pid \in 0 .. MaxPID, genuine \in BOOLEAN : OpenTest(o, pid, genuine)
    \/ OpenForged(o)
    \/ OpenAccept(o)

Spec == Init /\ [][Next]_vars

-----------------------------------------------------------------------------
(* Properties *)

(* The bitmap is the set of opened packet-ids, seen from the highest one:  *)
(* whatever jumps moved it across word boundaries, Test lets through the   *)
(* packet-ids that are new and lie in the window, and no others; and what  *)
(* is not authentic leaves no trace in it.                                 *)
WindowExact ==
  /\ highest > 0 => opened[highest] > 0
  /\ \A p \in 0 .. MaxPID : opened[p] > 0 => p <= highest
  /\ \A p \in 0 .. MaxPID :
       Test(p) <=> p > 0 /\ opened[p] = 0 /\ highest - p < Size

Sliding == INSTANCE SlidingWindow WITH passed <- opened

(* The window implements counters with a horizon: no packet is opened      *)
(* twice, even when two openers test the same packet before either accepts *)
(* it (Open: Test, then the AEAD, then Accept), and none that is too old.  *)
ImplementsSlidingWindow == Sliding!Spec
=============================================================================
