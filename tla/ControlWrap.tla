---------------------------- MODULE ControlWrap ----------------------------
(***************************************************************************)
(* The protection of control packets: Wrap and Unwrap of tlscrypt.Wrapper  *)
(* and tlsauth.Authenticator, whose packet-id windows are the same code.   *)
(* The writeLoops of a session's layers share one wrapper, so that several *)
(* Wraps run at a time; a network that duplicates, reorders and forges     *)
(* lies between Wrap and Unwrap.                                           *)
(*                                                                         *)
(* The HMAC accepts exactly what Wrap made.  The 64-bit bitmap is the set  *)
(* of its bits that are 1.                                                 *)
(*                                                                         *)
(* A name that ends in an underscore and a word is a faulty variant of the *)
(* definition that follows it; no action uses one.                         *)
(***************************************************************************)
EXTENDS Integers, FiniteSets

CONSTANTS
  windowSize,  (* packets the window reaches back (64)                     *)
  MaxPID,      (* bound: packet-ids (2^32 - 1)                             *)
  Wrappers,    (* goroutines in Wrap                                       *)
  Unwrappers   (* goroutines in Unwrap                                     *)

VARIABLES
  sendPID,     (* last packet-id given out                                 *)
  trailer,     (* firstWrapTrailer is still to be sent (tls-crypt-v2's WKc) *)
  wrap,        (* wrap[w]: packet-id of the Wrap in progress, 0 if none    *)
  wire,        (* packets made by Wrap, and by whom                         *)
  highest, bitmap,
  unwrap,      (* unwrap[u]: packet that passed Test, if any               *)
  unwrapped    (* history: how often each packet-id was unwrapped          *)

windowVars == <<highest, bitmap, unwrap, unwrapped>>
wrapVars == <<sendPID, trailer, wrap, wire>>
vars == <<wrapVars, windowVars>>

Idle == [pid |-> 0, genuine |-> FALSE]

(* tls-crypt-v2 registers its wrapped key before the first Wrap. *)
Init ==
  /\ sendPID = 0
  /\ trailer \in BOOLEAN
  /\ wrap = [w \in Wrappers |-> 0]
  /\ wire = {}
  /\ highest = 0 /\ bitmap = {}
  /\ unwrap = [u \in Unwrappers |-> Idle]
  /\ unwrapped = [p \in 0 .. MaxPID |-> 0]

-----------------------------------------------------------------------------
(* Wrap: an atomic increment, then the trailer under its own lock. *)

WrapPID_ReadThenWrite(w) ==
  /\ wrap[w] = 0
  /\ sendPID < MaxPID
  /\ sendPID' = sendPID + (IF \E v \in Wrappers : wrap[v] # 0 THEN 0 ELSE 1)
  /\ wrap' = [wrap EXCEPT ![w] = sendPID']
  /\ UNCHANGED <<trailer, wire, windowVars>>
WrapPID(w) ==
  /\ wrap[w] = 0
  /\ sendPID < MaxPID
  /\ sendPID' = sendPID + 1
  /\ wrap' = [wrap EXCEPT ![w] = sendPID']
  /\ UNCHANGED <<trailer, wire, windowVars>>

WrapSeal(w) ==
  /\ wrap[w] # 0
  /\ wire' = wire \cup {[pid |-> wrap[w], trailer |-> trailer, by |-> w]}
  /\ trailer' = FALSE
  /\ wrap' = [wrap EXCEPT ![w] = 0]
  /\ UNCHANGED <<sendPID, windowVars>>

-----------------------------------------------------------------------------
(* pidWindow *)

Test_OffByOne(pid) ==
  /\ pid # 0
  /\ pid <= highest => highest - pid <= windowSize /\ highest - pid \notin bitmap
Test(pid) ==
  /\ pid # 0
  /\ pid <= highest => highest - pid < windowSize /\ highest - pid \notin bitmap

(* Accept, when it returns true *)
Record(pid) ==
  IF pid > highest
  THEN LET shift == pid - highest
       IN /\ bitmap' = IF shift >= windowSize THEN {0}
                       ELSE {0} \cup {b \in 1 .. windowSize - 1 : b - shift \in bitmap}
          /\ highest' = pid
  ELSE /\ bitmap' = bitmap \cup {highest - pid}
       /\ UNCHANGED highest

-----------------------------------------------------------------------------
(* Unwrap: Test, the HMAC, Accept; the lock is not held from one to the    *)
(* next.                                                                   *)

UnwrapTest(u, pid, genuine) ==
  /\ unwrap[u].pid = 0
  /\ genuine => \E pkt \in wire : pkt.pid = pid
  /\ Test(pid)
  /\ unwrap' = [unwrap EXCEPT ![u] = [pid |-> pid, genuine |-> genuine]]
  /\ UNCHANGED <<highest, bitmap, unwrapped, wrapVars>>

UnwrapForged(u) ==
  /\ unwrap[u].pid # 0 /\ ~unwrap[u].genuine
  /\ unwrap' = [unwrap EXCEPT ![u] = Idle]
  /\ UNCHANGED <<highest, bitmap, unwrapped, wrapVars>>

UnwrapAccept(u) ==
  /\ unwrap[u].pid # 0 /\ unwrap[u].genuine
  /\ unwrap' = [unwrap EXCEPT ![u] = Idle]
  /\ IF Test(unwrap[u].pid)
     THEN /\ Record(unwrap[u].pid)
          /\ unwrapped' = [unwrapped EXCEPT ![unwrap[u].pid] = @ + 1]
     ELSE UNCHANGED <<highest, bitmap, unwrapped>>
  /\ UNCHANGED wrapVars

Next ==
  \/ \E w \in Wrappers : WrapPID(w) \/ WrapSeal(w)
  \/ \E u \in Unwrappers :
       \/ \E pid \in 0 .. MaxPID, genuine \in BOOLEAN : UnwrapTest(u, pid, genuine)
       \/ UnwrapForged(u)
       \/ UnwrapAccept(u)

Spec == Init /\ [][Next]_vars

-----------------------------------------------------------------------------
(* Properties *)

(* Whatever the writeLoops do at the same time, no two control packets     *)
(* carry the same packet-id, so that none is taken for a replay, and at    *)
(* most one carries the trailer.                                           *)
WrapsDistinct ==
  \A a, b \in wire : a.pid = b.pid \/ (a.trailer /\ b.trailer) => a = b

(* No packet is handed to the reliability layer twice, although Unwrap     *)
(* gives up the lock between Test and Accept.                              *)
AtMostOnce == \A p \in 0 .. MaxPID : unwrapped[p] <= 1

(* The bitmap is the set of packet-ids unwrapped, seen from the highest.   *)
WindowExact ==
  /\ \A p \in 0 .. MaxPID : unwrapped[p] > 0 => p <= highest
  /\ \A p \in 0 .. MaxPID :
       Test(p) <=> p > 0 /\ unwrapped[p] = 0 /\ highest - p < windowSize

Sliding == INSTANCE SlidingWindow WITH passed <- unwrapped, Size <- windowSize

(* The window implements the counters with a horizon that the data         *)
(* channel's window implements: no packet gets through Unwrap twice, and   *)
(* none that is too old (v1.go: pidWindow, Unwrap).                        *)
ImplementsSlidingWindow == Sliding!Spec
=============================================================================
