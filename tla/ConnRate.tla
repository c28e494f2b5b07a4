------------------------------ MODULE ConnRate ------------------------------
(***************************************************************************)
(* The limiter of new flows to one destination                             *)
(* (cmd/openvpn2socks/connrate.go).  Its buckets are filled when they are  *)
(* looked at, dropped when they have not been used for a while, and all    *)
(* dropped when the tunnel has reconnected.                                *)
(*                                                                         *)
(* A unit of time is what one token in Cost takes to arrive, so that       *)
(* fractions of a token are told apart.  Times are kept as ages.  The      *)
(* fields last and touched of a bucket are one: both are set to the time   *)
(* of every call.  A name with an underscore and a word is a faulty        *)
(* variant of the definition that follows it; no action uses one.          *)
(***************************************************************************)
EXTENDS Integers

CONSTANTS
  Targets,
  connRateBurst, Cost,              (* tokens of a flow; Cost units make one *)
  connRateGCEvery, connRateMaxIdle  (* in units of time                      *)

VARIABLES
  buckets,   (* target -> [tokens, age] for the targets that have one *)
  lastGC,    (* age of the last collection                             *)
  answer     (* the last call's target and result                      *)

vars == <<buckets, lastGC, answer>>

Capacity == connRateBurst * Cost

(* A bucket is idle for longer than it takes to fill before it is dropped. *)
ASSUME RateAssumption ==
  /\ Cost \in Nat \ {0} /\ Capacity \in Nat
  /\ connRateGCEvery \in Nat /\ connRateMaxIdle \in Nat
  /\ Capacity <= connRateMaxIdle

Oldest == connRateMaxIdle + 1

Init == buckets = <<>> /\ lastGC = 0 /\ answer = <<>>

gcLocked_AfterPeriod(bs) ==
  [t \in {u \in DOMAIN bs : bs[u].age <= connRateGCEvery} |-> bs[t]]
gcLocked(bs) == [t \in {u \in DOMAIN bs : bs[u].age <= connRateMaxIdle} |-> bs[t]]

Refilled(b) == IF b.tokens + b.age > Capacity THEN Capacity ELSE b.tokens + b.age

allow(t) ==
  LET collect == lastGC > connRateGCEvery
      bs == IF collect THEN gcLocked(buckets) ELSE buckets
      tokens == IF t \in DOMAIN bs THEN Refilled(bs[t]) ELSE Capacity
      granted == tokens >= Cost
      b == [tokens |-> IF granted THEN tokens - Cost ELSE tokens, age |-> 0]
  IN /\ buckets' = [u \in DOMAIN bs \cup {t} |-> IF u = t THEN b ELSE bs[u]]
     /\ lastGC' = IF collect THEN 0 ELSE lastGC
     /\ answer' = <<t, granted>>

Reset ==
  /\ buckets' = <<>> /\ lastGC' = 0
  /\ UNCHANGED answer

(* Time passes; an age beyond Oldest makes no difference. *)
Older(age, oldest) == IF age < oldest THEN age + 1 ELSE age
TimePasses ==
  /\ buckets' = [t \in DOMAIN buckets |-> [buckets[t] EXCEPT !.age = Older(@, Oldest)]]
  /\ lastGC' = Older(lastGC, connRateGCEvery + 1)
  /\ UNCHANGED answer

Next == TimePasses \/ Reset \/ \E t \in Targets : allow(t)

Spec == Init /\ [][Next]_vars

-----------------------------------------------------------------------------
(* Properties *)

(* No bucket ever holds more than a burst, or owes anything. *)
TypeOK ==
  /\ DOMAIN buckets \subseteq Targets
  /\ buckets \in [DOMAIN buckets -> [tokens : 0 .. Capacity, age : 0 .. Oldest]]
  /\ lastGC \in 0 .. connRateGCEvery + 1

Held == [t \in Targets |-> IF t \in DOMAIN buckets THEN Refilled(buckets[t]) ELSE Capacity]

Bucket == INSTANCE TokenBucket WITH tokens <- Held

(* Filling a bucket only when it is looked at, and dropping it when it has *)
(* been idle, cannot be told from one that fills all the time: no flow is  *)
(* let through or refused that the plain token bucket would not.           *)
ImplementsTokenBucket == Bucket!Spec

=============================================================================
