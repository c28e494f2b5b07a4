--------------------------- MODULE SlidingWindow ---------------------------
(***************************************************************************)
(* What a replay window promises: each packet-id passes at most once, and  *)
(* none passes that lies Size or more below one that passed before.        *)
(***************************************************************************)
EXTENDS Integers

CONSTANTS Size, MaxPID

VARIABLE passed   (* how often each packet-id has passed *)

Init == passed = [p \in 0 .. MaxPID |-> 0]

Pass(p) ==
  /\ passed[p] = 0
  /\ \A q \in 0 .. MaxPID : passed[q] > 0 => q - p < Size
  /\ passed' = [passed EXCEPT ![p] = 1]

Next == \E p \in 1 .. MaxPID : Pass(p)

Spec == Init /\ [][Next]_passed
=============================================================================
