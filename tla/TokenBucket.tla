---------------------------- MODULE TokenBucket -----------------------------
(***************************************************************************)
(* A token bucket for every target: it fills by one a unit of time up to   *)
(* Capacity, and a request is granted exactly if the bucket holds Cost.    *)
(***************************************************************************)
EXTENDS Integers

CONSTANTS Targets, Capacity, Cost

VARIABLES tokens, answer

Full == [t \in Targets |-> Capacity]

Init == tokens = Full /\ answer = <<>>

Ask(t) ==
  /\ answer' = <<t, tokens[t] >= Cost>>
  /\ tokens' = IF tokens[t] >= Cost THEN [tokens EXCEPT ![t] = @ - Cost] ELSE tokens

Tick ==
  /\ tokens' = [t \in Targets |-> IF tokens[t] < Capacity THEN tokens[t] + 1 ELSE Capacity]
  /\ UNCHANGED answer

Refill == tokens' = Full /\ UNCHANGED answer

Next == Tick \/ Refill \/ \E t \in Targets : Ask(t)

Spec == Init /\ [][Next]_<<tokens, answer>>
=============================================================================
