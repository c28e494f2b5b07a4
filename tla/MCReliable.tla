----------------------------- MODULE MCReliable -----------------------------
(* Reliable on a small instance. *)
EXTENDS Reliable

OneWay == [e \in Ends |-> IF e = "client" THEN 3 ELSE 0]
Short == [e \in Ends |-> IF e = "client" THEN 2 ELSE 0]
=============================================================================
