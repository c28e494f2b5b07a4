----------------------------- MODULE MCDataPath -----------------------------
(***************************************************************************)
(* The two halves of module DataPath, each with the close.  They share no  *)
(* other state, so one behaviour runs one half: their product is the same  *)
(* states many times over.                                                 *)
(***************************************************************************)
EXTENDS DataPath

VARIABLE half

MCInit == Init /\ half \in {"outbound", "inbound"}

MCNext ==
  /\ \/ half = "outbound" /\ Outbound
     \/ half = "inbound" /\ Inbound
     \/ Closing
  /\ UNCHANGED half

MCSpec == MCInit /\ [][MCNext]_<<vars, half>> /\ Fairness

=============================================================================
