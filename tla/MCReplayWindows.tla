-------------------------- MODULE MCReplayWindows ---------------------------
(***************************************************************************)
(* The two replay windows of a session side by side: that of the control   *)
(* channel (module ControlWrap), with two writeLoops that wrap and two     *)
(* goroutines that unwrap around a window of three packets, and that of    *)
(* the data channel (module ReplayWindow), of three words of two bits, of  *)
(* which the last is used by half.  They share no state, so one behaviour  *)
(* runs one channel; nobody uses the data path.                            *)
(***************************************************************************)
EXTENDS PacketPath, TLC

VARIABLE channel

MCInit == Init /\ Control!Init /\ Data!Init /\ channel \in {"control", "data"}

MCNext ==
  /\ \/ channel = "control" /\ Control!Next /\ UNCHANGED dataVars
     \/ channel = "data" /\ Data!Next /\ UNCHANGED controlVars
  /\ UNCHANGED <<vars, channel>>

MCSpec == MCInit /\ [][MCNext]_<<vars, controlVars, dataVars, channel>>

Symmetric ==
  Permutations(Wrappers) \cup Permutations(Unwrappers) \cup Permutations(Openers)

=============================================================================
