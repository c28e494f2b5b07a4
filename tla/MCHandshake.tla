---------------------------- MODULE MCHandshake ----------------------------
(* The Dial of module Lifecycle, for model checking; no watch ticks. *)
EXTENDS Lifecycle

MCInit == Init /\ Dial!Init
MCNext == Dial!Next /\ UNCHANGED watchVars
MCSpec == MCInit /\ [][MCNext]_<<watchVars, dialVars>> /\ DialFairness

=============================================================================
