----------------------------- MODULE Lifecycle ------------------------------
(***************************************************************************)
(* How a session comes up (module Handshake) and what ends it by itself    *)
(* (module Watchdogs).  The two share closeErr, the reason for which the   *)
(* session closes; the watches run in a session that is up.                *)
(***************************************************************************)
EXTENDS Watchdogs, Sequences

CONSTANTS SilentLate

ASSUME HandshakeAssumption == SilentLate \in BOOLEAN

VARIABLES pc, err, transport, layer, tlsConn, slot, shutdown, running, closed, reports,
          closer, hctxDone, server, silent, toServer, toClient, trace

watchVars == <<stampVars, loopVars, statsHardResetIn, alive, lastServerSent, historyVars>>

Dial == INSTANCE Handshake

dialVars == Dial!vars

(* Goroutines run, a timeout is set and passes, and a server that has not  *)
(* fallen silent answers.                                                  *)
DialFairness ==
  /\ WF_dialVars(Dial!DialSteps) /\ WF_dialVars(Dial!WorkerSteps)
  /\ WF_dialVars(Dial!TickFails) /\ WF_dialVars(Dial!CloseSession)
  /\ WF_dialVars(Dial!ContextEnds) /\ WF_dialVars(Dial!ServerAnswers)

-----------------------------------------------------------------------------
(* The properties of module Handshake, under names of this one. *)

(* A Dial that fails has released what it opened, and a session that died  *)
(* while Dial was finishing is handed out with the reason that makes the   *)
(* watcher reconnect (session.go: DialWithTransport, installTLSConn).      *)
DialLeavesNothing == Dial!DialLeavesNothing

(* The tracer hears of every stage in turn, of an error once and last, and *)
(* of completion exactly when no stage failed (control.Config.Tracer).     *)
TraceTellsStage == Dial!TraceTellsStage

(* Dial returns (openvpn.go: HandshakeTimeout). *)
DialReturns == Dial!DialReturns

=============================================================================
