----------------------------- MODULE Handshake -----------------------------
(***************************************************************************)
(* How a session comes up: dialSession and DialWithTransport start the     *)
(* read loop and the pumps of the first reliable layer, control.Run goes   *)
(* through the handshake with the server, and the first data slot, the TLS *)
(* conn and the other workers follow.  Meanwhile the transport may fail,   *)
(* the server may fall silent or refuse, and the handshake's context may   *)
(* end.                                                                    *)
(*                                                                         *)
(* The two ends talk over a pair of queues, which is what the reliability  *)
(* layers make of the network (module Reliable).  A TLS flight is one      *)
(* message.                                                                *)
(*                                                                         *)
(* A name that ends in an underscore and a word is a faulty variant of the *)
(* definition that follows it; no action uses one.                         *)
(***************************************************************************)
EXTENDS Integers, Sequences

CONSTANTS
  SilentLate   (* bound: whether the server may fall silent after TLS      *)

VARIABLES
  pc,          (* where the goroutine in dialSession is                    *)
  err,         (* what it returns                                          *)
  transport,   (* "none", "open", "broken" or "closed"                     *)
  layer,       (* the layer of key-id 0: "none", "open" or "closed"        *)
  tlsConn,     (* Session.tlsConn: "none", "installed" or "closed"         *)
  slot,        (* whether key-id 0 has its active data slot                *)
  shutdown,    (* workers.shutdown, and the session's context              *)
  running,     (* workers that run                                         *)
  closed,      (* Session.closed                                           *)
  closeErr,    (* Session.closeErr                                         *)
  reports,     (* workers that are to record a closeErr and to closeAsync  *)
  closer,      (* where the goroutine of closeAsync is                     *)
  hctxDone,    (* the handshake's context has ended                        *)
  server,      (* where the server is                                      *)
  silent,      (* the server does not answer any more                      *)
  toServer, toClient,   (* messages under way                              *)
  trace        (* what the HandshakeTracer was given                       *)

sessionVars == <<transport, layer, tlsConn, slot, shutdown, running>>
closeVars == <<closed, closeErr, reports, closer>>
serverVars == <<server, silent, toServer, toClient>>
vars == <<pc, err, sessionVars, closeVars, hctxDone, serverVars, trace>>

(* The stages of control.Run in their order. *)
Stages == <<"HardReset", "TLSHandshake", "KeyMethod2Send", "KeyMethod2Recv",
            "PushRequest", "PushReply", "DataKeys">>

Init ==
  /\ pc = "dial" /\ err = "nil"
  /\ transport = "none" /\ layer = "none" /\ tlsConn = "none" /\ slot = FALSE
  /\ shutdown = FALSE /\ running = {}
  /\ closed = FALSE /\ closeErr = "nil" /\ reports = {} /\ closer = "none"
  /\ hctxDone = FALSE
  /\ server = "listening" /\ silent = FALSE /\ toServer = <<>> /\ toClient = <<>>
  /\ trace = <<>>

Returns(e) == pc' = "returned" /\ err' = e

(* workers.Manager.Go, which rejects a worker after Shutdown. *)
Go(workers) == running' = IF shutdown THEN running ELSE running \cup workers

-----------------------------------------------------------------------------
(* dialSession and DialWithTransport, up to the handshake *)

(* The configuration is refused, or the dial fails: nothing was opened. *)
DialFails ==
  /\ pc = "dial"
  /\ Returns("dial")
  /\ UNCHANGED <<sessionVars, closeVars, hctxDone, serverVars, trace>>

Dialled ==
  /\ pc = "dial"
  /\ transport' = "open"
  /\ pc' = "wrapper"
  /\ UNCHANGED <<err, layer, tlsConn, slot, shutdown, running, closeVars, hctxDone,
                 serverVars, trace>>

(* validateConfig or buildWrapper refuses the keys; dialSession closes the *)
(* transport.                                                              *)
BuildWrapperFails ==
  /\ pc = "wrapper"
  /\ transport' = "closed"
  /\ Returns("config")
  /\ UNCHANGED <<layer, tlsConn, slot, shutdown, running, closeVars, hctxDone,
                 serverVars, trace>>

StartPumps ==
  /\ pc = "wrapper"
  /\ layer' = "open"
  /\ Go({"readLoop", "writeLoop", "tickLoop"})
  /\ pc' = Stages[1]
  /\ trace' = <<Stages[1]>>
  /\ UNCHANGED <<err, transport, tlsConn, slot, shutdown, closeVars, hctxDone,
                 serverVars>>

-----------------------------------------------------------------------------
(* control.Run *)

(* emit, at the start of a stage and when one fails. *)
Enters(stage) == pc' = stage /\ trace' = Append(trace, stage)
StageFails_NoEvent(e) == pc' = "shutdown" /\ err' = e /\ UNCHANGED trace
StageFails(e) == pc' = "shutdown" /\ err' = e /\ trace' = Append(trace, "error")

(* A message is handed to the layer, unless that was closed. *)
Writes(stage, msg, next) ==
  /\ pc = stage
  /\ IF layer = "open"
     THEN /\ toServer' = Append(toServer, msg)
          /\ Enters(next)
          /\ UNCHANGED err
     ELSE StageFails("closed") /\ UNCHANGED toServer
  /\ UNCHANGED <<sessionVars, closeVars, hctxDone, server, silent, toClient>>

SendHardReset == Writes("HardReset", "reset", "TLSHandshake")
SendKeyMethod2 == Writes("KeyMethod2Send", "km2", "KeyMethod2Recv")
SendPushRequest == Writes("PushRequest", "PUSH_REQUEST", "PushReply")

(* A read returns the server's next message, also one that has arrived     *)
(* before the layer was closed, or it fails because the layer is closed.   *)
Receives(stage, msg) ==
  /\ pc = stage
  /\ toClient # <<>> /\ Head(toClient) = msg
  /\ toClient' = Tail(toClient)
  /\ UNCHANGED <<sessionVars, closeVars, hctxDone, server, silent, toServer>>

ReadFails(stage) ==
  /\ pc = stage
  /\ layer = "closed"
  /\ StageFails("closed")
  /\ UNCHANGED <<sessionVars, closeVars, hctxDone, serverVars>>

TLSHandshake ==
  /\ Receives("TLSHandshake", "finished")
  /\ Enters("KeyMethod2Send")
  /\ UNCHANGED err

(* crypto/tls refuses the server ... *)
TLSRefuses ==
  /\ Receives("TLSHandshake", "bad certificate")
  /\ StageFails("tls")

(* ... or closes its conn, and the layer with it, when the context ends. *)
HandshakeContextDone ==
  /\ pc = "TLSHandshake"
  /\ hctxDone
  /\ layer' = "closed"
  /\ StageFails("deadline")
  /\ UNCHANGED <<transport, tlsConn, slot, shutdown, running, closeVars, hctxDone,
                 serverVars>>

ReadKeyMethod2 ==
  \/ Receives("KeyMethod2Recv", "km2") /\ Enters("PushRequest") /\ UNCHANGED err
  \/ Receives("KeyMethod2Recv", "malformed") /\ StageFails("protocol")

(* PUSH_REPLY with a cipher that AEADKeyLen knows, AUTH_FAILED, or an      *)
(* answer that makes no sense.                                             *)
ReadPushReply ==
  \/ Receives("PushReply", "PUSH_REPLY") /\ Enters("DataKeys") /\ UNCHANGED err
  \/ Receives("PushReply", "AUTH_FAILED") /\ StageFails("ErrAuthFailed")
  \/ Receives("PushReply", "malformed") /\ StageFails("protocol")

(* The export of the keys works or does not. *)
DeriveDataKeys ==
  /\ pc = "DataKeys"
  /\ \/ pc' = "slot" /\ trace' = Append(trace, "Complete") /\ UNCHANGED err
     \/ StageFails("keys")
  /\ UNCHANGED <<sessionVars, closeVars, hctxDone, serverVars>>

Run ==
  \/ SendHardReset \/ TLSHandshake \/ TLSRefuses \/ HandshakeContextDone
  \/ SendKeyMethod2 \/ ReadKeyMethod2 \/ SendPushRequest \/ ReadPushReply
  \/ DeriveDataKeys
  \/ \E stage \in {"TLSHandshake", "KeyMethod2Recv", "PushReply"} : ReadFails(stage)

-----------------------------------------------------------------------------
(* DialWithTransport after the handshake *)

BuildSlotFails ==
  /\ pc = "slot"
  /\ pc' = "shutdown" /\ err' = "slot"
  /\ UNCHANGED <<sessionVars, closeVars, hctxDone, serverVars, trace>>

InstallSlot ==
  /\ pc = "slot"
  /\ slot' = TRUE
  /\ pc' = "conn"
  /\ UNCHANGED <<err, transport, layer, tlsConn, shutdown, running, closeVars, hctxDone,
                 serverVars, trace>>

(* installTLSConn asks under tlsMu whether the session is closed. *)
InstallTLSConn_NoCheck ==
  /\ pc = "conn"
  /\ tlsConn' = "installed"
  /\ Go({"controlChannelReader"})
  /\ pc' = "workers"
  /\ UNCHANGED <<err, transport, layer, slot, shutdown, closeVars, hctxDone, serverVars,
                 trace>>
InstallTLSConn ==
  /\ pc = "conn"
  /\ IF closed
     THEN tlsConn' = "closed" /\ layer' = "closed" /\ UNCHANGED running
     ELSE /\ tlsConn' = "installed"
          /\ Go({"controlChannelReader"})
          /\ UNCHANGED layer
  /\ pc' = "workers"
  /\ UNCHANGED <<err, transport, slot, shutdown, closeVars, hctxDone, serverVars, trace>>

StartWorkers ==
  /\ pc = "workers"
  /\ Go({"rekeyWatch", "watchdogs"})
  /\ Returns("nil")
  /\ UNCHANGED <<transport, layer, tlsConn, slot, shutdown, closeVars, hctxDone,
                 serverVars, trace>>

(* Session.shutdown: the context, then the layer, the TLS conn and the     *)
(* transport, then a wait of at most shutdownWaitTimeout.                  *)
Cancels ==
  /\ shutdown' = TRUE
  /\ UNCHANGED <<transport, layer, tlsConn, slot, running>>
Releases_NotLayer ==
  /\ tlsConn' = IF tlsConn = "installed" THEN "closed" ELSE tlsConn
  /\ transport' = "closed"
  /\ UNCHANGED <<layer, slot, shutdown, running>>
Releases ==
  /\ layer' = "closed"
  /\ tlsConn' = IF tlsConn = "installed" THEN "closed" ELSE tlsConn
  /\ transport' = "closed"
  /\ UNCHANGED <<slot, shutdown, running>>

(* DialWithTransport's own, after an error; dialSession closes the         *)
(* transport once more.                                                    *)
ShutdownDial ==
  /\ \/ pc = "shutdown" /\ Cancels /\ pc' = "release"
     \/ pc = "release" /\ Releases /\ pc' = "wait"
     \/ pc = "wait" /\ pc' = "returned" /\ UNCHANGED sessionVars
  /\ UNCHANGED <<err, closeVars, hctxDone, serverVars, trace>>

-----------------------------------------------------------------------------
(* The workers, as far as they end or end the session *)

(* readLoop: a read fails because the transport is broken or closed. *)
ReadLoopFails ==
  /\ "readLoop" \in running
  /\ transport \in {"broken", "closed"} \/ shutdown
  /\ running' = running \ {"readLoop"}
  /\ reports' = IF shutdown \/ closed THEN reports ELSE reports \cup {"readLoop"}
  /\ UNCHANGED <<pc, err, transport, layer, tlsConn, slot, shutdown, closed, closeErr,
                 closer, hctxDone, serverVars, trace>>

(* tickLoop: the layer is closed, or the server has not acknowledged       *)
(* anything for too long.  That closes the session only once it has a slot *)
(* and while the layer is in its table, that is, until Releases.           *)
TickFails ==
  /\ "tickLoop" \in running
  /\ silent \/ layer = "closed" \/ transport = "broken"
  /\ running' = running \ {"tickLoop"}
  /\ reports' = IF slot /\ transport # "closed" THEN reports \cup {"tickLoop"} ELSE reports
  /\ UNCHANGED <<pc, err, transport, layer, tlsConn, slot, shutdown, closed, closeErr,
                 closer, hctxDone, serverVars, trace>>

(* The others leave with the context, the layer or the conn. *)
WorkersLeave ==
  LET leaving == {w \in running :
                    \/ shutdown /\ w \in {"tickLoop", "rekeyWatch", "watchdogs"}
                    \/ w = "writeLoop" /\ (shutdown \/ layer = "closed")
                    \/ w = "controlChannelReader" /\ (tlsConn = "closed" \/ layer = "closed")}
  IN /\ leaving # {}
     /\ running' = running \ leaving
     /\ UNCHANGED <<pc, err, transport, layer, tlsConn, slot, shutdown, closeVars,
                    hctxDone, serverVars, trace>>

(* setCloseErr, then closeAsync. *)
Report(who) ==
  /\ who \in reports
  /\ reports' = reports \ {who}
  /\ closeErr' = "restart"
  /\ closer' = IF closer = "none" THEN "close" ELSE closer
  /\ UNCHANGED <<pc, err, sessionVars, closed, hctxDone, serverVars, trace>>

(* Session.Close: closed, an exit notification that takes half a second at *)
(* most, and shutdown.                                                     *)
CloseSession ==
  /\ \/ closer = "close" /\ closed' = TRUE /\ closer' = "shutdown" /\ UNCHANGED sessionVars
     \/ closer = "shutdown" /\ Cancels /\ closer' = "release" /\ UNCHANGED closed
     \/ closer = "release" /\ Releases /\ closer' = "done" /\ UNCHANGED closed
  /\ UNCHANGED <<pc, err, closeErr, reports, hctxDone, serverVars, trace>>

-----------------------------------------------------------------------------
(* What surrounds the client *)

(* HandshakeTimeout has passed, or the caller has cancelled its context. *)
ContextEnds ==
  /\ ~hctxDone
  /\ hctxDone' = TRUE
  /\ UNCHANGED <<pc, err, sessionVars, closeVars, serverVars, trace>>

TransportBreaks ==
  /\ transport = "open"
  /\ transport' = "broken"
  /\ UNCHANGED <<pc, err, layer, tlsConn, slot, shutdown, running, closeVars, hctxDone,
                 serverVars, trace>>

(* The server answers each message in turn, with what it should or not.    *)
Answers == [listening |-> [reset |-> {"finished", "bad certificate"}],
            tls       |-> [km2 |-> {"km2", "malformed"}],
            keyed     |-> [PUSH_REQUEST |-> {"PUSH_REPLY", "AUTH_FAILED", "malformed"}]]
After == [finished |-> "tls", km2 |-> "keyed", PUSH_REPLY |-> "up"]

ServerAnswers ==
  /\ ~silent /\ transport = "open" /\ "writeLoop" \in running
  /\ toServer # <<>>
  /\ server \in DOMAIN Answers /\ Head(toServer) \in DOMAIN Answers[server]
  /\ \E answer \in Answers[server][Head(toServer)] :
       /\ toClient' = Append(toClient, answer)
       /\ server' = IF answer \in DOMAIN After THEN After[answer] ELSE "gone"
  /\ toServer' = Tail(toServer)
  /\ UNCHANGED <<pc, err, sessionVars, closeVars, hctxDone, silent, trace>>

ServerFallsSilent ==
  /\ ~silent
  /\ server # "listening" => SilentLate
  /\ silent' = TRUE
  /\ UNCHANGED <<pc, err, sessionVars, closeVars, hctxDone, server, toServer, toClient,
                 trace>>

DialSteps ==
  \/ DialFails \/ Dialled \/ BuildWrapperFails \/ StartPumps
  \/ Run
  \/ BuildSlotFails \/ InstallSlot \/ InstallTLSConn \/ StartWorkers \/ ShutdownDial
WorkerSteps == ReadLoopFails \/ WorkersLeave \/ \E who \in reports : Report(who)

Next ==
  \/ DialSteps \/ WorkerSteps \/ TickFails \/ CloseSession
  \/ ContextEnds \/ TransportBreaks
  \/ ServerAnswers \/ ServerFallsSilent

Spec == Init /\ [][Next]_vars

-----------------------------------------------------------------------------
(* Properties *)

(* Dial leaves nothing behind.  One that returns an error has released     *)
(* what it opened, whichever stage failed and whether or not a Close was   *)
(* under way: the transport and the layer are closed and no worker will    *)
(* stay.  A session that died while Dial was finishing is handed out       *)
(* closed, but with the reason that makes the watcher reconnect, and its   *)
(* Close and the end of DialWithTransport miss neither conn nor layer.     *)
DialLeavesNothing ==
  pc = "returned" =>
    IF err # "nil"
    THEN /\ transport \in {"none", "closed"}
         /\ layer \in {"none", "closed"}
         /\ running # {} => shutdown
    ELSE /\ closed => closeErr = "restart"
         /\ closer = "done" =>
              transport = "closed" /\ layer = "closed" /\ tlsConn = "closed"

(* The tracer hears of every stage in turn, of an error once and last, and *)
(* of completion exactly when no stage failed (control.Config.Tracer).     *)
TraceTellsStage ==
  LET last == trace[Len(trace)]
  IN /\ \A i \in 1 .. Len(trace) - 1 : i <= Len(Stages) /\ trace[i] = Stages[i]
     /\ \A i \in 1 .. Len(Stages) : pc = Stages[i] => Len(trace) = i /\ last = pc
     /\ pc \in {"slot", "conn", "workers"} =>
          Len(trace) = Len(Stages) + 1 /\ last = "Complete"
     /\ pc \in {"shutdown", "release", "wait", "returned"} /\ trace # <<>> =>
          last = IF err \in {"nil", "slot"} THEN "Complete" ELSE "error"

(* Dial returns: the server answers, or it refuses, or the transport       *)
(* breaks, or HandshakeTimeout, which "caps the handshake duration"        *)
(* (openvpn.go:235), passes.                                               *)
DialReturns == <>(pc = "returned")

=============================================================================
