------------------------------ MODULE Session ------------------------------
(***************************************************************************)
(* A session that is up (internal/session): its tables of data slots and   *)
(* of reliable layers by key-id, the soft-reset rekeys that put new        *)
(* entries there, the timers that retire the old ones, the worker          *)
(* goroutines, and Close, which may come at any moment.                    *)
(*                                                                         *)
(* A rekey makes a layer, a TLS conn on top of it and a data slot; one     *)
(* number, its generation, names the three.  Generation 1 is the initial   *)
(* handshake's.  Packets are left out: the layers are module Reliable's,   *)
(* the slots' windows module ReplayWindow's.                               *)
(*                                                                         *)
(* A name that ends in an underscore and a word is a faulty variant of the *)
(* definition that follows it; no action uses one.                         *)
(***************************************************************************)
EXTENDS Integers, FiniteSets

CONSTANTS
  NumKeyIDs,   (* key-ids (8)                                              *)
  Users,       (* goroutines that call Session.Rekey                       *)
  Servers,     (* serverRekey workers                                      *)
  MaxGen,      (* bound: no rekey begins after this many generations       *)
  Restarts,    (* bound: whether anything but Close ends the session       *)
  WorkersEnd   (* bound: whether workers are seen to end                   *)

Watch == "rekeyWatch"
Rekeyers == Users \cup Servers \cup {Watch}
None == 0
KIDs == 0 .. NumKeyIDs - 1

(* With fewer key-ids, the one after 1 would be 1 itself. *)
ASSUME SessionAssumption ==
  /\ NumKeyIDs \in Nat /\ NumKeyIDs >= 3
  /\ MaxGen \in Nat
  /\ Restarts \in BOOLEAN /\ WorkersEnd \in BOOLEAN
  /\ Users \cap Servers = {} /\ Watch \notin Users \cup Servers

VARIABLES
  closed,      (* Session.closed                                           *)
  closeErr,    (* Session.closeErr                                         *)
  shutdown,    (* workers.shutdown; the shared context is done with it     *)
  slots,       (* slotTable.byKID                                          *)
  active,      (* slotTable.active                                         *)
  layers,      (* layerTable.byKID                                         *)
  openLayers,  (* layers that are not closed                               *)
  tlsConn,     (* Session.tlsConn                                          *)
  openConns,   (* TLS conns past their handshake that are not closed       *)
  running,     (* workers that run: <<what, on which generation>>          *)
  inProgress,  (* rekeyManager.inProgress                                  *)
  rekey,       (* rekey[r]: where r is in PerformSoftReset                 *)
  timers,      (* retireAfter goroutines                                   *)
  reports,     (* who found the session open and is to record a closeErr   *)
  async,       (* a closeAsync goroutine has yet to call Close             *)
  closer,      (* where the one Close that goes on is                      *)
  gen          (* the last generation made                                 *)

tableVars == <<slots, active, layers, openLayers, tlsConn, openConns>>
closeVars == <<closed, closeErr, reports, async, closer>>
vars == <<tableVars, closeVars, shutdown, running, inProgress, rekey, timers, gen>>

Idle == [pc |-> "idle", old |-> None, new |-> None, gen |-> None, prev |-> None,
         err |-> "nil"]

(* DialWithTransport has returned. *)
Init ==
  /\ closed = FALSE /\ closeErr = "nil" /\ shutdown = FALSE
  /\ slots = [k \in KIDs |-> IF k = 0 THEN 1 ELSE None]
  /\ layers = [k \in KIDs |-> IF k = 0 THEN 1 ELSE None]
  /\ active = 0
  /\ openLayers = {1} /\ tlsConn = 1 /\ openConns = {1}
  /\ running = {<<"readLoop", 0>>, <<"writeLoop", 1>>, <<"tickLoop", 1>>,
                <<"controlChannelReader", 1>>, <<Watch, 0>>, <<"watchdog", 0>>}
  /\ inProgress = FALSE
  /\ rekey = [r \in Rekeyers |-> Idle]
  /\ timers = {} /\ reports = {} /\ async = FALSE
  /\ closer = [pc |-> "none", kid |-> 0, by |-> "nobody"]
  /\ gen = 1

nextKeyID(cur) ==
  LET next == (cur + 1) % NumKeyIDs IN IF next = 0 THEN 1 ELSE next

(* workers.Manager.Go, which rejects the worker after Shutdown. *)
Go(worker) == running' = IF shutdown THEN running ELSE running \cup {worker}

(* The adapter under a TLS conn closes its layer with it. *)
CloseConn(g) ==
  /\ openConns' = openConns \ {g}
  /\ openLayers' = openLayers \ {g}

setCloseErr(err) == closeErr' = IF closeErr = "nil" THEN err ELSE closeErr

-----------------------------------------------------------------------------
(* PerformSoftReset *)

(* Its return: rekeyWatch looks at the error, a serverRekey worker ends. *)
Return(r, err) ==
  /\ rekey' = [rekey EXCEPT ![r] =
                 IF r = Watch THEN [Idle EXCEPT !.pc = "returned", !.err = err]
                 ELSE Idle]
  /\ running' = running \ {<<"serverRekey", r>>}

At(r, pc) == rekey[r].pc = pc
Goto(r, pc) == rekey' = [rekey EXCEPT ![r].pc = pc]

(* It looks at closed before it does anything.  Who may call it: a user,   *)
(* rekeyWatch when a rekey is due, a serverRekey worker once.              *)
PerformSoftReset(r) ==
  /\ At(r, "idle")
  /\ gen < MaxGen
  /\ r = Watch => <<Watch, 0>> \in running
  /\ r \in Servers => <<"serverRekey", r>> \in running
  /\ IF closed THEN Return(r, "ErrClosed")
     ELSE Goto(r, "begin") /\ UNCHANGED running
  /\ UNCHANGED <<tableVars, closeVars, shutdown, inProgress, timers, gen>>

Begin(r) ==
  /\ At(r, "begin")
  /\ IF inProgress
     THEN Return(r, "ErrRekeyInProgress") /\ UNCHANGED inProgress
     ELSE /\ inProgress' = TRUE
          /\ rekey' = [rekey EXCEPT ![r] =
                         [Idle EXCEPT !.pc = "layer", !.old = active,
                                      !.new = nextKeyID(active)]]
          /\ UNCHANGED running
  /\ UNCHANGED <<tableVars, closeVars, shutdown, timers, gen>>

(* 1. The new layer; one that it displaces under its key-id is closed. *)
InstallLayer(r) ==
  /\ At(r, "layer")
  /\ gen' = gen + 1
  /\ layers' = [layers EXCEPT ![rekey[r].new] = gen']
  /\ openLayers' = (openLayers \ {layers[rekey[r].new]}) \cup {gen'}
  /\ rekey' = [rekey EXCEPT ![r].pc = "writeLoop", ![r].gen = gen']
  /\ UNCHANGED <<slots, active, tlsConn, openConns, closeVars, shutdown, running,
                 inProgress, timers>>

(* startLayerPumps.  A Shutdown that comes before both pumps run makes the *)
(* rekey take its layer away again.                                        *)
StartWriteLoop(r) ==
  /\ At(r, "writeLoop")
  /\ Go(<<"writeLoop", rekey[r].gen>>)
  /\ Goto(r, "tickLoop")
  /\ UNCHANGED <<tableVars, closeVars, shutdown, inProgress, timers, gen>>

(* retireLayerIf *)
RetireLayerIf(kid, want) ==
  IF layers[kid] = want /\ want # None
  THEN /\ layers' = [layers EXCEPT ![kid] = None]
       /\ openLayers' = openLayers \ {want}
  ELSE UNCHANGED <<layers, openLayers>>

StartTickLoop_KeepLayer(r) ==
  /\ At(r, "tickLoop")
  /\ IF shutdown
     THEN Return(r, "ErrClosed") /\ inProgress' = FALSE
     ELSE Go(<<"tickLoop", rekey[r].gen>>) /\ Goto(r, "reset") /\ UNCHANGED inProgress
  /\ UNCHANGED <<tableVars, closeVars, shutdown, timers, gen>>
StartTickLoop(r) ==
  /\ At(r, "tickLoop")
  /\ IF shutdown
     THEN /\ RetireLayerIf(rekey[r].new, rekey[r].gen)
          /\ Return(r, "ErrClosed")
          /\ inProgress' = FALSE
     ELSE /\ Go(<<"tickLoop", rekey[r].gen>>)
          /\ Goto(r, "reset")
          /\ UNCHANGED <<layers, openLayers, inProgress>>
  /\ UNCHANGED <<slots, active, tlsConn, openConns, closeVars, shutdown, timers, gen>>

(* 2. to 6. *)

(* Every error path closes the TLS conn, if there is one, and takes the    *)
(* layer out of the table with retireLayer, which closes it.               *)
Failed(r) ==
  /\ openConns' = openConns \ {rekey[r].gen}
  /\ openLayers' = openLayers \ {rekey[r].gen, layers[rekey[r].new]}
  /\ layers' = [layers EXCEPT ![rekey[r].new] = None]
  /\ Return(r, "failed")
  /\ inProgress' = FALSE
  /\ UNCHANGED <<slots, active, tlsConn>>

(* P_CONTROL_SOFT_RESET_V1 is queued unless the layer was closed. *)
SendSoftReset(r) ==
  /\ At(r, "reset")
  /\ IF rekey[r].gen \in openLayers
     THEN Goto(r, "handshake") /\ UNCHANGED <<tableVars, running, inProgress>>
     ELSE Failed(r)
  /\ UNCHANGED <<closeVars, shutdown, timers, gen>>

(* HandshakeContext, which the context or a closed layer ends as well. *)
Handshake(r) ==
  /\ At(r, "handshake")
  /\ \/ /\ rekey[r].gen \in openLayers
        /\ openConns' = openConns \cup {rekey[r].gen}
        /\ Goto(r, "keys")
        /\ UNCHANGED <<slots, active, layers, openLayers, tlsConn, running, inProgress>>
     \/ Failed(r)
  /\ UNCHANGED <<closeVars, shutdown, timers, gen>>

(* KEY_METHOD 2, the key export and the new slot.  ReadKeyMethod2 has no   *)
(* deadline: with the layer open, only the server's answer ends it.        *)
ExchangeKeys(r) ==
  /\ At(r, "keys")
  /\ \/ /\ rekey[r].gen \in openLayers
        /\ Goto(r, "slot")
        /\ UNCHANGED <<tableVars, running, inProgress>>
     \/ Failed(r)
  /\ UNCHANGED <<closeVars, shutdown, timers, gen>>

(* 7. slotTable.Install: the table under its lock, then the active key-id. *)
InstallSlot(r) ==
  /\ At(r, "slot")
  /\ slots' = [slots EXCEPT ![rekey[r].new] = rekey[r].gen]
  /\ Goto(r, "activate")
  /\ UNCHANGED <<active, layers, openLayers, tlsConn, openConns, closeVars, shutdown,
                 running, inProgress, timers, gen>>

Activate(r) ==
  /\ At(r, "activate")
  /\ active' = rekey[r].new
  /\ Goto(r, "conn")
  /\ UNCHANGED <<slots, layers, openLayers, tlsConn, openConns, closeVars, shutdown,
                 running, inProgress, timers, gen>>

(* installTLSConn under tlsMu, where it asks whether the session is closed; *)
(* then the previous conn is closed and the new one's reader started.       *)
InstallTLSConn(r) ==
  /\ At(r, "conn")
  /\ IF closed
     THEN CloseConn(rekey[r].gen) /\ Goto(r, "schedule") /\ UNCHANGED tlsConn
     ELSE /\ tlsConn' = rekey[r].gen
          /\ rekey' = [rekey EXCEPT ![r].pc = "previous", ![r].prev = tlsConn]
          /\ UNCHANGED <<openConns, openLayers>>
  /\ UNCHANGED <<slots, active, layers, closeVars, shutdown, running, inProgress,
                 timers, gen>>

ClosePrevious(r) ==
  /\ At(r, "previous")
  /\ CloseConn(rekey[r].prev)
  /\ Go(<<"controlChannelReader", rekey[r].gen>>)
  /\ Goto(r, "schedule")
  /\ UNCHANGED <<slots, active, layers, tlsConn, closeVars, shutdown, inProgress,
                 timers, gen>>

(* 8. The old slot and layer are captured for retireAfter. *)
Schedule_NewKeys(r) ==
  /\ At(r, "schedule")
  /\ timers' = timers \cup {[kid |-> rekey[r].old, slot |-> rekey[r].gen,
                             layer |-> rekey[r].gen]}
  /\ inProgress' = FALSE
  /\ Return(r, "nil")
  /\ UNCHANGED <<tableVars, closeVars, shutdown, gen>>
Schedule(r) ==
  /\ At(r, "schedule")
  /\ timers' = timers \cup {[kid |-> rekey[r].old, slot |-> slots[rekey[r].old],
                             layer |-> layers[rekey[r].old]]}
  /\ inProgress' = FALSE
  /\ Return(r, "nil")
  /\ UNCHANGED <<tableVars, closeVars, shutdown, gen>>

SoftReset(r) ==
  \/ PerformSoftReset(r) \/ Begin(r) \/ InstallLayer(r)
  \/ StartWriteLoop(r) \/ StartTickLoop(r)
  \/ SendSoftReset(r) \/ Handshake(r) \/ ExchangeKeys(r)
  \/ InstallSlot(r) \/ Activate(r) \/ InstallTLSConn(r) \/ ClosePrevious(r)
  \/ Schedule(r)

(* slotTable.RetireIf: only the slot the timer was set for. *)
RetireSlotIf_ByKeyID(kid, want) == slots' = [slots EXCEPT ![kid] = None]
RetireSlotIf(kid, want) ==
  slots' = IF slots[kid] = want THEN [slots EXCEPT ![kid] = None] ELSE slots

(* retireAfter, when the transition window has passed ... *)
RetireAfter(t) ==
  /\ t \in timers
  /\ timers' = timers \ {t}
  /\ RetireSlotIf(t.kid, t.slot)
  /\ RetireLayerIf(t.kid, t.layer)
  /\ UNCHANGED <<active, tlsConn, openConns, closeVars, shutdown, running, inProgress,
                 rekey, gen>>

(* ... or the session's context is done first. *)
RetireCancelled(t) ==
  /\ t \in timers
  /\ shutdown
  /\ timers' = timers \ {t}
  /\ UNCHANGED <<tableVars, closeVars, shutdown, running, inProgress, rekey, gen>>

-----------------------------------------------------------------------------
(* What starts rekeys *)

(* handleControlIn: a SOFT_RESET under the next key-id, for which there is  *)
(* no layer yet.  A retransmission may start a second worker.               *)
ServerSoftReset(s) ==
  /\ <<"readLoop", 0>> \in running
  /\ layers[nextKeyID(active)] = None
  /\ <<"serverRekey", s>> \notin running
  /\ Go(<<"serverRekey", s>>)
  /\ UNCHANGED <<tableVars, closeVars, shutdown, inProgress, rekey, timers, gen>>

(* rekeyWatch after PerformSoftReset: classifyAutoRekey.  Only a failure of *)
(* a session that still looks open is reported, a step later.               *)
ClassifyAutoRekey(r) ==
  /\ r = Watch
  /\ At(r, "returned")
  /\ IF rekey[r].err \in {"nil", "ErrRekeyInProgress"}
     THEN rekey' = [rekey EXCEPT ![r] = Idle] /\ UNCHANGED running
     ELSE IF shutdown \/ closed \/ rekey[r].err = "ErrClosed"
     THEN /\ rekey' = [rekey EXCEPT ![r] = Idle]
          /\ running' = running \ {<<Watch, 0>>}
     ELSE Goto(r, "report") /\ UNCHANGED running
  /\ UNCHANGED <<tableVars, closeVars, shutdown, inProgress, timers, gen>>

-----------------------------------------------------------------------------
(* Close *)

(* Only the first Close does anything; it goes on in closer's steps. *)
CloseBy(by) ==
  IF closed THEN UNCHANGED <<closed, closer>>
  ELSE /\ closed' = TRUE
       /\ closer' = [pc |-> "exit", kid |-> 0, by |-> by]

Close ==
  /\ UNCHANGED closeErr
  /\ CloseBy("user")
  /\ UNCHANGED <<tableVars, reports, async, shutdown, running, inProgress, rekey,
                 timers, gen>>

CloseAsync ==
  /\ async
  /\ async' = FALSE
  /\ UNCHANGED closeErr
  /\ CloseBy("async")
  /\ UNCHANGED <<tableVars, reports, shutdown, running, inProgress, rekey, timers, gen>>

(* rekeyWatch closes the session itself, from within a worker. *)
ReportAutoRekeyFailed ==
  /\ At(Watch, "report")
  /\ setCloseErr("restart")
  /\ CloseBy(Watch)
  /\ rekey' = [rekey EXCEPT ![Watch] = Idle]
  /\ running' = IF closed THEN running \ {<<Watch, 0>>} ELSE running
  /\ UNCHANGED <<tableVars, reports, async, shutdown, inProgress, timers, gen>>

(* sendExitNotifyBestEffort takes half a second at most. *)
ExitNotify ==
  /\ closer.pc = "exit"
  /\ closer' = [closer EXCEPT !.pc = "shutdown"]
  /\ UNCHANGED <<tableVars, closed, closeErr, reports, async, shutdown,
                 running, inProgress, rekey, timers, gen>>

(* shutdown: workers.Shutdown, every layer, the TLS conn and the transport, *)
(* and a wait for the workers.                                              *)
Shutdown ==
  /\ closer.pc = "shutdown"
  /\ shutdown' = TRUE
  /\ closer' = [closer EXCEPT !.pc = "retire"]
  /\ UNCHANGED <<tableVars, closed, closeErr, reports, async, running,
                 inProgress, rekey, timers, gen>>

RetireAll_ActiveOnly ==
  /\ closer.pc = "retire"
  /\ layers' = [layers EXCEPT ![active] = None]
  /\ openLayers' = openLayers \ {layers[active]}
  /\ closer' = [closer EXCEPT !.pc = "conn"]
  /\ UNCHANGED <<slots, active, tlsConn, openConns, closed, closeErr, reports, async,
                 shutdown, running, inProgress, rekey, timers, gen>>
RetireAll ==
  /\ closer.pc = "retire"
  /\ layers' = [layers EXCEPT ![closer.kid] = None]
  /\ openLayers' = openLayers \ {layers[closer.kid]}
  /\ closer' = IF closer.kid + 1 \in KIDs THEN [closer EXCEPT !.kid = @ + 1]
               ELSE [closer EXCEPT !.pc = "conn"]
  /\ UNCHANGED <<slots, active, tlsConn, openConns, closed, closeErr, reports, async,
                 shutdown, running, inProgress, rekey, timers, gen>>

CloseTLSConn ==
  /\ closer.pc = "conn"
  /\ tlsConn' = None
  /\ CloseConn(tlsConn)
  /\ closer' = [closer EXCEPT !.pc = "wait"]
  /\ UNCHANGED <<slots, active, layers, closed, closeErr, reports, async,
                 shutdown, running, inProgress, rekey, timers, gen>>

(* The wait ends when no worker runs, or after shutdownWaitTimeout. *)
Wait ==
  /\ closer.pc = "wait"
  /\ closer' = [closer EXCEPT !.pc = "done"]
  /\ running' = IF closer.by = Watch THEN running \ {<<Watch, 0>>} ELSE running
  /\ UNCHANGED <<tableVars, closed, closeErr, reports, async, shutdown,
                 inProgress, rekey, timers, gen>>

-----------------------------------------------------------------------------
(* The other workers, as far as they end or end the session *)

Exits(worker) ==
  /\ worker \in running
  /\ running' = running \ {worker}
  /\ UNCHANGED <<tableVars, shutdown, inProgress, rekey, timers, gen>>

Unreported == UNCHANGED <<closed, closer>>
ReportsRestart == setCloseErr("restart") /\ async' = TRUE /\ UNCHANGED reports

(* readLoop: a read fails, on its own or as the session is taken down. *)
ReadLoopFails ==
  /\ Exits(<<"readLoop", 0>>)
  /\ reports' = IF shutdown \/ closed THEN reports ELSE reports \cup {"readLoop"}
  /\ UNCHANGED <<closeErr, async>> /\ Unreported

(* RequestRestart *)
RequestRestart ==
  /\ ~closed
  /\ reports' = reports \cup {"RequestRestart"}
  /\ UNCHANGED <<closeErr, async, tableVars, shutdown, running, inProgress, rekey,
                 timers, gen>>
  /\ Unreported

Report_Unlabelled(who) ==
  /\ who \in reports
  /\ reports' = reports \ {who}
  /\ async' = TRUE
  /\ UNCHANGED <<closeErr, tableVars, shutdown, running, inProgress, rekey, timers, gen>>
  /\ Unreported
Report(who) ==
  /\ who \in reports
  /\ reports' = reports \ {who}
  /\ setCloseErr("restart")
  /\ async' = TRUE
  /\ UNCHANGED <<tableVars, shutdown, running, inProgress, rekey, timers, gen>>
  /\ Unreported

IsActiveLayer(g) == slots[active] # None /\ layers[active] = g

(* tickLoop: Tick fails when its layer was closed or has retransmitted too *)
(* often; that ends the session if the layer is the active one.            *)
TickFatal(g) ==
  /\ Exits(<<"tickLoop", g>>)
  /\ IF IsActiveLayer(g) THEN ReportsRestart
     ELSE UNCHANGED <<closeErr, reports, async>>
  /\ Unreported

(* controlChannelReader: the server ends the session. *)
ServerMessage(g, err) ==
  /\ g \in openConns /\ g \in openLayers
  /\ Exits(<<"controlChannelReader", g>>)
  /\ setCloseErr(err)
  /\ async' = TRUE
  /\ UNCHANGED reports /\ Unreported

(* dataActivityWatch, pingRestartWatch, hardResetWatch, wakeDetectorWatch *)
WatchdogFires ==
  /\ Exits(<<"watchdog", 0>>)
  /\ ReportsRestart /\ Unreported

Generations == 1 .. MaxGen + Cardinality(Rekeyers)

SessionFails ==
  \/ ReadLoopFails \/ RequestRestart \/ WatchdogFires
  \/ \E g \in Generations :
       \/ TickFatal(g)
       \/ \E err \in {"exit", "restart", "authFailed"} : ServerMessage(g, err)

(* What tells each worker that it has nothing left to do: the session's     *)
(* context, its layer or its conn is done.                                  *)
RekeyWatchLeaves == shutdown /\ At(Watch, "idle")
WatchdogLeaves == shutdown
WriteLoopLeaves(g) == shutdown \/ g \notin openLayers
TickLoopLeaves(g) == shutdown \/ (g \notin openLayers /\ ~IsActiveLayer(g))
ReaderLeaves(g) == g \notin openConns \/ g \notin openLayers

Leaving(worker) ==
  CASE worker[1] = Watch -> RekeyWatchLeaves
    [] worker[1] = "watchdog" -> WatchdogLeaves
    [] worker[1] = "readLoop" -> shutdown
    [] worker[1] = "writeLoop" -> WriteLoopLeaves(worker[2])
    [] worker[1] = "tickLoop" -> TickLoopLeaves(worker[2])
    [] worker[1] = "controlChannelReader" -> ReaderLeaves(worker[2])
    [] OTHER -> FALSE

(* They leave without a trace, so it does not matter in which order. *)
WorkersLeave ==
  LET leaving == {worker \in running : Leaving(worker)}
  IN /\ leaving # {}
     /\ running' = running \ leaving
     /\ UNCHANGED <<tableVars, closeVars, shutdown, inProgress, rekey, timers, gen>>

WorkerEnds == WorkersLeave \/ \E g \in Generations : g \notin openLayers /\ TickFatal(g)

CloserSteps ==
  CloseAsync \/ ExitNotify \/ Shutdown \/ RetireAll \/ CloseTLSConn \/ Wait

Next ==
  \/ \E r \in Rekeyers : SoftReset(r) \/ ClassifyAutoRekey(r)
  \/ \E t \in timers : RetireAfter(t) \/ RetireCancelled(t)
  \/ \E s \in Servers : ServerSoftReset(s)
  \/ ReportAutoRekeyFailed
  \/ Close \/ CloserSteps
  \/ \E who \in reports : Report(who)
  \/ Restarts /\ SessionFails
  \/ WorkersEnd /\ WorkerEnds

Spec == Init /\ [][Next]_vars

(* Goroutines run: a rekey goes on, except that the server may leave its   *)
(* handshake or its key exchange without an answer as long as the layer is *)
(* open; whoever is to close closes; workers see that they should end.     *)
Proceeds(r) ==
  /\ At(r, "handshake") \/ At(r, "keys") => rekey[r].gen \notin openLayers
  /\ SoftReset(r) \/ ClassifyAutoRekey(r)
FairSpec ==
  /\ Spec
  /\ \A r \in Rekeyers : WF_vars(Proceeds(r))
  /\ WF_vars(WorkerEnds)
  /\ WF_vars(ReportAutoRekeyFailed)
  /\ WF_vars(CloserSteps)
  /\ WF_vars(\E who \in reports : Report(who))

-----------------------------------------------------------------------------
(* Properties *)

(* Outbound packets always find the newest keys: the active key-id has a    *)
(* slot, and it is the one of the last rekey that switched, however soon    *)
(* key-ids come round again while timers for their old slots still run      *)
(* (RetireIf's identity check).                                             *)
ActiveSlotIsNewest ==
  /\ slots[active] # None
  /\ \A k \in KIDs : slots[k] > slots[active] =>
       \E r \in Rekeyers : At(r, "activate") /\ rekey[r].gen = slots[k]

(* A Close that runs into a rekey leaves nothing behind: once it is over    *)
(* and no rekey is under way, every layer and every TLS conn is closed, so  *)
(* that no pump and no reader is left waiting (startLayerPumps' rejection   *)
(* path, installTLSConn's check under tlsMu).                               *)
CloseLeavesNothing ==
  closer.pc \in {"wait", "done"} /\ (\A r \in Rekeyers : At(r, "idle"))
    => openLayers = {} /\ openConns = {}

(* The packets of the previous key are opened for the whole transition      *)
(* window: only its timer, or the next holder of its key-id, removes a slot *)
(* (RetireAfter, and Install on a recycled key-id).                         *)
SlotsKeptInTransition ==
  [][\A k \in KIDs : slots[k] # None /\ slots'[k] # slots[k] =>
       \/ slots'[k] > slots[k]
       \/ \E t \in timers : t.slot = slots[k] /\ t \notin timers']_vars

(* Old keys do not stay for ever: a slot or a layer other than the active   *)
(* key-id's belongs to a rekey under way or has a timer that is set for     *)
(* that very entry, also when key-ids come round faster than timers fire.   *)
OldKeysRetire ==
  \A k \in KIDs \ {active} :
    \/ shutdown
    \/ \E r \in Rekeyers : rekey[r].pc \notin {"idle", "begin", "returned", "report"}
                          /\ k \in {rekey[r].old, rekey[r].new}
    \/ /\ slots[k] # None => \E t \in timers : t.kid = k /\ t.slot = slots[k]
       /\ layers[k] # None => \E t \in timers : t.kid = k /\ t.layer = layers[k]

(* Whoever closes the session because it failed says so first: a watcher    *)
(* that finds the session closed finds the reason to reconnect as well.     *)
ReasonBeforeClose == closed /\ closer.by # "user" => closeErr # "nil"

(* A session whose readLoop has ended, or that has a reason to end, does    *)
(* not stay open without anyone knowing: it is closed.  And its Close comes *)
(* to an end, whoever waits for whom, and every rekey and every worker with *)
(* it, also a rekey whose server has gone silent.                           *)
EverythingEnds ==
  /\ (<<"readLoop", 0>> \notin running \/ closeErr # "nil") ~> closed
  /\ closed ~> /\ closer.pc = "done"
               /\ running = {}
               /\ \A r \in Rekeyers : At(r, "idle")

=============================================================================
