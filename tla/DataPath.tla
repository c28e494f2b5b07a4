------------------------------ MODULE DataPath ------------------------------
(***************************************************************************)
(* The data path of one session (internal/session/session.go and           *)
(* internal/data/slot.go): WriteCtx, with the rekey that an exhausted slot *)
(* forces; readLoop, which hands packets to the ingress handler or queues  *)
(* them; SetIngressHandler; ReadCtx; and the Close that may come at any    *)
(* moment.                                                                 *)
(*                                                                         *)
(* Slots are numbered in the order of their rekeys.  What a rekey does and *)
(* which key-ids slots have is module Session's: here it ends with a new   *)
(* slot or fails.  Which packets open is module ReplayWindow's: here a     *)
(* packet that arrives has been opened and is no PING.                     *)
(*                                                                         *)
(* A name that ends in an underscore and a word is a faulty variant of the *)
(* definition that follows it; no action uses one.                         *)
(***************************************************************************)
EXTENDS Integers, FiniteSets

CONSTANTS
  Writers, Readers, Setters,   (* goroutines in WriteCtx, ReadCtx and      *)
                               (* SetIngressHandler                        *)
  Handlers,                    (* ingress handlers                         *)
  Threshold,                   (* PacketIDRekeyThreshold                   *)
  Width,                       (* packet-ids wrap here                     *)
  MaxSlots,                    (* bound: rekeys                            *)
  IngressCap                   (* capacity of ingressCh                    *)

None == "none"
Slots == 1 .. MaxSlots
RekeyWatch == "rekeyWatch"

ASSUME DataPathAssumption ==
  /\ {Threshold, Width, MaxSlots, IngressCap} \subseteq Nat \ {0}
  /\ IsFiniteSet(Writers) /\ {None, RekeyWatch} \cap Writers = {}
  /\ Threshold + Cardinality(Writers) + 1 < Width

VARIABLES
  active,          (* slots.Active()                                       *)
  sendPID,         (* of each slot                                         *)
  inProgress,      (* who runs PerformSoftReset, or None                   *)
  closeErr, closed, ctxDone, transportOpen,
  writer,          (* [pc, slot] of each writer                            *)
  reading,         (* the readers in ReadCtx                               *)
  rx,              (* readLoop: [pc, h], h the handler it runs             *)
  handler,         (* s.handler, or None                                   *)
  setting,         (* what each setter waits to install, or "idle"         *)
  queued,          (* packets in ingressCh                                 *)
  nonces, reused,  (* history: <<slot, packet-id>> sealed with; one of     *)
                   (* them twice                                           *)
  closedWith,      (* history: closeErr when Close began                   *)
  misled           (* history: a call was told of the teardown, but not of *)
                   (* its reason                                           *)

outVars == <<active, sendPID, inProgress, writer, nonces, reused>>
inVars == <<rx, handler, setting, queued>>
closeVars == <<closeErr, closed, ctxDone, transportOpen, closedWith>>
vars == <<outVars, inVars, closeVars, reading, misled>>

Init ==
  /\ active = 1 /\ sendPID = [s \in Slots |-> 0] /\ inProgress = None
  /\ closeErr = None /\ closed = FALSE /\ ctxDone = FALSE /\ transportOpen = TRUE
  /\ writer = [w \in Writers |-> [pc |-> "idle", slot |-> 0]]
  /\ reading = {} /\ misled = FALSE
  /\ rx = [pc |-> "idle", h |-> None] /\ handler = None
  /\ setting = [s \in Setters |-> "idle"] /\ queued = 0
  /\ nonces = {} /\ reused = FALSE /\ closedWith = None

closedErr == IF closeErr # None THEN closeErr ELSE "ErrClosed"
(* A call returns r.  "torn down" is the error of a transport that Close   *)
(* has closed.                                                             *)
Returned(r) ==
  misled' = (misled \/ r = "torn down" \/ (r = "ErrClosed" /\ closedWith # None))
Return(w, r) ==
  /\ writer' = [writer EXCEPT ![w] = [pc |-> "idle", slot |-> 0]]
  /\ Returned(r)
Goto(w, pc) == writer' = [writer EXCEPT ![w].pc = pc] /\ UNCHANGED misled

-----------------------------------------------------------------------------
(* WriteCtx *)

(* Seal counts up whether or not it refuses, so a slot that nobody manages *)
(* to replace wraps in the end: after 2^31 refusals, each with a rekey     *)
(* that failed.  Calls begin only within that margin.                      *)
WithinMargin == sendPID[active] + Cardinality(Writers) + 1 < Width

Write(w) ==
  /\ writer[w].pc = "idle" /\ WithinMargin
  /\ IF closed THEN Return(w, closedErr)
     ELSE /\ writer' = [writer EXCEPT ![w].pc = "seal", ![w].slot = active]
          /\ UNCHANGED misled
  /\ UNCHANGED <<active, sendPID, inProgress, nonces, reused, inVars, closeVars, reading>>

(* Slot.Seal: one atomic addition gives the packet-id. *)
Sealed(w, slot, pid) ==
  /\ sendPID' = [sendPID EXCEPT ![slot] = pid]
  /\ IF pid < Threshold
     THEN /\ Goto(w, "send")
          /\ nonces' = nonces \cup {<<slot, pid>>}
          /\ reused' = (reused \/ <<slot, pid>> \in nonces)
     ELSE /\ IF writer[w].pc = "seal" THEN Goto(w, "rekey")
             ELSE Return(w, "ErrPacketIDExhausted")
          /\ UNCHANGED <<nonces, reused>>
  /\ UNCHANGED <<active, inProgress, inVars, closeVars, reading>>

NextPID(slot) == (sendPID[slot] + 1) % Width
Seal_ReadThenWrite(w) ==
  LET slot == writer[w].slot
      others == {v \in Writers \ {w} : writer[v].pc = "send" /\ writer[v].slot = slot}
      stale == {sendPID[slot] : v \in others}
  IN /\ writer[w].pc \in {"seal", "reseal"}
     /\ \E pid \in {NextPID(slot)} \cup stale : Sealed(w, slot, pid)
Seal(w) ==
  /\ writer[w].pc \in {"seal", "reseal"}
  /\ Sealed(w, writer[w].slot, NextPID(writer[w].slot))

(* keepaliveLoop seals its PINGs on the active slot as well. *)
SealPing ==
  LET pid == NextPID(active)
  IN /\ ~closed /\ WithinMargin
     /\ sendPID' = [sendPID EXCEPT ![active] = pid]
     /\ nonces' = IF pid < Threshold THEN nonces \cup {<<active, pid>>} ELSE nonces
     /\ reused' = (reused \/ (pid < Threshold /\ <<active, pid>> \in nonces))
     /\ UNCHANGED <<active, inProgress, writer, inVars, closeVars, reading, misled>>

(* transport.WritePacket: it succeeds, fails for reasons of its own or at  *)
(* the caller's deadline, or fails because the session is torn down.       *)
WritePacket(w) ==
  /\ writer[w].pc = "send"
  /\ \/ transportOpen /\ Return(w, "ok")
     \/ ~ctxDone /\ transportOpen /\ Goto(w, "failed")
     \/ (ctxDone \/ ~transportOpen) /\ Goto(w, "torn down")
  /\ UNCHANGED <<active, sendPID, inProgress, nonces, reused, inVars, closeVars, reading>>

(* A failed write while s.ctx is done is put down to the close. *)
WriteFails_Bare(w) ==
  /\ writer[w].pc \in {"failed", "torn down"}
  /\ Return(w, writer[w].pc)
  /\ UNCHANGED <<active, sendPID, inProgress, nonces, reused, inVars, closeVars, reading>>
WriteFails(w) ==
  /\ writer[w].pc \in {"failed", "torn down"}
  /\ Return(w, IF ctxDone THEN closedErr ELSE writer[w].pc)
  /\ UNCHANGED <<active, sendPID, inProgress, nonces, reused, inVars, closeVars, reading>>

-----------------------------------------------------------------------------
(* Rekeys *)

(* rekeyForExhaustedSlot: PerformSoftReset, or wait for the one that runs. *)
ForceRekey(w) ==
  /\ writer[w].pc = "rekey"
  /\ \/ closed /\ Return(w, "forced rekey") /\ UNCHANGED inProgress
     \/ ~closed /\ inProgress # None /\ Goto(w, "poll") /\ UNCHANGED inProgress
     \/ ~closed /\ inProgress = None /\ Goto(w, "rekeying") /\ inProgress' = w
  /\ UNCHANGED <<active, sendPID, nonces, reused, inVars, closeVars, reading>>

Switch(w) ==
  /\ inProgress = w /\ active < MaxSlots
  /\ inProgress' = None /\ active' = active + 1
  /\ IF w \in Writers THEN Goto(w, "poll") ELSE UNCHANGED <<writer, misled>>
  /\ UNCHANGED <<sendPID, nonces, reused, inVars, closeVars, reading>>

RekeyFails(w) ==
  /\ inProgress = w
  /\ inProgress' = None
  /\ IF w \in Writers THEN Return(w, "forced rekey") ELSE UNCHANGED <<writer, misled>>
  /\ closeErr' = IF w = RekeyWatch /\ closeErr = None /\ ~closed
                 THEN "RestartError" ELSE closeErr
  /\ UNCHANGED <<active, sendPID, nonces, reused, inVars, closed, ctxDone, transportOpen,
                 closedWith, reading>>

(* ... polling until the active slot is another, for 30 s. *)
Poll_NoContext(w) ==
  /\ writer[w].pc = "poll"
  /\ active # writer[w].slot
  /\ writer' = [writer EXCEPT ![w].pc = "reseal", ![w].slot = active]
  /\ UNCHANGED <<active, sendPID, inProgress, nonces, reused, inVars, closeVars, reading,
                 misled>>
Poll(w) ==
  /\ writer[w].pc = "poll"
  /\ IF active # writer[w].slot
     THEN /\ writer' = [writer EXCEPT ![w].pc = "reseal", ![w].slot = active]
          /\ UNCHANGED misled
     ELSE \/ ctxDone /\ Return(w, closedErr)
          \/ Return(w, "ErrRekeyRequired")
  /\ UNCHANGED <<active, sendPID, inProgress, nonces, reused, inVars, closeVars, reading>>

(* rekeyWatch, by its timer or because of sendPID. *)
WatchRekeys ==
  /\ ~closed /\ inProgress = None /\ closeErr = None
  /\ inProgress' = RekeyWatch
  /\ UNCHANGED <<active, sendPID, writer, nonces, reused, inVars, closeVars, reading, misled>>

-----------------------------------------------------------------------------
(* Inbound *)

(* handleDataIn reads the handler under the read lock, which a SetIngress- *)
(* Handler that waits keeps new readers out of.                            *)
PacketArrives ==
  /\ rx.pc = "idle" /\ transportOpen /\ ~ctxDone
  /\ \A s \in Setters : setting[s] = "idle"
  /\ rx' = IF handler # None THEN [pc |-> "calling", h |-> handler]
           ELSE [pc |-> "queueing", h |-> None]
  /\ UNCHANGED <<handler, setting, queued, outVars, closeVars, reading, misled>>

HandlerReturns ==
  /\ rx.pc = "calling"
  /\ rx' = [pc |-> "idle", h |-> None]
  /\ UNCHANGED <<handler, setting, queued, outVars, closeVars, reading, misled>>

(* The channel path drops what does not fit. *)
Enqueue ==
  /\ rx.pc = "queueing"
  /\ queued' = IF queued < IngressCap THEN queued + 1 ELSE queued
  /\ rx' = [pc |-> "idle", h |-> None]
  /\ UNCHANGED <<handler, setting, outVars, closeVars, reading, misled>>

SetIngressHandler(s, h) ==
  /\ setting[s] = "idle"
  /\ setting' = [setting EXCEPT ![s] = h]
  /\ UNCHANGED <<rx, handler, queued, outVars, closeVars, reading, misled>>

(* The write lock waits for the invocation that runs. *)
HandlerSet_AtOnce(s) ==
  /\ setting[s] # "idle"
  /\ handler' = setting[s]
  /\ setting' = [setting EXCEPT ![s] = "idle"]
  /\ UNCHANGED <<rx, queued, outVars, closeVars, reading, misled>>
HandlerSet(s) ==
  /\ setting[s] # "idle" /\ rx.pc # "calling"
  /\ handler' = setting[s]
  /\ setting' = [setting EXCEPT ![s] = "idle"]
  /\ UNCHANGED <<rx, queued, outVars, closeVars, reading, misled>>

(* ReadCtx: whichever of a packet, the caller's deadline and the close     *)
(* select picks.                                                           *)
Read(r) ==
  /\ r \notin reading
  /\ reading' = reading \cup {r}
  /\ UNCHANGED <<outVars, inVars, closeVars, misled>>

ReadEnds(r) ==
  /\ r \in reading
  /\ reading' = reading \ {r}
  /\ \/ queued > 0 /\ queued' = queued - 1 /\ Returned("ok")
     \/ Returned("deadline") /\ UNCHANGED queued
     \/ ctxDone /\ Returned(closedErr) /\ UNCHANGED queued
  /\ UNCHANGED <<rx, handler, setting, outVars, closeVars>>

-----------------------------------------------------------------------------
(* Close *)

(* A watch records its reason, and then calls Close. *)
setCloseErr ==
  /\ closeErr = None /\ ~closed
  /\ closeErr' = "RestartError"
  /\ UNCHANGED <<closed, ctxDone, transportOpen, closedWith, outVars, inVars, reading, misled>>

Close ==
  /\ ~closed
  /\ closed' = TRUE /\ closedWith' = closeErr
  /\ UNCHANGED <<closeErr, ctxDone, transportOpen, outVars, inVars, reading, misled>>

(* shutdown: the context first, the transport last. *)
Shutdown ==
  /\ closed
  /\ \/ ~ctxDone /\ ctxDone' = TRUE /\ UNCHANGED transportOpen
     \/ ctxDone /\ transportOpen /\ transportOpen' = FALSE /\ UNCHANGED ctxDone
  /\ UNCHANGED <<closeErr, closed, closedWith, outVars, inVars, reading, misled>>

-----------------------------------------------------------------------------
WriterStep(w) ==
  Seal(w) \/ WritePacket(w) \/ WriteFails(w) \/ ForceRekey(w) \/ Poll(w)

Outbound ==
  \/ \E w \in Writers : Write(w) \/ WriterStep(w)
  \/ \E w \in Writers \cup {RekeyWatch} : Switch(w) \/ RekeyFails(w)
  \/ SealPing \/ WatchRekeys

Inbound ==
  \/ PacketArrives \/ HandlerReturns \/ Enqueue
  \/ \E s \in Setters : HandlerSet(s)
  \/ \E s \in Setters, h \in Handlers \cup {None} : SetIngressHandler(s, h)
  \/ \E r \in Readers : Read(r) \/ ReadEnds(r)

Closing == setCloseErr \/ Close \/ Shutdown

Next == Outbound \/ Inbound \/ Closing

Spec == Init /\ [][Next]_vars

(* Goroutines run, the handler returns, and a rekey fails once the context *)
(* is done; until then a silent server may keep it.  Nobody need call Read *)
(* and no packet need come.                                                *)
Fairness ==
  /\ \A w \in Writers : WF_vars(WriterStep(w))
  /\ \A w \in Writers \cup {RekeyWatch} : WF_vars(ctxDone /\ RekeyFails(w))
  /\ \A r \in Readers : WF_vars(ctxDone /\ ReadEnds(r))
  /\ \A s \in Setters : WF_vars(HandlerSet(s))
  /\ WF_vars(HandlerReturns) /\ WF_vars(Enqueue)
  /\ WF_vars(closeErr # None /\ Close) /\ WF_vars(Shutdown)

FairSpec == Spec /\ Fairness

-----------------------------------------------------------------------------
(* Properties *)

(* No two packets are sealed with one packet-id under one slot's keys,     *)
(* whoever writes at the same time and whatever rekeys are forced: the     *)
(* packet-id is the nonce (slot.go:97-99).                                 *)
NonceOnce == ~reused

(* Whoever is told that the session is gone is told why: a write that the  *)
(* teardown cuts off never returns the transport's own error, and neither  *)
(* it nor a read returns the plain ErrClosed when a reason had been        *)
(* recorded before Close (session.go:603-611; a forced rekey is the        *)
(* exception, it wraps what PerformSoftReset returned).                    *)
CloseReasonTold == ~misled

(* A handler is only ever invoked while it is the one that is set: once    *)
(* SetIngressHandler has returned, the previous one neither runs nor is    *)
(* called again (session.go:508-512).                                      *)
HandlerQuiet == rx.pc = "calling" => rx.h = handler

(* Nobody hangs.  After Close reads and writes return, those that rekey or *)
(* wait for somebody else's rekey included; SetIngressHandler returns, and *)
(* so does the read loop to its transport, whether or not anybody reads    *)
(* ingressCh (session.go:1158-1167).                                       *)
CallsReturn ==
  /\ rx.pc # "idle" ~> rx.pc = "idle"
  /\ \A s \in Setters : setting[s] # "idle" ~> setting[s] = "idle"
  /\ \A w \in Writers : closed /\ writer[w].pc # "idle" ~> writer[w].pc = "idle"
  /\ \A r \in Readers : closed /\ r \in reading ~> r \notin reading

=============================================================================
