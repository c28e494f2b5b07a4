------------------------------- MODULE Client -------------------------------
(***************************************************************************)
(* openvpn.Client with AutoReconnect (openvpn.go, conn.go): Tunnel readers *)
(* and writers and the background sessionWatcher find that the session has *)
(* failed and compete to replace it; OnReconnect hooks follow each new     *)
(* session; handlers are attached to whatever session is current; and      *)
(* Close ends it all.                                                      *)
(*                                                                         *)
(* A session is a number; module Session is what goes on inside one.  It   *)
(* shows here as a reason to close, recorded first, and a close.           *)
(*                                                                         *)
(* A name that ends in an underscore and a word is a faulty variant of the *)
(* definition that follows it; no action uses one.                         *)
(***************************************************************************)
EXTENDS Integers, Sequences, FiniteSets

CONSTANTS
  Callers,        (* goroutines in Tunnel.Read or Tunnel.Write             *)
  Handlers,       (* ingress handlers, each installed by its own goroutine *)
  ReconnectMaxAttempts,
  MaxConsecutiveStalls,
  Reenter,        (* bound: whether a hook uses the Tunnel                 *)
  Deadlines,      (* bound: whether Tunnel calls have deadlines            *)
  MaxSessions     (* bound: sessions dialled                               *)

None == "none"
Watcher == "sessionWatcher"
Helper == "hookHelper"     (* the goroutine the watcher's hooks run on     *)
Procs == Callers \cup {Watcher, Helper}
Sessions == 1 .. MaxSessions

ASSUME ClientAssumption ==
  /\ ReconnectMaxAttempts \in Nat /\ MaxConsecutiveStalls \in Nat
  /\ MaxSessions \in Nat \ {0}
  /\ Reenter \in BOOLEAN /\ Deadlines \in BOOLEAN
  /\ {None, Watcher, Helper} \cap Callers = {} /\ None \notin Handlers

VARIABLES
  closed,             (* Client.closed; its context is cancelled with it   *)
  s,                  (* Client.s                                          *)
  dialled,            (* sessions made so far: 1 .. dialled                *)
  closeErr,           (* Session.closeErr of each                          *)
  ended,              (* Session.closed of each                            *)
  handler,            (* Session.handler of each                           *)
  reconnectMu, fireMu,            (* who holds the mutex                   *)
  consecutiveStalls, gaveUp,
  proc,               (* where each process is                             *)
  ingressHandler,     (* Client.ingressHandler                             *)
  setter,             (* where each handler's goroutine is                 *)
  closer,             (* where Client.Close is                             *)
  fired               (* history: sessions OnReconnect hooks were given    *)

sessionVars == <<dialled, closeErr, ended, handler>>
lockVars == <<reconnectMu, fireMu>>
stallVars == <<consecutiveStalls, gaveUp>>
handlerVars == <<ingressHandler, setter>>
vars == <<closed, s, sessionVars, lockVars, stallVars, proc, handlerVars, closer, fired>>

Idle == [pc |-> "idle", failed |-> 0, new |-> 0, attempt |-> 0, nested |-> FALSE]

(* Dial has returned. *)
Init ==
  /\ closed = FALSE /\ s = 1 /\ dialled = 1
  /\ closeErr = [i \in Sessions |-> "nil"]
  /\ ended = [i \in Sessions |-> FALSE]
  /\ handler = [i \in Sessions |-> None]
  /\ reconnectMu = None /\ fireMu = None
  /\ consecutiveStalls = 0 /\ gaveUp = FALSE
  /\ proc = [p \in Procs |-> Idle]
  /\ ingressHandler = None
  /\ setter = [h \in Handlers |-> [pc |-> "idle", value |-> None, s |-> 0]]
  /\ closer = [pc |-> "none", s |-> 0]
  /\ fired = <<>>

At(p, pc) == proc[p].pc = pc
Goto(p, pc) == proc' = [proc EXCEPT ![p].pc = pc]
(* The same, where the process has done with its session. *)
Resume(p, pc) ==
  proc' = [proc EXCEPT ![p] = [Idle EXCEPT !.pc = pc, !.nested = proc[p].nested]]
IsRestart(err) == err \in {"restart", "data-activity stuck"}

-----------------------------------------------------------------------------
(* Sessions fail on their own: setCloseErr, then Session.Close. *)

SessionFails(i, err) ==
  /\ i <= dialled /\ ~ended[i] /\ closeErr[i] = "nil"
  /\ closeErr' = [closeErr EXCEPT ![i] = err]
  /\ UNCHANGED <<closed, s, dialled, ended, handler, lockVars, stallVars, proc,
                 handlerVars, closer, fired>>

SessionEnds(i) ==
  /\ closeErr[i] # "nil" /\ ~ended[i]
  /\ ended' = [ended EXCEPT ![i] = TRUE]
  /\ UNCHANGED <<closed, s, dialled, closeErr, handler, lockVars, stallVars,
                 proc, handlerVars, closer, fired>>

-----------------------------------------------------------------------------
(* reconnect *)

(* Where a process goes when its reconnect is over: a Tunnel call to its   *)
(* caller or to another try, a hook's Tunnel call back into the hook, the  *)
(* watcher to its next tick unless the error is terminal.                  *)
Return(p, err) ==
  proc' = [proc EXCEPT ![p] =
             IF proc[p].nested THEN [Idle EXCEPT !.pc = "hook"]
             ELSE IF p = Watcher /\ err # "nil" THEN [Idle EXCEPT !.pc = "exited"]
             ELSE Idle]

(* tunnel.Read and tunnel.Write, which a hook may call too: they load the  *)
(* session and wait on it.                                                 *)
TunnelIO(p) ==
  /\ (p \in Callers /\ At(p, "idle")) \/ (Reenter /\ At(p, "hook"))
  /\ ~closed
  /\ proc' = [proc EXCEPT ![p].pc = "io", ![p].failed = s, ![p].nested = At(p, "hook")]
  /\ UNCHANGED <<closed, s, sessionVars, lockVars, stallVars, handlerVars, closer, fired>>

(* The packet is there, the deadline has passed, or the session has ended  *)
(* for some other reason.                                                  *)
TunnelDone(p) ==
  /\ At(p, "io")
  /\ ended[proc[p].failed] => ~IsRestart(closeErr[proc[p].failed])
  /\ Return(p, "nil")
  /\ UNCHANGED <<closed, s, sessionVars, lockVars, stallVars, handlerVars, closer, fired>>

(* The session has ended with a RestartError (maybeReconnect). *)
TunnelRestart(p) ==
  /\ At(p, "io")
  /\ ended[proc[p].failed] /\ IsRestart(closeErr[proc[p].failed])
  /\ Goto(p, "reconnect")
  /\ UNCHANGED <<closed, s, sessionVars, lockVars, stallVars, handlerVars, closer, fired>>

(* decideStallSurrender; whether the session was short-lived is up to time. *)
decideStallSurrender(err, short) ==
  IF MaxConsecutiveStalls > 0 /\ err = "data-activity stuck" /\ short
  THEN consecutiveStalls + 1 ELSE 0

Surrenders(n) == MaxConsecutiveStalls > 0 /\ n >= MaxConsecutiveStalls

AlreadyReplaced(p) == s # proc[p].failed

(* reconnectInstall, up to its loop. *)
BeginReconnect(p) ==
  /\ At(p, "reconnect")
  /\ reconnectMu = None
  /\ IF closed THEN Return(p, "ErrClosed") /\ UNCHANGED <<lockVars, stallVars, ended>>
     ELSE IF AlreadyReplaced(p)
     THEN Return(p, "nil") /\ UNCHANGED <<lockVars, stallVars, ended>>
     ELSE IF gaveUp
     THEN Return(p, "ErrReconnectGaveUp") /\ UNCHANGED <<lockVars, stallVars, ended>>
     ELSE \E short \in BOOLEAN :
       LET n == decideStallSurrender(closeErr[proc[p].failed], short)
       IN /\ consecutiveStalls' = n
          /\ gaveUp' = Surrenders(n)
          /\ IF Surrenders(n)
             THEN Return(p, "ErrReconnectGaveUp") /\ UNCHANGED <<lockVars, ended>>
             ELSE /\ reconnectMu' = p
                  /\ ended' = [ended EXCEPT ![proc[p].failed] = TRUE]
                  /\ proc' = [proc EXCEPT ![p].pc = "dial", ![p].attempt = 1]
                  /\ UNCHANGED fireMu
  /\ UNCHANGED <<closed, s, dialled, closeErr, handler, handlerVars, closer,
                 fired>>

HasDeadline(p) == Deadlines /\ p \in Callers

(* The loop ends without a session: the client is closed, the caller's     *)
(* deadline passes, the server rejects the credentials, or the last        *)
(* attempt fails.                                                          *)
GiveUpDialling(p, err) ==
  /\ At(p, "dial") \/ At(p, "backoff")
  /\ \/ err = "ErrClosed" /\ closed
     \/ err = "deadline" /\ HasDeadline(p)
     \/ err = "ErrAuthFailed" /\ At(p, "dial")
     \/ err = "ErrReconnectGaveUp" /\ At(p, "dial")
        /\ proc[p].attempt = ReconnectMaxAttempts
  /\ reconnectMu' = None
  /\ Return(p, err)
  /\ UNCHANGED <<closed, s, sessionVars, fireMu, stallVars, handlerVars, closer, fired>>

(* An attempt fails and another follows after a delay.  The number of the  *)
(* attempt is kept only if attempts are limited.                           *)
DialFails_NotCounted(p) ==
  /\ At(p, "dial")
  /\ Goto(p, "backoff")
  /\ UNCHANGED <<closed, s, sessionVars, lockVars, stallVars, handlerVars, closer, fired>>
DialFails(p) ==
  /\ At(p, "dial")
  /\ proc[p].attempt < ReconnectMaxAttempts \/ ReconnectMaxAttempts = 0
  /\ proc' = [proc EXCEPT ![p].pc = "backoff",
                          ![p].attempt = IF ReconnectMaxAttempts = 0 THEN @ ELSE @ + 1]
  /\ UNCHANGED <<closed, s, sessionVars, lockVars, stallVars, handlerVars, closer, fired>>

BackoffOver(p) ==
  /\ At(p, "backoff")
  /\ ~closed
  /\ Goto(p, "dial")
  /\ UNCHANGED <<closed, s, sessionVars, lockVars, stallVars, handlerVars, closer, fired>>

(* dialSession succeeds: the session runs, though nobody can see it yet. *)
DialSucceeds(p) ==
  /\ At(p, "dial")
  /\ dialled < MaxSessions
  /\ dialled' = dialled + 1
  /\ proc' = [proc EXCEPT ![p].pc = "dialled", ![p].new = dialled']
  /\ UNCHANGED <<closed, s, closeErr, ended, handler, lockVars, stallVars,
                 handlerVars, closer, fired>>

(* Nobody wants it any more: it is closed again. *)
Discard_Leak(p) ==
  /\ At(p, "dialled")
  /\ closed \/ HasDeadline(p)
  /\ reconnectMu' = None
  /\ Return(p, IF closed THEN "ErrClosed" ELSE "deadline")
  /\ UNCHANGED <<closed, s, sessionVars, fireMu, stallVars, handlerVars, closer, fired>>
Discard(p) ==
  /\ At(p, "dialled")
  /\ closed \/ HasDeadline(p)
  /\ ended' = [ended EXCEPT ![proc[p].new] = TRUE]
  /\ reconnectMu' = None
  /\ Return(p, IF closed THEN "ErrClosed" ELSE "deadline")
  /\ UNCHANGED <<closed, s, dialled, closeErr, handler, fireMu, stallVars,
                 handlerVars, closer, fired>>

Keep(p) ==
  /\ At(p, "dialled")
  /\ ~closed
  /\ Goto(p, "install")
  /\ UNCHANGED <<closed, s, sessionVars, lockVars, stallVars, handlerVars, closer, fired>>

(* c.s is replaced and the handler attached in one critical section.  The  *)
(* watcher leaves the hooks to a goroutine of their own.                   *)
Installed(p) ==
  /\ At(p, "install")
  /\ s' = proc[p].new
  /\ reconnectMu' = None
  /\ proc' = IF p = Watcher
             THEN [proc EXCEPT ![Watcher] = [Idle EXCEPT !.pc = "waitHooks"],
                               ![Helper] = [Idle EXCEPT !.pc = "fire", !.new = s']]
             ELSE [proc EXCEPT ![p].pc = "fire", ![p].failed = 0, ![p].attempt = 0]
  /\ UNCHANGED <<closed, dialled, closeErr, ended, fireMu, stallVars,
                 handlerVars, closer, fired>>
Install_NoHandler(p) == Installed(p) /\ UNCHANGED handler
Install(p) ==
  /\ Installed(p)
  /\ handler' = [handler EXCEPT ![proc[p].new] = ingressHandler]

-----------------------------------------------------------------------------
(* Hooks *)

(* fireHooksFor takes fireMu, and leaves a superseded session's hooks out. *)
Hooked(p) == IF p = Helper THEN proc' = [proc EXCEPT ![p] = Idle] ELSE Return(p, "nil")
FireHooks_Superseded(p) ==
  /\ At(p, "fire")
  /\ fireMu = None
  /\ IF closed
     THEN Hooked(p) /\ UNCHANGED <<fireMu, fired>>
     ELSE fireMu' = p /\ fired' = Append(fired, proc[p].new) /\ Resume(p, "hook")
  /\ UNCHANGED <<closed, s, sessionVars, reconnectMu, stallVars, handlerVars, closer>>
FireHooks(p) ==
  /\ At(p, "fire")
  /\ fireMu = None
  /\ IF closed \/ s # proc[p].new
     THEN Hooked(p) /\ UNCHANGED <<fireMu, fired>>
     ELSE fireMu' = p /\ fired' = Append(fired, proc[p].new) /\ Resume(p, "hook")
  /\ UNCHANGED <<closed, s, sessionVars, reconnectMu, stallVars, handlerVars, closer>>

HooksReturn(p) ==
  /\ At(p, "hook")
  /\ fireMu' = None
  /\ Hooked(p)
  /\ UNCHANGED <<closed, s, sessionVars, reconnectMu, stallVars, handlerVars, closer, fired>>

-----------------------------------------------------------------------------
(* sessionWatcher reads CloseErr and then, on nil, IsClosed. *)

WatcherTick ==
  /\ At(Watcher, "idle")
  /\ IF closed \/ closeErr[s] = "fatal" THEN Resume(Watcher, "exited")
     ELSE proc' = [proc EXCEPT ![Watcher].failed = s,
                     ![Watcher].pc = IF closeErr[s] = "nil" THEN "noErr" ELSE "reconnect"]
  /\ UNCHANGED <<closed, s, sessionVars, lockVars, stallVars, handlerVars, closer, fired>>

WatcherIsClosed ==
  /\ At(Watcher, "noErr")
  /\ Resume(Watcher, IF ended[proc[Watcher].failed] THEN "exited" ELSE "idle")
  /\ UNCHANGED <<closed, s, sessionVars, lockVars, stallVars, handlerVars, closer, fired>>

(* It waits for the hooks' goroutine unless the client is closed. *)
WatcherHooked_AlwaysWaits ==
  /\ At(Watcher, "waitHooks")
  /\ At(Helper, "idle") /\ Goto(Watcher, "idle")
  /\ UNCHANGED <<closed, s, sessionVars, lockVars, stallVars, handlerVars, closer, fired>>
WatcherHooked ==
  /\ At(Watcher, "waitHooks")
  /\ \/ At(Helper, "idle") /\ Goto(Watcher, "idle")
     \/ closed /\ Goto(Watcher, "exited")
  /\ UNCHANGED <<closed, s, sessionVars, lockVars, stallVars, handlerVars, closer, fired>>

-----------------------------------------------------------------------------
(* Client.Close, by its owner or from a hook, which then waits for it. *)

Close(by) ==
  /\ ~closed
  /\ closed' = TRUE
  /\ closer' = [pc |-> "lock", s |-> 0]
  /\ IF by = None THEN UNCHANGED proc ELSE At(by, "hook") /\ Goto(by, "closing")
  /\ UNCHANGED <<s, sessionVars, lockVars, stallVars, handlerVars, fired>>

CloseLock ==
  /\ closer.pc = "lock"
  /\ reconnectMu = None
  /\ closer' = [pc |-> "session", s |-> s]
  /\ UNCHANGED <<closed, s, sessionVars, lockVars, stallVars, proc, handlerVars, fired>>

CloseSession ==
  /\ closer.pc = "session"
  /\ ended' = [ended EXCEPT ![closer.s] = TRUE]
  /\ closer' = [pc |-> "wait", s |-> 0]
  /\ UNCHANGED <<closed, s, dialled, closeErr, handler, lockVars, stallVars,
                 proc, handlerVars, fired>>

CloseReturn ==
  /\ closer.pc = "wait"
  /\ At(Watcher, "exited")
  /\ closer' = [closer EXCEPT !.pc = "done"]
  /\ proc' = [p \in Procs |-> IF At(p, "closing") THEN [proc[p] EXCEPT !.pc = "hook"]
                               ELSE proc[p]]
  /\ UNCHANGED <<closed, s, sessionVars, lockVars, stallVars, handlerVars, fired>>

-----------------------------------------------------------------------------
(* SetIngressHandler and the detach function it returns: the client's slot *)
(* first, then whatever session is current.  nil clears unconditionally.   *)

SetIngressHandler(h, value) ==
  /\ setter[h].pc = "idle" /\ value \in {h, None}
  /\ ingressHandler' = value
  /\ setter' = [setter EXCEPT ![h].pc = "load", ![h].value = value]
  /\ UNCHANGED <<closed, s, sessionVars, lockVars, stallVars, proc, closer, fired>>

(* c.mu is held for the load only. *)
LoadSession(h) ==
  /\ setter[h].pc = "load"
  /\ setter' = [setter EXCEPT ![h].pc = "attach", ![h].s = s]
  /\ UNCHANGED <<closed, s, sessionVars, lockVars, stallVars, proc, ingressHandler,
                 closer, fired>>

Attach(h) ==
  /\ setter[h].pc = "attach"
  /\ handler' = [handler EXCEPT ![setter[h].s] = setter[h].value]
  /\ setter' = [setter EXCEPT ![h].pc = IF setter[h].value = h THEN "attached" ELSE "done",
                              ![h].s = 0]
  /\ UNCHANGED <<closed, s, dialled, closeErr, ended, lockVars, stallVars, proc,
                 ingressHandler, closer, fired>>

Detach(h) ==
  /\ setter[h].pc = "attached"
  /\ IF ingressHandler = h
     THEN /\ ingressHandler' = None
          /\ setter' = [setter EXCEPT ![h].pc = "load", ![h].value = None]
     ELSE /\ setter' = [setter EXCEPT ![h].pc = "done", ![h].value = None]
          /\ UNCHANGED ingressHandler
  /\ UNCHANGED <<closed, s, sessionVars, lockVars, stallVars, proc, closer, fired>>

-----------------------------------------------------------------------------
Reconnects(p) ==
  \/ BeginReconnect(p) \/ DialFails(p) \/ BackoffOver(p) \/ DialSucceeds(p)
  \/ Discard(p) \/ Keep(p) \/ Install(p)
  \/ \E err \in {"ErrClosed", "deadline", "ErrAuthFailed", "ErrReconnectGaveUp"} :
       GiveUpDialling(p, err)
Hooks(p) == FireHooks(p) \/ HooksReturn(p)
WatcherSteps == WatcherTick \/ WatcherIsClosed \/ WatcherHooked
CloseSteps == CloseLock \/ CloseSession \/ CloseReturn

Next ==
  \/ \E i \in Sessions :
       \/ \E err \in {"restart", "data-activity stuck", "fatal"} : SessionFails(i, err)
       \/ SessionEnds(i)
  \/ \E p \in Procs : TunnelIO(p) \/ TunnelDone(p) \/ TunnelRestart(p)
                     \/ Reconnects(p) \/ Hooks(p)
  \/ WatcherSteps
  \/ \E by \in Procs \cup {None} : Close(by)
  \/ CloseSteps
  \/ \E h \in Handlers : \/ \E value \in {h, None} : SetIngressHandler(h, value)
                         \/ LoadSession(h) \/ Attach(h) \/ Detach(h)

Spec == Init /\ [][Next]_vars

(* A dial returns, hooks return, goroutines run, and a mutex is given to   *)
(* each of those that wait for it (Go's mutexes are not starved).          *)
(* Sessions need not fail, and nobody need call anything.                  *)
FairSpec ==
  /\ Spec
  /\ \A p \in Procs : /\ WF_vars(Reconnects(p)) /\ SF_vars(BeginReconnect(p))
                      /\ WF_vars(Hooks(p)) /\ SF_vars(FireHooks(p))
                      /\ WF_vars(TunnelDone(p) \/ TunnelRestart(p))
  /\ \A i \in Sessions : WF_vars(SessionEnds(i))
  /\ WF_vars(WatcherSteps)
  /\ WF_vars(CloseSteps) /\ SF_vars(CloseLock)

-----------------------------------------------------------------------------
(* Properties *)

(* Close leaves no session running, whatever reconnects it overtakes:      *)
(* "Cancels any in-flight AutoReconnect attempt so no orphan session is    *)
(* left behind" (openvpn.go:1379-1380).  And before Close, a session that  *)
(* has been replaced is closed, so that two sessions never carry the       *)
(* tunnel at once.                                                         *)
NoOrphanSession ==
  \A i \in 1 .. dialled :
    \/ ended[i]
    \/ /\ closer.pc \notin {"wait", "done"}
       /\ i = s \/ \E p \in Procs : proc[p].new = i /\ reconnectMu = p

(* Hooks see sessions in the order they were installed, so the last one    *)
(* that runs has the current PushReply (fireHooksFor).                     *)
HooksInOrder == \A j, k \in 1 .. Len(fired) : j < k => fired[j] < fired[k]

(* Once SetIngressHandler and detach have returned, the current session    *)
(* delivers to the handler the client has registered, across reconnects.   *)
(* That is for one consumer: calls of two that overlap can end otherwise   *)
(* ("Pick one consumer", openvpn.go:509).                                  *)
HandlerFollows ==
  (\A h \in Handlers : setter[h].pc \notin {"load", "attach"})
    => handler[s] = ingressHandler

(* Close returns, also when a hook calls it. *)
CloseReturns == closed ~> closer.pc = "done"

(* Whoever meets a restart and waits at reconnectMu gets there: nobody is  *)
(* left behind the watcher or another caller (reconnectInstall).           *)
ReconnectReturns == \A c \in Callers : At(c, "reconnect") ~> ~At(c, "reconnect")

=============================================================================
