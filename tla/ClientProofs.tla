---------------------------- MODULE ClientProofs ----------------------------
(***************************************************************************)
(* The safety of AutoReconnect for every number of callers and sessions,   *)
(* every limit on attempts and stalls, and with hooks that use the Tunnel  *)
(* and close the client.                                                   *)
(***************************************************************************)
EXTENDS Client, TLAPS

(* The provers every leaf may use, and how long the first may take. *)
USE SMTT(20), Zenon

Dialling == {"dial", "backoff"}
Holding == {"dialled", "install"}
Busy == Dialling \cup Holding
Others == {"idle", "io", "reconnect", "hook", "closing", "noErr", "waitHooks", "exited"}
PCs == Busy \cup {"fire"} \cup Others
Process ==
  [pc : PCs, failed : 0 .. MaxSessions, new : 0 .. MaxSessions, attempt : Nat,
   nested : BOOLEAN]

TypeInv ==
  /\ s \in Sessions /\ dialled \in Sessions /\ s <= dialled
  /\ ended \in [Sessions -> BOOLEAN]
  /\ proc \in [Procs -> Process]

(* The process that holds reconnectMu is the one between BeginReconnect    *)
(* and Install; the session that failed is closed by then, and the one it  *)
(* has dialled is the last.  Nobody else has a session, except to fire its *)
(* hooks.                                                                  *)
MuInv ==
  \A p \in Procs :
    /\ proc[p].pc \in Busy <=> reconnectMu = p
    /\ proc[p].pc \in Busy => ended[s]
    /\ proc[p].pc \in Holding => proc[p].new = dialled /\ s < dialled
    /\ proc[p].pc = "fire" => proc[p].new \in 1 .. s
    /\ proc[p].pc \in Dialling \cup Others => proc[p].new = 0

(* The watcher runs no hooks itself, and waits for the goroutine that runs *)
(* them.                                                                   *)
WatcherInv ==
  /\ proc[Watcher].pc \in Busy \cup {"idle", "noErr", "reconnect", "waitHooks", "exited"}
  /\ ~proc[Watcher].nested
  /\ proc[Watcher].pc \notin {"waitHooks", "exited"} => proc[Helper].pc = "idle"

(* Close has the client to itself once it has had reconnectMu. *)
CloserInv ==
  /\ closed \in BOOLEAN
  /\ closer \in [pc : {"none", "lock", "session", "wait", "done"}, s : 0 .. MaxSessions]
  /\ closer.pc # "none" => closed
  /\ closer.pc \in {"session", "wait", "done"} => reconnectMu = None
  /\ closer.pc = "session" => closer.s = s

ReconnectInv == TypeInv /\ MuInv /\ WatcherInv /\ CloserInv

(* A session's hooks are fired once, by the one process that has it. *)
FireInv ==
  /\ fired \in Seq(Nat)
  /\ \A j \in 1 .. Len(fired) : fired[j] <= s
  /\ \A p \in Procs : proc[p].pc = "fire" => \A j \in 1 .. Len(fired) : fired[j] # proc[p].new
  /\ \A p, q \in Procs : proc[p].pc = "fire" /\ proc[q].pc = "fire" /\ p # q
       => proc[p].new # proc[q].new

(* The handler's goroutine is on its way to attach what is registered, to  *)
(* the current session unless that has it already.                         *)
HandlerInv ==
  /\ \A h \in Handlers :
       /\ setter[h].pc \in {"load", "attach"} => setter[h].value = ingressHandler
       /\ setter[h].pc = "attach" => setter[h].s = s \/ handler[s] = ingressHandler
  /\ HandlerFollows

-----------------------------------------------------------------------------
(* Processes *)

(* The constants, and who is who. *)
LEMMA Constants ==
  /\ MaxSessions \in Nat \ {0} /\ ReconnectMaxAttempts \in Nat /\ None \notin Procs
  /\ Watcher \in Procs /\ Helper \in Procs /\ Watcher # Helper
BY ClientAssumption DEF Procs, None, Watcher, Helper

(* p moves, without reconnectMu before or after. *)
Quiet(p) ==
  /\ proc' = [proc EXCEPT ![p] = proc'[p]] /\ proc'[p] \in Process
  /\ proc[p].pc \notin Busy
  /\ proc'[p].pc \in Others /\ proc'[p].new = 0
  /\ p = Helper => (proc[p].pc = "idle" => proc'[p].pc = "idle")
  /\ p = Watcher => /\ proc'[p].pc \in {"idle", "noErr", "reconnect", "waitHooks", "exited"}
                    /\ ~proc'[p].nested
                    /\ proc'[p].pc \in {"waitHooks", "exited"} \/ proc[Helper].pc = "idle"
  /\ UNCHANGED <<s, dialled, reconnectMu, ended>>

(* Where the other processes are does not change. *)
LEMMA OthersStay ==
  ASSUME TypeInv, NEW p \in Procs, proc' = [proc EXCEPT ![p] = proc'[p]]
  PROVE  \A q \in Procs \ {p} : proc'[q] = proc[q]
BY DEF TypeInv

(* A quiet step keeps the invariant of the processes. *)
LEMMA QuietStep ==
  ASSUME ReconnectInv, NEW p \in Procs, Quiet(p)
  PROVE  TypeInv' /\ MuInv' /\ WatcherInv'
<1> USE DEF ReconnectInv
<1>1. \A q \in Procs \ {p} : proc'[q] = proc[q]
  BY OthersStay DEF Quiet
<1>2. TypeInv'
  BY DEF Quiet, TypeInv
<1>3. MuInv'
  <2>1. reconnectMu # p
    BY DEF Quiet, MuInv
  <2>2. /\ proc'[p].pc \notin Busy /\ proc'[p].pc \notin Holding /\ proc'[p].pc # "fire"
        /\ proc'[p].new = 0
    BY DEF Quiet, Busy, Dialling, Holding, Others
  <2> QED BY <1>1, <2>1, <2>2 DEF Quiet, MuInv
<1>4. WatcherInv'
  BY <1>1, Constants DEF Quiet, WatcherInv
<1> QED BY <1>2, <1>3, <1>4

(* An idle process. *)
LEMMA IdleFacts ==
  Idle \in Process /\ Idle.pc = "idle" /\ Idle.new = 0 /\ ~Idle.nested
<1>1. "idle" \in PCs /\ 0 \in 0 .. MaxSessions
  BY Constants DEF PCs, Others
<1> QED BY <1>1 DEF Idle, Process

(* Where Return leads. *)
After(p, err) ==
  IF proc[p].nested THEN [Idle EXCEPT !.pc = "hook"]
  ELSE IF p = Watcher /\ err # "nil" THEN [Idle EXCEPT !.pc = "exited"]
  ELSE Idle

LEMMA ReturnFacts ==
  ASSUME TypeInv, WatcherInv, NEW p \in Procs, NEW err, Return(p, err)
  PROVE  /\ proc' = [proc EXCEPT ![p] = proc'[p]] /\ proc'[p] \in Process
         /\ proc'[p].pc \in {"idle", "hook", "exited"} /\ proc'[p].new = 0
         /\ ~proc'[p].nested
         /\ p = Watcher => proc'[p].pc \in {"idle", "exited"}
<1>1. proc' = [proc EXCEPT ![p] = After(p, err)] /\ proc'[p] = After(p, err)
  BY DEF Return, After, TypeInv
<1>2. /\ After(p, err) \in Process
      /\ After(p, err).pc \in {"idle", "hook", "exited"} /\ After(p, err).new = 0
      /\ ~After(p, err).nested
      /\ p = Watcher => After(p, err).pc \in {"idle", "exited"}
  <2>1. ASSUME NEW pc \in {"idle", "hook", "exited"}
        PROVE  /\ [Idle EXCEPT !.pc = pc] \in Process
               /\ [Idle EXCEPT !.pc = pc].pc = pc
               /\ [Idle EXCEPT !.pc = pc].new = 0 /\ ~[Idle EXCEPT !.pc = pc].nested
    <3>1. pc \in PCs
      BY DEF PCs, Others
    <3> QED BY <3>1, IdleFacts DEF Process
  <2>2. p = Watcher => ~proc[p].nested
    BY DEF WatcherInv
  <2> QED BY <2>1, <2>2, IdleFacts DEF After
<1> QED BY <1>1, <1>2, Zenon

LEMMA ResumeFacts ==
  ASSUME TypeInv, NEW p \in Procs, NEW pc \in Others, Resume(p, pc)
  PROVE  /\ proc' = [proc EXCEPT ![p] = proc'[p]] /\ proc'[p] \in Process
         /\ proc'[p].pc = pc /\ proc'[p].new = 0
         /\ proc'[p].nested = proc[p].nested
<1> DEFINE r == [Idle EXCEPT !.pc = pc, !.nested = proc[p].nested]
<1>1. proc' = [proc EXCEPT ![p] = r] /\ proc'[p] = r
  BY DEF Resume, TypeInv
<1>2. r \in Process /\ r.pc = pc /\ r.new = 0 /\ r.nested = proc[p].nested
  <2>1. proc[p].nested \in BOOLEAN /\ pc \in PCs
    BY DEF TypeInv, Process, PCs
  <2> DEFINE one == [Idle EXCEPT !.pc = pc]
  <2>2. one \in Process /\ one.pc = pc /\ one.new = 0
    BY <2>1, IdleFacts DEF Process
  <2>3. r = [one EXCEPT !.nested = proc[p].nested]
    OBVIOUS
  <2> HIDE DEF one, r
  <2> QED BY <2>1, <2>2, <2>3 DEF Process
<1> QED BY <1>1, <1>2, Zenon

LEMMA GotoFacts ==
  ASSUME TypeInv, NEW p \in Procs, NEW pc \in PCs, Goto(p, pc)
  PROVE  /\ proc' = [proc EXCEPT ![p] = proc'[p]] /\ proc'[p] \in Process
         /\ proc'[p].pc = pc /\ proc'[p].new = proc[p].new
         /\ proc'[p].nested = proc[p].nested /\ proc'[p].failed = proc[p].failed
BY DEF Goto, TypeInv, Process

(* Who is at hook, io or fire is not the watcher, and the helper is not    *)
(* idle there.                                                             *)
LEMMA NotTheWatcher ==
  ASSUME WatcherInv, NEW p \in Procs, proc[p].pc \in {"io", "hook", "closing", "fire"}
  PROVE  p # Watcher /\ proc[p].pc # "idle"
BY DEF WatcherInv, Busy, Dialling, Holding

(* A process that is back from reconnect, or from its hooks. *)
LEMMA ReturnQuiet ==
  ASSUME ReconnectInv, NEW p \in Procs, NEW err, Return(p, err),
         proc[p].pc \in {"io", "reconnect", "fire", "hook"},
         UNCHANGED <<s, dialled, reconnectMu, ended>>
  PROVE  Quiet(p)
<1> USE DEF ReconnectInv
<1>1. proc[p].pc \notin Busy /\ proc[p].pc # "idle"
  BY DEF Busy, Dialling, Holding
<1>2. p = Watcher => proc[Helper].pc = "idle"
  BY DEF WatcherInv
<1> QED BY <1>1, <1>2, ReturnFacts DEF Quiet, Others

LEMMA HookedQuiet ==
  ASSUME ReconnectInv, NEW p \in Procs, Hooked(p), proc[p].pc \in {"fire", "hook"},
         UNCHANGED <<s, dialled, reconnectMu, ended>>
  PROVE  Quiet(p)
<1> USE DEF ReconnectInv
<1>1. CASE p = Helper
  <2>1. proc' = [proc EXCEPT ![p] = Idle] /\ proc'[p] = Idle
    BY <1>1 DEF Hooked, TypeInv
  <2>2. proc[p].pc \notin Busy /\ p # Watcher
    BY NotTheWatcher DEF Busy, Dialling, Holding
  <2> QED BY <2>1, <2>2, IdleFacts, Zenon DEF Quiet, Others
<1>2. CASE p # Helper
  BY <1>2, ReturnQuiet DEF Hooked
<1> QED BY <1>1, <1>2

(* Tunnel calls. *)
LEMMA TunnelQuiet ==
  ASSUME ReconnectInv, NEW p \in Procs, TunnelIO(p) \/ TunnelDone(p) \/ TunnelRestart(p)
  PROVE  Quiet(p)
<1> USE DEF ReconnectInv
<1>1. UNCHANGED <<s, dialled, reconnectMu, ended>>
  BY DEF TunnelIO, TunnelDone, TunnelRestart, sessionVars, lockVars
<1>2. CASE TunnelIO(p)
  <2>1. p # Watcher /\ proc[p].pc \in {"idle", "hook"} /\ (p = Helper => proc[p].pc # "idle")
    BY <1>2, NotTheWatcher, ClientAssumption DEF TunnelIO, At
  <2>2. proc[p].new = 0 /\ proc[p].pc \notin Busy
    BY <2>1 DEF MuInv, Others, Busy, Dialling, Holding
  <2> DEFINE one == [proc[p] EXCEPT !.pc = "io"]
             two == [one EXCEPT !.failed = s]
             three == [two EXCEPT !.nested = At(p, "hook")]
  <2>3. proc[p] \in Process /\ "io" \in PCs /\ s \in 0 .. MaxSessions /\ At(p, "hook") \in BOOLEAN
    BY DEF TypeInv, PCs, Others, Sessions, At
  <2>4. one \in Process /\ one.pc = "io" /\ one.new = 0
    BY <2>2, <2>3 DEF Process
  <2> HIDE DEF one
  <2>5. two \in Process /\ two.pc = "io" /\ two.new = 0
    BY <2>3, <2>4 DEF Process
  <2> HIDE DEF two
  <2>6. three \in Process /\ three.pc = "io" /\ three.new = 0
    BY <2>3, <2>5 DEF Process
  <2>7. proc' = [proc EXCEPT ![p] = three]
    BY <1>2, Zenon DEF TunnelIO, TypeInv, one, two
  <2> HIDE DEF three
  <2>8. proc'[p] = three
    BY <2>7 DEF TypeInv
  <2> QED BY <1>1, <2>1, <2>2, <2>6, <2>7, <2>8, Zenon DEF Quiet, Others
<1>3. CASE TunnelDone(p)
  BY <1>1, <1>3, ReturnQuiet DEF TunnelDone, At
<1>4. CASE TunnelRestart(p)
  <2>1. proc[p].pc = "io" /\ p # Watcher /\ proc[p].pc # "idle"
    BY <1>4, NotTheWatcher DEF TunnelRestart, At
  <2>2. proc[p].new = 0 /\ proc[p].pc \notin Busy
    BY <2>1 DEF MuInv, Others, Busy, Dialling, Holding
  <2>3. Goto(p, "reconnect") /\ "reconnect" \in PCs
    BY <1>4 DEF TunnelRestart, PCs, Others
  <2> QED BY <1>1, <2>1, <2>2, <2>3, GotoFacts DEF Quiet, Others
<1> QED BY <1>2, <1>3, <1>4

(* The watcher's own steps. *)
LEMMA WatcherQuiet ==
  ASSUME ReconnectInv, WatcherSteps
  PROVE  Quiet(Watcher)
<1> USE DEF ReconnectInv
<1>1. /\ UNCHANGED <<s, dialled, reconnectMu, ended>> /\ Watcher \in Procs /\ Watcher # Helper
      /\ proc[Watcher].pc \in {"idle", "noErr", "waitHooks"}
  BY Constants DEF WatcherSteps, WatcherTick, WatcherIsClosed, WatcherHooked, sessionVars,
       lockVars, At
<1>2. proc[Watcher].new = 0 /\ proc[Watcher].pc \notin Busy /\ ~proc[Watcher].nested
  BY <1>1 DEF MuInv, WatcherInv, Others, Busy, Dialling, Holding
<1>3. CASE Resume(Watcher, "exited") \/ (Resume(Watcher, "idle") /\ proc[Watcher].pc = "noErr")
  <2>1. "exited" \in Others /\ "idle" \in Others
    BY DEF Others
  <2>2. proc[Watcher].pc = "noErr" => proc[Helper].pc = "idle"
    BY DEF WatcherInv
  <2>3. /\ proc' = [proc EXCEPT ![Watcher] = proc'[Watcher]] /\ proc'[Watcher] \in Process
        /\ proc'[Watcher].pc = "exited" \/ (proc'[Watcher].pc = "idle" /\ proc[Watcher].pc = "noErr")
        /\ proc'[Watcher].new = 0 /\ proc'[Watcher].nested = proc[Watcher].nested
    BY <1>1, <1>3, <2>1, ResumeFacts
  <2> QED BY <1>1, <1>2, <2>1, <2>2, <2>3 DEF Quiet
<1>4. CASE WatcherTick /\ ~Resume(Watcher, "exited")
  <2> DEFINE pc == IF closeErr[s] = "nil" THEN "noErr" ELSE "reconnect"
             one == [proc[Watcher] EXCEPT !.failed = s]
             two == [one EXCEPT !.pc = pc]
  <2>1. proc' = [proc EXCEPT ![Watcher] = two]
    BY <1>1, <1>4, Zenon DEF WatcherTick, TypeInv
  <2>2. proc[Watcher] \in Process /\ s \in 0 .. MaxSessions /\ pc \in {"noErr", "reconnect"}
    BY <1>1 DEF TypeInv, Sessions
  <2> HIDE DEF pc
  <2>3. pc \in Others /\ pc \in PCs
    BY <2>2 DEF PCs, Others
  <2>4. one \in Process /\ one.new = 0 /\ one.nested = proc[Watcher].nested
    BY <1>2, <2>2 DEF Process
  <2> HIDE DEF one
  <2>5. two \in Process /\ two.pc = pc /\ two.new = 0 /\ two.nested = one.nested
    BY <2>3, <2>4 DEF Process
  <2> HIDE DEF two
  <2>6. proc'[Watcher] = two
    BY <1>1, <2>1 DEF TypeInv
  <2>7. proc[Helper].pc = "idle"
    BY <1>4 DEF WatcherTick, At, WatcherInv
  <2> QED BY <1>1, <1>2, <2>1, <2>2, <2>3, <2>4, <2>5, <2>6, <2>7, Zenon DEF Quiet
<1>5. CASE WatcherHooked
  <2>1. \/ Goto(Watcher, "idle") /\ proc[Helper].pc = "idle"
        \/ Goto(Watcher, "exited")
    BY <1>5 DEF WatcherHooked, At
  <2>2. "exited" \in Others /\ "idle" \in Others /\ "exited" \in PCs /\ "idle" \in PCs
    BY DEF Others, PCs
  <2>3. /\ proc' = [proc EXCEPT ![Watcher] = proc'[Watcher]] /\ proc'[Watcher] \in Process
        /\ proc'[Watcher].pc = "exited" \/ (proc'[Watcher].pc = "idle" /\ proc[Helper].pc = "idle")
        /\ proc'[Watcher].new = 0 /\ proc'[Watcher].nested = proc[Watcher].nested
    BY <1>1, <1>2, <2>1, <2>2, GotoFacts
  <2> QED BY <1>1, <1>2, <2>2, <2>3 DEF Quiet
<1> QED BY <1>3, <1>4, <1>5 DEF WatcherSteps, WatcherTick, WatcherIsClosed, At

(* Hooks. *)
LEMMA HooksQuiet ==
  ASSUME ReconnectInv, NEW p \in Procs, Hooks(p)
  PROVE  Quiet(p)
<1> USE DEF ReconnectInv
<1>1. /\ UNCHANGED <<s, dialled, reconnectMu, ended>> /\ proc[p].pc \in {"fire", "hook"}
      /\ Hooked(p) \/ Resume(p, "hook")
  BY DEF Hooks, FireHooks, HooksReturn, sessionVars, At
<1>2. CASE Hooked(p)
  BY <1>1, <1>2, HookedQuiet
<1>3. CASE Resume(p, "hook")
  <2>1. "hook" \in Others /\ proc[p].pc \notin Busy /\ p # Watcher /\ proc[p].pc # "idle"
    BY <1>1, NotTheWatcher DEF Others, Busy, Dialling, Holding
  <2>2. /\ proc' = [proc EXCEPT ![p] = proc'[p]] /\ proc'[p] \in Process
        /\ proc'[p].pc = "hook" /\ proc'[p].new = 0
    BY <1>3, <2>1, ResumeFacts
  <2> QED BY <1>1, <2>1, <2>2 DEF Quiet
<1> QED BY <1>1, <1>2, <1>3

-----------------------------------------------------------------------------
(* The holder of reconnectMu *)

(* p takes reconnectMu, goes on with it or lets it go, and installs no     *)
(* session.                                                                *)
Holder(p) ==
  /\ proc' = [proc EXCEPT ![p] = proc'[p]] /\ proc'[p] \in Process
  /\ reconnectMu \in {None, p}
  /\ reconnectMu = None => ~closed
  /\ reconnectMu' = IF proc'[p].pc \in Busy THEN p ELSE None
  /\ UNCHANGED <<s, closed, closer>>
  /\ dialled' \in Sessions
  /\ dialled' = dialled \/ (dialled' = dialled + 1 /\ proc[p].pc \notin Holding
                            /\ proc'[p].pc \in Holding)
  /\ ended' \in [Sessions -> BOOLEAN] /\ \A i \in Sessions : ended[i] => ended'[i]
  /\ proc[p].pc \in Holding => ended'[dialled] \/ proc'[p].pc \in Holding
  /\ proc'[p].pc \in Busy \cup {"idle", "hook", "exited"}
  /\ proc'[p].pc \in Busy => ended'[s]
  /\ proc'[p].pc \in Holding => proc'[p].new = dialled' /\ s < dialled'
  /\ proc'[p].pc \notin Holding => proc'[p].new = 0
  /\ p = Helper => proc[p].pc # "idle"
  /\ p = Watcher => /\ proc'[p].pc \in Busy \cup {"idle", "exited"} /\ ~proc'[p].nested
                    /\ proc[p].pc \notin {"waitHooks", "exited"}

LEMMA HolderStep ==
  ASSUME ReconnectInv, NEW p \in Procs, Holder(p)
  PROVE  ReconnectInv'
<1> USE DEF ReconnectInv
<1>1. \A q \in Procs \ {p} : proc'[q] = proc[q]
  BY OthersStay DEF Holder
<1>2. TypeInv'
  <2>1. proc' \in [Procs -> Process]
    BY DEF Holder, TypeInv
  <2>2. s \in Int /\ dialled \in Int /\ dialled' \in Int
    BY Constants DEF TypeInv, Holder, Sessions
  <2> QED BY <2>1, <2>2 DEF Holder, TypeInv
<1>3. MuInv'
  <2>1. \A q \in Procs \ {p} : reconnectMu # q /\ reconnectMu' # q /\ proc[q].pc \notin Busy
    BY Constants DEF Holder, MuInv
  <2>2. ASSUME NEW q \in Procs \ {p}
        PROVE  /\ proc'[q].pc \notin Busy /\ proc'[q].pc \notin Holding /\ reconnectMu' # q
               /\ proc'[q].pc = "fire" => proc'[q].new \in 1 .. s
               /\ proc'[q].pc \in Dialling \cup Others => proc'[q].new = 0
    BY <1>1, <2>1 DEF MuInv, Busy
  <2>3. /\ proc'[p].pc \in Busy <=> reconnectMu' = p
        /\ proc'[p].pc # "fire"
        /\ proc'[p].pc \in Dialling \cup Others => proc'[p].pc \notin Holding
    BY Constants DEF Holder, Busy, Dialling, Holding, Others
  <2>4. s' = s
    BY DEF Holder
  <2> QED BY <2>2, <2>3, <2>4 DEF Holder, MuInv
<1>4. WatcherInv'
  BY <1>1, Constants DEF Holder, WatcherInv
<1>5. CloserInv'
  BY Constants DEF Holder, CloserInv
<1> QED BY <1>2, <1>3, <1>4, <1>5

(* reconnectInstall begins: it may return at once. *)
LEMMA BeginHolder ==
  ASSUME ReconnectInv, NEW p \in Procs, BeginReconnect(p)
  PROVE  (Quiet(p) /\ UNCHANGED <<closed, closer>>) \/ Holder(p)
<1> USE DEF ReconnectInv
<1>1. /\ proc[p].pc = "reconnect" /\ reconnectMu = None
      /\ UNCHANGED <<s, dialled, closed, closer>>
  BY DEF BeginReconnect, At
<1>2. CASE (\E err : Return(p, err)) /\ UNCHANGED <<reconnectMu, ended>>
  <2>1. PICK err : Return(p, err)
    BY <1>2
  <2> QED BY <1>1, <1>2, <2>1, ReturnQuiet
<1>3. CASE /\ ~closed /\ ~AlreadyReplaced(p) /\ reconnectMu' = p
           /\ ended' = [ended EXCEPT ![proc[p].failed] = TRUE]
           /\ proc' = [proc EXCEPT ![p].pc = "dial", ![p].attempt = 1]
  <2> DEFINE one == [proc[p] EXCEPT !.pc = "dial"]
             two == [one EXCEPT !.attempt = 1]
  <2>1. proc[p] \in Process /\ "dial" \in PCs /\ proc[p].new = 0
    BY <1>1 DEF TypeInv, MuInv, PCs, Busy, Dialling, Others
  <2>2. one \in Process /\ one.pc = "dial" /\ one.new = 0 /\ one.nested = proc[p].nested
    BY <2>1 DEF Process
  <2> HIDE DEF one
  <2>3. two \in Process /\ two.pc = "dial" /\ two.new = 0 /\ two.nested = proc[p].nested
    BY <2>2 DEF Process
  <2>4. proc' = [proc EXCEPT ![p] = two]
    BY <1>3, Zenon DEF TypeInv, one
  <2> HIDE DEF two
  <2>5. proc'[p] = two
    BY <2>4 DEF TypeInv
  <2>6. ended' = [ended EXCEPT ![s] = TRUE] /\ s \in Sessions
    BY <1>3, Zenon DEF AlreadyReplaced, TypeInv
  <2>7. /\ ended' \in [Sessions -> BOOLEAN] /\ ended'[s]
        /\ \A i \in Sessions : ended[i] => ended'[i]
    BY <2>6 DEF TypeInv
  <2>8. p = Watcher => ~two.nested
    BY <2>3 DEF WatcherInv
  <2>9. dialled' \in Sessions /\ dialled' = dialled
    BY <1>1, Constants DEF TypeInv
  <2>10. two.pc \in Busy /\ two.pc \notin Holding /\ proc[p].pc \notin Holding
    BY <1>1, <2>3 DEF Busy, Dialling, Holding
  <2> QED BY <1>1, <1>3, <2>3, <2>4, <2>5, <2>7, <2>8, <2>9, <2>10, Zenon DEF Holder
<1> QED BY <1>1, <1>2, <1>3 DEF BeginReconnect, lockVars

(* The dialling loop. *)
LEMMA DiallingHolder ==
  ASSUME ReconnectInv, NEW p \in Procs, DialFails(p) \/ BackoffOver(p) \/ DialSucceeds(p) \/ Keep(p)
  PROVE  Holder(p)
<1> USE DEF ReconnectInv
<1>1. /\ proc[p].pc \in Busy /\ reconnectMu = p /\ ended[s] /\ p # None
      /\ UNCHANGED <<s, reconnectMu, ended, closed, closer>>
  BY Constants DEF DialFails, BackoffOver, DialSucceeds, Keep, At, MuInv, Busy, Dialling, Holding,
       sessionVars, lockVars
<1>2. /\ p = Watcher => ~proc[p].nested
      /\ proc[p].pc \notin {"waitHooks", "exited", "idle"}
  BY <1>1 DEF WatcherInv, Busy, Dialling, Holding
<1>3. s \in 1 .. MaxSessions /\ dialled \in 1 .. MaxSessions /\ s <= dialled /\ proc[p] \in Process
  BY DEF TypeInv, Sessions
<1>4. SUFFICES /\ proc' = [proc EXCEPT ![p] = proc'[p]] /\ proc'[p] \in Process
               /\ proc'[p].pc \in Busy /\ dialled' \in Sessions
               /\ \/ dialled' = dialled /\ (proc[p].pc \in Holding => proc'[p].pc \in Holding)
                  \/ /\ dialled' = dialled + 1 /\ proc[p].pc \notin Holding
                     /\ proc'[p].pc \in Holding
               /\ proc'[p].nested = proc[p].nested
               /\ proc'[p].pc \in Holding => proc'[p].new = dialled' /\ s < dialled'
               /\ proc'[p].pc \notin Holding => proc'[p].new = 0
  BY <1>1, <1>2, <1>3 DEF Holder, TypeInv
<1>5. /\ "backoff" \in PCs /\ "dial" \in PCs /\ "dialled" \in PCs /\ "install" \in PCs
      /\ "backoff" \in Busy \ Holding /\ "dial" \in Busy \ Holding
      /\ "dialled" \in Holding /\ "install" \in Holding
      /\ Holding \subseteq Busy
  BY DEF PCs, Busy, Dialling, Holding
<1>6. dialled' = dialled => dialled' \in Sessions
  BY <1>3 DEF Sessions
<1>7. CASE DialFails(p)
  <2> DEFINE n == IF ReconnectMaxAttempts = 0 THEN proc[p].attempt ELSE proc[p].attempt + 1
             one == [proc[p] EXCEPT !.pc = "backoff"]
             two == [one EXCEPT !.attempt = n]
  <2>1. n \in Nat
    BY <1>3 DEF Process
  <2>2. proc' = [proc EXCEPT ![p] = two] /\ dialled' = dialled
    BY <1>7, Zenon DEF DialFails, TypeInv, sessionVars
  <2> HIDE DEF n
  <2>3. proc[p].new = 0 /\ proc[p].pc = "dial"
    BY <1>7 DEF DialFails, MuInv, At, Dialling
  <2>4. one \in Process /\ one.pc = "backoff" /\ one.new = 0 /\ one.nested = proc[p].nested
    BY <1>3, <1>5, <2>3 DEF Process
  <2> HIDE DEF one
  <2>5. two \in Process /\ two.pc = "backoff" /\ two.new = 0 /\ two.nested = proc[p].nested
    BY <2>1, <2>4 DEF Process
  <2> HIDE DEF two
  <2>6. proc'[p] = two
    BY <2>2 DEF TypeInv
  <2> QED BY <1>5, <1>6, <2>2, <2>3, <2>5, <2>6, Zenon
<1>8. CASE BackoffOver(p)
  <2>1. Goto(p, "dial") /\ proc[p].new = 0 /\ dialled' = dialled /\ proc[p].pc = "backoff"
    BY <1>8 DEF BackoffOver, MuInv, At, Dialling, sessionVars
  <2> QED BY <1>5, <1>6, <2>1, GotoFacts
<1>9. CASE DialSucceeds(p)
  <2> DEFINE one == [proc[p] EXCEPT !.pc = "dialled"]
             two == [one EXCEPT !.new = dialled']
  <2>1. /\ proc' = [proc EXCEPT ![p] = two] /\ dialled' = dialled + 1 /\ dialled < MaxSessions
        /\ proc[p].pc = "dial"
    BY <1>9, Zenon DEF DialSucceeds, TypeInv, At
  <2>2. dialled' \in Sessions /\ dialled' \in 0 .. MaxSessions /\ s < dialled'
    BY <1>3, <2>1, Constants DEF Sessions
  <2>3. one \in Process /\ one.nested = proc[p].nested /\ one.pc = "dialled"
    BY <1>3, <1>5 DEF Process
  <2> HIDE DEF one
  <2>4. two \in Process /\ two.pc = "dialled" /\ two.new = dialled' /\ two.nested = proc[p].nested
    BY <2>2, <2>3 DEF Process
  <2> HIDE DEF two
  <2>5. proc'[p] = two
    BY <2>1 DEF TypeInv
  <2> QED BY <1>5, <2>1, <2>2, <2>4, <2>5, Zenon
<1>10. CASE Keep(p)
  <2>1. Goto(p, "install") /\ proc[p].new = dialled /\ s < dialled /\ dialled' = dialled
    BY <1>10 DEF Keep, MuInv, At, Holding, sessionVars
  <2> QED BY <1>5, <1>6, <2>1, GotoFacts
<1> QED BY <1>7, <1>8, <1>9, <1>10

(* The loop is left without a session to install. *)
LEMMA LeavingHolder ==
  ASSUME ReconnectInv, NEW p \in Procs, Discard(p) \/ \E err : GiveUpDialling(p, err)
  PROVE  Holder(p)
<1> USE DEF ReconnectInv
<1>1. /\ proc[p].pc \in Busy /\ reconnectMu = p /\ p # None /\ reconnectMu' = None
      /\ UNCHANGED <<s, dialled, closed, closer>>
      /\ \E err : Return(p, err)
  <2>1. CASE Discard(p)
    BY <2>1, Constants DEF Discard, At, MuInv, Busy, Holding, sessionVars
  <2>2. CASE \E err : GiveUpDialling(p, err)
    BY <2>2, Constants DEF GiveUpDialling, At, MuInv, Busy, Dialling, sessionVars
  <2> QED BY <2>1, <2>2
<1>2. PICK err : Return(p, err)
  BY <1>1
<1>3. proc[p].pc \notin {"waitHooks", "exited", "idle"}
  BY <1>1 DEF Busy, Dialling, Holding
<1>4. ended' \in [Sessions -> BOOLEAN] /\ \A i \in Sessions : ended[i] => ended'[i]
  BY Zenon DEF Discard, GiveUpDialling, TypeInv, sessionVars
<1>5. /\ dialled' \in Sessions /\ dialled' = dialled
      /\ proc[p].pc \in Holding => ended'[dialled]
  <2>1. proc[p].pc \in Holding => Discard(p)
    BY DEF GiveUpDialling, At, Holding
  <2>2. proc[p].pc \in Holding => proc[p].new = dialled
    BY DEF MuInv
  <2> QED BY <1>1, <2>1, <2>2 DEF TypeInv, Discard
<1>6. /\ proc' = [proc EXCEPT ![p] = proc'[p]] /\ proc'[p] \in Process
      /\ proc'[p].pc \in {"idle", "hook", "exited"} /\ proc'[p].new = 0
      /\ ~proc'[p].nested
      /\ p = Watcher => proc'[p].pc \in {"idle", "exited"}
  BY <1>2, ReturnFacts
<1>7. proc'[p].pc \notin Busy /\ proc'[p].pc \notin Holding
  BY <1>6 DEF Busy, Dialling, Holding
<1> QED BY <1>1, <1>3, <1>4, <1>5, <1>6, <1>7 DEF Holder

(* The process that fires the hooks of what p installs. *)
Firer(p) == IF p = Watcher THEN Helper ELSE p

(* p installs the session it has dialled, and lets reconnectMu go. *)
Installs(p) ==
  /\ reconnectMu = p /\ proc[p].pc = "install" /\ ended[s]
  /\ proc[p].new = dialled /\ s < dialled
  /\ s' = dialled /\ reconnectMu' = None
  /\ UNCHANGED <<dialled, ended, closed, closer>>
  /\ proc' \in [Procs -> Process]
  /\ proc[Firer(p)].pc \in {"idle", "install"}
  /\ proc'[Firer(p)].pc = "fire" /\ proc'[Firer(p)].new = dialled
  /\ p = Watcher => /\ proc'[p].pc = "waitHooks" /\ proc'[p].new = 0 /\ ~proc'[p].nested
  /\ \A q \in Procs \ {p, Firer(p)} : proc'[q] = proc[q]

LEMMA InstallFacts ==
  ASSUME ReconnectInv, NEW p \in Procs, Install(p)
  PROVE  Installs(p)
<1> USE DEF ReconnectInv
<1>1. /\ reconnectMu = p /\ proc[p].pc = "install" /\ ended[s]
      /\ proc[p].new = dialled /\ s < dialled
      /\ s' = dialled /\ reconnectMu' = None
      /\ UNCHANGED <<dialled, ended, closed, closer>>
  BY DEF Install, Installed, At, MuInv, Busy, Holding
<1>2. dialled \in 0 .. MaxSessions /\ proc[p] \in Process /\ "fire" \in PCs /\ "waitHooks" \in PCs
  BY Constants DEF TypeInv, Sessions, PCs, Others
<1>3. CASE p = Watcher
  <2> DEFINE w == [Idle EXCEPT !.pc = "waitHooks"]
             one == [Idle EXCEPT !.pc = "fire"]
             h == [one EXCEPT !.new = dialled]
  <2>1. w \in Process /\ w.pc = "waitHooks" /\ w.new = 0 /\ ~w.nested
    BY <1>2, IdleFacts DEF Process
  <2>2. one \in Process /\ one.pc = "fire"
    BY <1>2, IdleFacts DEF Process
  <2> HIDE DEF one
  <2>3. h \in Process /\ h.pc = "fire" /\ h.new = dialled
    BY <1>2, <2>2 DEF Process
  <2>4. proc' = [proc EXCEPT ![Watcher] = w, ![Helper] = h]
    BY <1>1, <1>3 DEF Install, Installed, one
  <2> HIDE DEF w, h
  <2>5. /\ proc' \in [Procs -> Process] /\ proc'[Watcher] = w /\ proc'[Helper] = h
        /\ \A q \in Procs \ {Watcher, Helper} : proc'[q] = proc[q]
    BY <2>1, <2>3, <2>4, Constants DEF TypeInv
  <2>6. proc[Helper].pc = "idle"
    BY <1>1, <1>3 DEF WatcherInv
  <2> QED BY <1>1, <1>3, <2>1, <2>3, <2>5, <2>6 DEF Installs, Firer
<1>4. CASE p # Watcher
  <2> DEFINE one == [proc[p] EXCEPT !.pc = "fire"]
             two == [one EXCEPT !.failed = 0]
             three == [two EXCEPT !.attempt = 0]
  <2>1. proc' = [proc EXCEPT ![p] = three]
    BY <1>4, Zenon DEF Install, Installed, TypeInv
  <2>2. one \in Process /\ one.pc = "fire" /\ one.new = dialled
    BY <1>1, <1>2 DEF Process
  <2> HIDE DEF one
  <2>3. two \in Process /\ two.pc = "fire" /\ two.new = dialled
    BY <2>2, Constants DEF Process
  <2> HIDE DEF two
  <2>4. three \in Process /\ three.pc = "fire" /\ three.new = dialled
    BY <2>3 DEF Process
  <2> HIDE DEF three
  <2>5. /\ proc' \in [Procs -> Process] /\ proc'[p] = three
        /\ \A q \in Procs \ {p} : proc'[q] = proc[q]
    BY <2>1, <2>4 DEF TypeInv
  <2> QED BY <1>1, <1>4, <2>4, <2>5 DEF Installs, Firer
<1> QED BY <1>3, <1>4

LEMMA InstallsStep ==
  ASSUME ReconnectInv, NEW p \in Procs, Installs(p)
  PROVE  ReconnectInv'
<1> USE DEF ReconnectInv
<1>1. s \in Int /\ dialled \in Sessions /\ dialled \in Int /\ 1 <= dialled
  BY Constants DEF TypeInv, Sessions
<1>2. TypeInv'
  BY <1>1 DEF Installs, TypeInv
<1>3. MuInv'
  <2> SUFFICES ASSUME NEW q \in Procs
               PROVE  /\ proc'[q].pc \notin Busy /\ proc'[q].pc \notin Holding
                      /\ proc'[q].pc = "fire" => proc'[q].new \in 1 .. dialled
                      /\ proc'[q].pc \in Dialling \cup Others => proc'[q].new = 0
    BY Constants DEF Installs, MuInv
  <2>1. CASE q = Firer(p)
    BY <1>1, <2>1 DEF Installs, Busy, Dialling, Holding, Others
  <2>2. CASE q # Firer(p) /\ q = p
    BY <2>2 DEF Installs, Firer, Busy, Dialling, Holding
  <2>3. CASE q # Firer(p) /\ q # p
    <3>1. proc'[q] = proc[q] /\ proc[q].pc \notin Busy
      BY <2>3 DEF Installs, MuInv
    <3>2. proc[q].pc = "fire" => proc[q].new \in 1 .. dialled
      BY <1>1 DEF Installs, MuInv
    <3> QED BY <3>1, <3>2 DEF MuInv, Busy
  <2> QED BY <2>1, <2>2, <2>3
<1>4. WatcherInv'
  <2>1. CASE p = Watcher
    BY <2>1 DEF Installs, WatcherInv
  <2>2. CASE p = Helper
    <3>1. proc[Watcher].pc \in {"waitHooks", "exited"} /\ proc'[Watcher] = proc[Watcher]
      BY <2>2, Constants DEF Installs, WatcherInv, Firer
    <3> QED BY <3>1 DEF WatcherInv
  <2>3. CASE p \notin {Watcher, Helper}
    BY <2>3, Constants DEF Installs, WatcherInv, Firer
  <2> QED BY <2>1, <2>2, <2>3
<1>5. CloserInv'
  BY Constants DEF Installs, CloserInv
<1> QED BY <1>2, <1>3, <1>4, <1>5

-----------------------------------------------------------------------------
(* The other steps *)

(* Sessions end; handlers come and go. *)
LEMMA EndsStep ==
  ASSUME ReconnectInv, UNCHANGED <<s, dialled, reconnectMu, proc, closed, closer>>,
         ended' \in [Sessions -> BOOLEAN], \A i \in Sessions : ended[i] => ended'[i]
  PROVE  ReconnectInv'
<1> USE DEF ReconnectInv
<1>1. TypeInv'
  BY DEF TypeInv
<1>2. MuInv'
  BY DEF MuInv, TypeInv
<1>3. WatcherInv' /\ CloserInv'
  BY DEF WatcherInv, CloserInv
<1> QED BY <1>1, <1>2, <1>3

LEMMA CloseStep ==
  ASSUME ReconnectInv, NEW by \in Procs \cup {None}, Close(by)
  PROVE  ReconnectInv' /\ (by # None => Quiet(by)) /\ (by = None => UNCHANGED proc)
<1> USE DEF ReconnectInv
<1>1. /\ UNCHANGED <<s, dialled, reconnectMu, ended>>
      /\ closed' = TRUE /\ closer' = [pc |-> "lock", s |-> 0]
  BY DEF Close, sessionVars, lockVars
<1>2. CloserInv'
  BY <1>1, Constants DEF CloserInv
<1>3. CASE by = None
  <2>1. UNCHANGED proc
    BY <1>3 DEF Close
  <2> QED BY <1>1, <1>2, <1>3, <2>1 DEF TypeInv, MuInv, WatcherInv
<1>4. CASE by # None
  <2>1. by \in Procs /\ proc[by].pc = "hook" /\ Goto(by, "closing")
    BY <1>4 DEF Close, At
  <2>2. "closing" \in PCs /\ "closing" \in Others /\ by # Watcher /\ proc[by].pc \notin Busy
    BY <2>1, NotTheWatcher DEF PCs, Others, Busy, Dialling, Holding
  <2>3. proc[by].new = 0
    BY <2>1 DEF MuInv, Others
  <2>4. Quiet(by)
    BY <1>1, <2>1, <2>2, <2>3, GotoFacts DEF Quiet
  <2> QED BY <1>2, <1>4, <2>1, <2>4, QuietStep
<1> QED BY <1>3, <1>4

LEMMA CloseStepsStep ==
  ASSUME ReconnectInv, CloseSteps
  PROVE  ReconnectInv'
<1> USE DEF ReconnectInv
<1>1. CASE CloseLock
  <2>1. UNCHANGED <<s, dialled, reconnectMu, ended, proc, closed>> /\ reconnectMu = None
        /\ closer.pc = "lock" /\ closer' = [pc |-> "session", s |-> s]
    BY <1>1 DEF CloseLock, sessionVars, lockVars
  <2>2. s \in 0 .. MaxSessions
    BY DEF TypeInv, Sessions
  <2>3. CloserInv'
    BY <2>1, <2>2 DEF CloserInv
  <2> QED BY <2>1, <2>3 DEF TypeInv, MuInv, WatcherInv
<1>2. CASE CloseSession
  <2>1. /\ UNCHANGED <<s, dialled, reconnectMu, proc, closed>>
        /\ closer.pc = "session" /\ closer' = [pc |-> "wait", s |-> 0]
        /\ ended' = [ended EXCEPT ![closer.s] = TRUE]
    BY <1>2 DEF CloseSession, lockVars
  <2>2. CloserInv'
    BY <2>1, Constants DEF CloserInv
  <2>3. ended' \in [Sessions -> BOOLEAN] /\ \A i \in Sessions : ended[i] => ended'[i]
    BY <2>1, Zenon DEF TypeInv
  <2>4. MuInv'
    BY <2>1, <2>3 DEF TypeInv, MuInv
  <2> QED BY <2>1, <2>2, <2>3, <2>4 DEF TypeInv, WatcherInv
<1>3. CASE CloseReturn
  <2>1. /\ UNCHANGED <<s, dialled, reconnectMu, ended, closed>>
        /\ closer.pc = "wait" /\ closer' = [closer EXCEPT !.pc = "done"]
        /\ proc' = [p \in Procs |-> IF At(p, "closing") THEN [proc[p] EXCEPT !.pc = "hook"]
                               ELSE proc[p]]
    BY <1>3 DEF CloseReturn, sessionVars, lockVars
  <2>2. CloserInv'
    BY <2>1 DEF CloserInv
  <2>3. ASSUME NEW p \in Procs
        PROVE  /\ proc'[p] \in Process /\ proc'[p].new = proc[p].new
               /\ proc'[p].nested = proc[p].nested
               /\ \/ proc'[p] = proc[p]
                  \/ proc[p].pc = "closing" /\ proc'[p].pc = "hook" /\ p # Watcher
    <3>1. CASE At(p, "closing")
      <4>1. proc'[p] = [proc[p] EXCEPT !.pc = "hook"] /\ proc[p].pc = "closing"
        BY <2>1, <3>1 DEF At
      <4>2. "hook" \in PCs /\ proc[p] \in Process /\ p # Watcher
        BY <4>1, NotTheWatcher DEF PCs, Others, TypeInv
      <4> QED BY <4>1, <4>2 DEF Process
    <3>2. CASE ~At(p, "closing")
      BY <2>1, <3>2 DEF TypeInv
    <3> QED BY <3>1, <3>2
  <2>4. TypeInv'
    BY <2>1, <2>3 DEF TypeInv
  <2>5. MuInv'
    <3>1. "closing" \in Others /\ "hook" \in Others
      BY DEF Others
    <3>2. \A pc \in Others : pc \notin Busy /\ pc \notin Holding /\ pc # "fire"
      BY DEF Others, Busy, Dialling, Holding
    <3>3. ASSUME NEW p \in Procs
          PROVE  /\ proc'[p].pc \in Busy <=> proc[p].pc \in Busy
                 /\ proc'[p].pc \in Holding <=> proc[p].pc \in Holding
                 /\ proc'[p].pc = "fire" <=> proc[p].pc = "fire"
                 /\ proc'[p].pc \in Dialling \cup Others <=> proc[p].pc \in Dialling \cup Others
      BY <2>3, <3>1, <3>2
    <3> QED BY <2>1, <2>3, <3>3 DEF MuInv
  <2>6. WatcherInv'
    BY <2>3, Constants DEF WatcherInv
  <2> QED BY <2>2, <2>4, <2>5, <2>6
<1> QED BY <1>1, <1>2, <1>3 DEF CloseSteps

-----------------------------------------------------------------------------
(* Every step is of one of these kinds. *)

Ends ==
  /\ UNCHANGED <<s, dialled, reconnectMu, proc, closed, closer, fired>>
  /\ ended' \in [Sessions -> BOOLEAN] /\ \A i \in Sessions : ended[i] => ended'[i]

Moves(p) ==
  /\ Quiet(p)
  /\ UNCHANGED <<closed, closer>> \/ closer'.pc = "lock"
  /\ \/ UNCHANGED fired
     \/ proc[p].pc = "fire" /\ proc[p].new = s /\ fired' = Append(fired, s)

CloseKind ==
  \/ CloseSteps
  \/ Close(None)

LEMMA NextKinds ==
  ASSUME ReconnectInv, [Next]_vars
  PROVE  /\ ReconnectInv'
         /\ \/ Ends \/ CloseKind
            \/ \E p \in Procs : Moves(p) \/ (Holder(p) /\ UNCHANGED fired)
                                \/ (Installs(p) /\ UNCHANGED fired)
<1>1. CASE UNCHANGED vars
  <2>1. Ends
    BY <1>1 DEF Ends, vars, sessionVars, lockVars, ReconnectInv, TypeInv
  <2> QED BY <2>1, EndsStep DEF Ends
<1>2. ASSUME NEW i \in Sessions,
             SessionEnds(i) \/ \E err \in {"restart", "data-activity stuck", "fatal"} : SessionFails(i, err)
      PROVE  Ends
  BY <1>2, Zenon DEF Ends, SessionEnds, SessionFails, ReconnectInv, TypeInv, lockVars
<1>3. ASSUME NEW h \in Handlers,
             \/ \E value \in {h, None} : SetIngressHandler(h, value)
             \/ LoadSession(h) \/ Attach(h) \/ Detach(h)
      PROVE  Ends
  BY <1>3 DEF Ends, SetIngressHandler, LoadSession, Attach, Detach, ReconnectInv, TypeInv,
       lockVars, sessionVars
<1>4. ASSUME NEW p \in Procs, TunnelIO(p) \/ TunnelDone(p) \/ TunnelRestart(p)
      PROVE  Moves(p) /\ UNCHANGED <<closed, closer>>
  <2>1. UNCHANGED <<closed, closer, fired>>
    BY <1>4 DEF TunnelIO, TunnelDone, TunnelRestart
  <2> QED BY <1>4, <2>1, TunnelQuiet DEF Moves
<1>5. ASSUME NEW p \in Procs, Hooks(p)
      PROVE  Moves(p) /\ UNCHANGED <<closed, closer>>
  <2>1. UNCHANGED <<closed, closer>>
    BY <1>5 DEF Hooks, FireHooks, HooksReturn
  <2>2. \/ UNCHANGED fired
        \/ proc[p].pc = "fire" /\ proc[p].new = s /\ fired' = Append(fired, s)
    BY <1>5 DEF Hooks, FireHooks, HooksReturn, At
  <2> QED BY <1>5, <2>1, <2>2, HooksQuiet DEF Moves
<1>6. ASSUME WatcherSteps
      PROVE  Moves(Watcher) /\ UNCHANGED <<closed, closer>>
  <2>1. UNCHANGED <<closed, closer, fired>>
    BY <1>6 DEF WatcherSteps, WatcherTick, WatcherIsClosed, WatcherHooked
  <2> QED BY <1>6, <2>1, WatcherQuiet DEF Moves
<1>7. ASSUME NEW p \in Procs, Reconnects(p)
      PROVE  \/ Moves(p) /\ UNCHANGED <<closed, closer>>
             \/ Holder(p) /\ UNCHANGED fired
             \/ Installs(p) /\ UNCHANGED fired
  <2>1. CASE BeginReconnect(p)
    <3>1. UNCHANGED fired
      BY <2>1 DEF BeginReconnect
    <3> QED BY <2>1, <3>1, BeginHolder DEF Moves
  <2>2. CASE DialFails(p) \/ BackoffOver(p) \/ DialSucceeds(p) \/ Keep(p)
    <3>1. UNCHANGED fired
      BY <2>2 DEF DialFails, BackoffOver, DialSucceeds, Keep
    <3> QED BY <2>2, <3>1, DiallingHolder
  <2>3. CASE Discard(p) \/ \E err : GiveUpDialling(p, err)
    <3>1. UNCHANGED fired
      BY <2>3 DEF Discard, GiveUpDialling
    <3> QED BY <2>3, <3>1, LeavingHolder
  <2>4. CASE Install(p)
    <3>1. UNCHANGED fired
      BY <2>4 DEF Install, Installed
    <3> QED BY <2>4, <3>1, InstallFacts
  <2> QED BY <1>7, <2>1, <2>2, <2>3, <2>4 DEF Reconnects
<1>8. ASSUME NEW by \in Procs, Close(by)
      PROVE  Moves(by)
  <2>1. by # None /\ UNCHANGED fired /\ closer'.pc = "lock"
    BY <1>8, Constants DEF Close
  <2> QED BY <1>8, <2>1, CloseStep DEF Moves
<1>9. ASSUME NEW p \in Procs, Moves(p) /\ UNCHANGED <<closed, closer>>
      PROVE  ReconnectInv'
  <2>1. CloserInv'
    BY <1>9 DEF Moves, Quiet, CloserInv, ReconnectInv
  <2> QED BY <1>9, <2>1, QuietStep DEF Moves, ReconnectInv
<1>10. CASE Ends
  BY <1>10, EndsStep DEF Ends
<1>11. CASE \E p \in Procs : Moves(p) /\ UNCHANGED <<closed, closer>>
  BY <1>9, <1>11
<1>12. CASE \E p \in Procs : Holder(p) /\ UNCHANGED fired
  BY <1>12, HolderStep
<1>13. CASE \E p \in Procs : Installs(p) /\ UNCHANGED fired
  BY <1>13, InstallsStep
<1>14. CASE \E by \in Procs \cup {None} : Close(by)
  BY <1>8, <1>14, CloseStep DEF CloseKind
<1>15. CASE CloseSteps
  BY <1>15, CloseStepsStep DEF CloseKind
<1> QED BY <1>1, <1>2, <1>3, <1>4, <1>5, <1>6, <1>7, <1>10, <1>11, <1>12, <1>13, <1>14, <1>15, Zenon,
          Constants DEF Next

LEMMA InitReconnect ==
  ASSUME Init
  PROVE  ReconnectInv
<1>1. \A p \in Procs : proc[p] = Idle
  BY DEF Init
<1>2. "idle" \notin Busy \cup Holding \cup {"fire"} /\ Watcher \in Procs /\ Helper \in Procs
      /\ reconnectMu = None /\ None \notin Procs
  BY Constants DEF Init, Busy, Dialling, Holding
<1>3. TypeInv
  BY <1>1, IdleFacts, Constants DEF Init, TypeInv, Sessions
<1>4. MuInv
  BY <1>1, <1>2, IdleFacts DEF MuInv
<1>5. WatcherInv
  BY <1>1, <1>2, IdleFacts DEF WatcherInv
<1>6. CloserInv
  <2>1. closed = FALSE
    BY DEF Init
  <2>2. closed \in BOOLEAN
    BY <2>1, Zenon
  <2>3. closer = [pc |-> "none", s |-> 0] /\ 0 \in 0 .. MaxSessions
    BY Constants DEF Init
  <2> QED BY <2>2, <2>3 DEF CloserInv
<1> QED BY <1>3, <1>4, <1>5, <1>6 DEF ReconnectInv

(* reconnectMu does what it is for: between BeginReconnect and Install     *)
(* there is one process, the session it replaces is closed, the one it has *)
(* dialled is the newest, and once Close has had the mutex nobody has it   *)
(* again.                                                                  *)
THEOREM ReconnectSafe == Spec => []ReconnectInv
<1>1. ReconnectInv /\ [Next]_vars => ReconnectInv'
  BY NextKinds
<1> QED BY <1>1, InitReconnect, PTL DEF Spec

-----------------------------------------------------------------------------
(* No orphan session *)

(* A session that is neither current nor in the hands of the holder of     *)
(* reconnectMu has ended, and Close leaves not even those.                 *)
LEMMA NoOrphanStep ==
  ASSUME ReconnectInv, NoOrphanSession, [Next]_vars
  PROVE  NoOrphanSession'
<1>1. ReconnectInv'
  BY NextKinds
<1>2. s \in 1 .. dialled /\ dialled \in 1 .. MaxSessions /\ 1 .. dialled \subseteq Sessions
  BY Constants DEF ReconnectInv, TypeInv, Sessions
<1>3. CASE Ends
  BY <1>2, <1>3 DEF Ends, NoOrphanSession
<1>4. ASSUME NEW p \in Procs, Moves(p)
      PROVE  NoOrphanSession'
  <2>1. \A q \in Procs : reconnectMu = q => q # p
    BY <1>4 DEF Moves, Quiet, ReconnectInv, MuInv
  <2>2. \A q \in Procs \ {p} : proc'[q] = proc[q]
    BY <1>4, OthersStay DEF Moves, Quiet, ReconnectInv
  <2>3. UNCHANGED <<s, dialled, reconnectMu, ended>>
    BY <1>4 DEF Moves, Quiet
  <2>4. closer'.pc \in {"wait", "done"} => closer.pc \in {"wait", "done"}
    BY <1>4 DEF Moves
  <2> QED BY <2>1, <2>2, <2>3, <2>4 DEF NoOrphanSession
<1>5. ASSUME NEW p \in Procs, Holder(p)
      PROVE  NoOrphanSession'
  <2> SUFFICES ASSUME NEW i \in 1 .. dialled', ~ended'[i]
               PROVE  closer.pc \notin {"wait", "done"}
                      /\ (i = s \/ (proc'[p].new = i /\ reconnectMu' = p))
    BY <1>5 DEF Holder, NoOrphanSession
  <2>1. CASE i \notin 1 .. dialled
    <3>1. dialled' = dialled + 1 /\ i = dialled' /\ proc'[p].pc \in Holding
      BY <1>2, <1>5, <2>1 DEF Holder
    <3>2. proc'[p].new = i /\ reconnectMu' = p
      BY <1>5, <3>1 DEF Holder, Busy
    <3>3. closer.pc \notin {"wait", "done"}
      BY <1>1, <1>5, <3>2, Constants DEF Holder, ReconnectInv, CloserInv
    <3> QED BY <3>2, <3>3
  <2>2. CASE i \in 1 .. dialled
    <3>1. ~ended[i] /\ i \in Sessions
      BY <1>2, <1>5, <2>2 DEF Holder
    <3>2. /\ closer.pc \notin {"wait", "done"}
          /\ i = s \/ \E q \in Procs : proc[q].new = i /\ reconnectMu = q
      BY <2>2, <3>1 DEF NoOrphanSession
    <3>3. CASE \E q \in Procs : proc[q].new = i /\ reconnectMu = q
      <4>1. proc[p].new = i /\ reconnectMu = p
        BY <1>5, <3>3, Constants DEF Holder
      <4>2. proc[p].pc \in Busy /\ i # 0
        BY <1>2, <2>2, <4>1 DEF ReconnectInv, MuInv
      <4>3. proc[p].pc \in Holding /\ i = dialled
        BY <4>1, <4>2 DEF ReconnectInv, MuInv, Busy
      <4>4. proc'[p].pc \in Holding /\ dialled' = dialled
        BY <1>5, <4>3 DEF Holder
      <4> QED BY <1>5, <3>2, <4>3, <4>4 DEF Holder, Busy
    <3> QED BY <3>2, <3>3
  <2> QED BY <2>1, <2>2
<1>6. ASSUME NEW p \in Procs, Installs(p)
      PROVE  NoOrphanSession'
  <2> SUFFICES ASSUME NEW i \in 1 .. dialled, ~ended[i]
               PROVE  closer.pc \notin {"wait", "done"} /\ i = dialled
    BY <1>6 DEF Installs, NoOrphanSession
  <2>1. /\ closer.pc \notin {"wait", "done"}
        /\ i = s \/ \E q \in Procs : proc[q].new = i /\ reconnectMu = q
    BY DEF NoOrphanSession
  <2> QED BY <1>6, <2>1 DEF Installs
<1>7. CASE CloseKind
  <2>1. CASE Close(None) \/ CloseLock
    <3>1. /\ UNCHANGED <<s, dialled, reconnectMu, ended, proc>>
          /\ closer'.pc \notin {"wait", "done"} /\ closer.pc \notin {"wait", "done"}
      BY <2>1 DEF Close, CloseLock, sessionVars, lockVars, ReconnectInv, CloserInv
    <3> QED BY <3>1 DEF NoOrphanSession
  <2>2. CASE CloseSession
    <3> SUFFICES ASSUME NEW i \in 1 .. dialled
                 PROVE  ended'[i]
      BY <2>2, Zenon DEF CloseSession, NoOrphanSession
    <3>1. /\ ended' = [ended EXCEPT ![s] = TRUE] /\ reconnectMu = None
      BY <2>2, Zenon DEF CloseSession, ReconnectInv, CloserInv
    <3>2. ended[i] \/ i = s
      BY <3>1, Constants DEF NoOrphanSession
    <3> QED BY <1>2, <3>1, <3>2 DEF ReconnectInv, TypeInv
  <2>3. CASE CloseReturn
    <3>1. UNCHANGED <<dialled, ended>> /\ closer.pc = "wait"
      BY <2>3 DEF CloseReturn, sessionVars
    <3> QED BY <3>1 DEF NoOrphanSession
  <2> QED BY <1>7, <2>1, <2>2, <2>3 DEF CloseKind, CloseSteps
<1> QED BY <1>3, <1>4, <1>5, <1>6, <1>7, NextKinds

(* "Cancels any in-flight AutoReconnect attempt so no orphan session is    *)
(* left behind" (openvpn.go:1379-1380), and no two sessions that carry the *)
(* tunnel before that, however many callers compete with the watcher to    *)
(* reconnect and whatever the hooks call.                                  *)
THEOREM NoOrphans == Spec => []NoOrphanSession
<1>1. Init => NoOrphanSession
  BY DEF Init, NoOrphanSession
<1>2. ReconnectInv /\ NoOrphanSession /\ [Next]_vars => NoOrphanSession'
  BY NoOrphanStep
<1> QED BY <1>1, <1>2, ReconnectSafe, PTL DEF Spec

-----------------------------------------------------------------------------
(* Hooks in order *)

LEMMA FireStep ==
  ASSUME ReconnectInv, FireInv, HooksInOrder, [Next]_vars
  PROVE  FireInv' /\ HooksInOrder'
<1>1. s \in 1 .. MaxSessions /\ dialled \in 1 .. MaxSessions /\ MaxSessions \in Nat
  BY Constants DEF ReconnectInv, TypeInv, Sessions
<1>2. /\ fired \in Seq(Nat) /\ Len(fired) \in Nat /\ \A j \in 1 .. Len(fired) : fired[j] \in Nat
  BY DEF FireInv
<1>3. ASSUME UNCHANGED fired, s' \in 1 .. MaxSessions, s <= s',
             \A p \in Procs : proc'[p].pc = "fire" => proc[p].pc = "fire" /\ proc'[p].new = proc[p].new
      PROVE  FireInv' /\ HooksInOrder'
  <2>1. \A j \in 1 .. Len(fired) : fired[j] <= s'
    BY <1>1, <1>2, <1>3 DEF FireInv
  <2> QED BY <1>3, <2>1 DEF FireInv, HooksInOrder
<1>4. CASE Ends
  BY <1>1, <1>3, <1>4 DEF Ends
<1>5. CASE CloseKind
  <2>1. UNCHANGED <<fired, s>>
    BY <1>5 DEF CloseKind, Close, CloseSteps, CloseLock, CloseSession, CloseReturn
  <2>2. \A p \in Procs : proc'[p].pc = "fire" => proc[p].pc = "fire" /\ proc'[p].new = proc[p].new
    <3>1. UNCHANGED proc \/ CloseReturn
      BY <1>5 DEF CloseKind, Close, CloseSteps, CloseLock, CloseSession
    <3>2. ASSUME CloseReturn, NEW p \in Procs, proc'[p].pc = "fire"
          PROVE  proc'[p] = proc[p]
      BY <3>2 DEF CloseReturn, ReconnectInv, TypeInv, Process
    <3> QED BY <3>1, <3>2
  <2> QED BY <1>1, <1>3, <2>1, <2>2
<1>6. ASSUME NEW p \in Procs, Holder(p), UNCHANGED fired
      PROVE  FireInv' /\ HooksInOrder'
  <2>1. \A q \in Procs \ {p} : proc'[q] = proc[q]
    BY <1>6, OthersStay DEF Holder, ReconnectInv
  <2>2. proc'[p].pc # "fire" /\ s' = s
    BY <1>6 DEF Holder, Busy, Dialling, Holding
  <2> QED BY <1>1, <1>3, <1>6, <2>1, <2>2
<1>7. ASSUME NEW p \in Procs, Installs(p), UNCHANGED fired
      PROVE  FireInv' /\ HooksInOrder'
  <2>1. /\ \A q \in Procs \ {Firer(p)} : proc'[q].pc = "fire" => proc'[q] = proc[q] /\ proc[q].pc = "fire"
        /\ proc'[Firer(p)].new = dialled
    BY <1>7 DEF Installs, Firer
  <2>2. s < dialled /\ s' = dialled
    BY <1>7 DEF Installs
  <2>3. \A j \in 1 .. Len(fired) : fired[j] <= s' /\ fired[j] # dialled
    BY <1>1, <1>2, <2>2 DEF FireInv
  <2>4. \A q \in Procs : proc[q].pc = "fire" => proc[q].new # dialled
    BY <1>1, <2>2 DEF ReconnectInv, MuInv
  <2>5. ASSUME NEW q \in Procs, proc'[q].pc = "fire"
        PROVE  \A j \in 1 .. Len(fired) : fired[j] # proc'[q].new
    BY <2>1, <2>3, <2>5 DEF FireInv
  <2>6. ASSUME NEW q \in Procs, NEW r \in Procs, proc'[q].pc = "fire", proc'[r].pc = "fire", q # r
        PROVE  proc'[q].new # proc'[r].new
    BY <2>1, <2>4, <2>6 DEF FireInv
  <2> QED BY <1>2, <1>7, <2>3, <2>5, <2>6 DEF FireInv, HooksInOrder
<1>8. ASSUME NEW p \in Procs, Moves(p)
      PROVE  FireInv' /\ HooksInOrder'
  <2>1. /\ \A q \in Procs \ {p} : proc'[q] = proc[q]
        /\ proc'[p].pc # "fire" /\ s' = s
    BY <1>8, OthersStay DEF Moves, Quiet, ReconnectInv, Others
  <2>2. CASE UNCHANGED fired
    BY <1>1, <1>3, <2>1, <2>2
  <2>3. CASE proc[p].pc = "fire" /\ proc[p].new = s /\ fired' = Append(fired, s)
    <3>1. /\ fired' \in Seq(Nat) /\ Len(fired') = Len(fired) + 1 /\ fired'[Len(fired) + 1] = s
          /\ \A j \in 1 .. Len(fired) : fired'[j] = fired[j]
      BY <1>1, <1>2, <2>3
    <3>2. \A j \in 1 .. Len(fired) : fired[j] < s
      BY <1>1, <1>2, <2>3 DEF FireInv
    <3>3. \A j \in 1 .. Len(fired') : j \in 1 .. Len(fired) \/ j = Len(fired) + 1
      BY <1>2, <3>1
    <3>4. \A j \in 1 .. Len(fired') : fired'[j] <= s
      BY <1>1, <1>2, <3>1, <3>2, <3>3
    <3>5. ASSUME NEW q \in Procs, proc'[q].pc = "fire"
          PROVE  \A j \in 1 .. Len(fired') : fired'[j] # proc'[q].new
      <4>1. q # p /\ proc[q].pc = "fire" /\ proc'[q].new = proc[q].new /\ proc[q].new # s
        BY <2>1, <2>3, <3>5 DEF FireInv
      <4> QED BY <3>1, <3>3, <4>1 DEF FireInv
    <3>6. FireInv'
      BY <2>1, <3>1, <3>4, <3>5 DEF FireInv
    <3>7. ASSUME NEW j \in 1 .. Len(fired'), NEW k \in 1 .. Len(fired'), j < k
          PROVE  fired'[j] < fired'[k]
      <4>1. j \in 1 .. Len(fired)
        BY <1>2, <3>1, <3>7
      <4> QED BY <3>1, <3>2, <3>3, <3>7, <4>1 DEF HooksInOrder
    <3> QED BY <3>6, <3>7 DEF HooksInOrder
  <2> QED BY <1>8, <2>2, <2>3 DEF Moves
<1> QED BY <1>4, <1>5, <1>6, <1>7, <1>8, NextKinds

(* OnReconnect hooks are given each session at most once, and in the order *)
(* the sessions were installed, though each runs on the goroutine of       *)
(* whoever reconnected (fireHooksFor).                                     *)
THEOREM HooksOrdered == Spec => []HooksInOrder
<1>1. Init => FireInv /\ HooksInOrder
  <2> SUFFICES ASSUME Init PROVE FireInv /\ HooksInOrder
    OBVIOUS
  <2>1. fired = <<>> /\ \A p \in Procs : proc[p].pc = "idle"
    BY IdleFacts DEF Init
  <2> QED BY <2>1 DEF FireInv, HooksInOrder
<1>2. ReconnectInv /\ FireInv /\ HooksInOrder /\ [Next]_vars => FireInv' /\ HooksInOrder'
  BY FireStep
<1> QED BY <1>1, <1>2, ReconnectSafe, PTL DEF Spec

-----------------------------------------------------------------------------
(* The handler follows the session *)

HandlerTypes ==
  /\ handler \in [Sessions -> Handlers \cup {None}]
  /\ ingressHandler \in Handlers \cup {None}
  /\ setter \in [Handlers -> [pc : {"idle", "load", "attach", "attached", "done"},
                              value : Handlers \cup {None}, s : 0 .. MaxSessions]]
  /\ \A h \in Handlers : setter[h].pc = "attach" => setter[h].s \in Sessions

(* Steps that leave handlers and the current session alone. *)
LEMMA HandlerKinds ==
  ASSUME [Next]_vars
  PROVE  \/ UNCHANGED <<s, handler, handlerVars>>
         \/ \E p \in Procs : Install(p)
         \/ \E h \in Handlers : \/ \E value \in {h, None} : SetIngressHandler(h, value)
                                \/ LoadSession(h) \/ Attach(h) \/ Detach(h)
<1>1. CASE UNCHANGED vars
  BY <1>1 DEF vars, sessionVars
<1>2. ASSUME NEW i \in Sessions,
             SessionEnds(i) \/ \E err \in {"restart", "data-activity stuck", "fatal"} : SessionFails(i, err)
      PROVE  UNCHANGED <<s, handler, handlerVars>>
  BY <1>2, Zenon DEF SessionEnds, SessionFails
<1>3. ASSUME NEW p \in Procs, TunnelIO(p) \/ TunnelDone(p) \/ TunnelRestart(p) \/ Hooks(p)
      PROVE  UNCHANGED <<s, handler, handlerVars>>
  BY <1>3 DEF TunnelIO, TunnelDone, TunnelRestart, Hooks, FireHooks, HooksReturn, sessionVars
<1>4. ASSUME NEW p \in Procs, Reconnects(p), ~Install(p)
      PROVE  UNCHANGED <<s, handler, handlerVars>>
  BY <1>4 DEF Reconnects, BeginReconnect, DialFails, BackoffOver, DialSucceeds, Discard, Keep,
       GiveUpDialling, sessionVars
<1>5. ASSUME WatcherSteps \/ CloseSteps \/ \E by \in Procs \cup {None} : Close(by)
      PROVE  UNCHANGED <<s, handler, handlerVars>>
  BY <1>5 DEF WatcherSteps, WatcherTick, WatcherIsClosed, WatcherHooked, CloseSteps, CloseLock,
       CloseSession, CloseReturn, Close, sessionVars
<1> QED BY <1>1, <1>2, <1>3, <1>4, <1>5, Zenon DEF Next

LEMMA HandlerStep ==
  ASSUME \A g, h \in Handlers : g = h,
         ReconnectInv, HandlerTypes, HandlerInv, [Next]_vars
  PROVE  HandlerTypes' /\ HandlerInv'
<1>1. s \in Sessions /\ s \in 0 .. MaxSessions
  BY DEF ReconnectInv, TypeInv, Sessions
<1>2. CASE UNCHANGED <<s, handler, handlerVars>>
  BY <1>2 DEF handlerVars, HandlerTypes, HandlerInv, HandlerFollows
<1>3. ASSUME NEW p \in Procs, Install(p)
      PROVE  HandlerTypes' /\ HandlerInv'
  <2>1. /\ s' = proc[p].new /\ handler' = [handler EXCEPT ![proc[p].new] = ingressHandler]
        /\ UNCHANGED <<ingressHandler, setter>>
    BY <1>3 DEF Install, Installed, handlerVars
  <2>2. proc[p].new \in Sessions
    BY <1>3, <2>1, NextKinds DEF ReconnectInv, TypeInv
  <2> QED BY <2>1, <2>2 DEF HandlerTypes, HandlerInv, HandlerFollows
<1>4. ASSUME NEW h \in Handlers,
             \/ \E value \in {h, None} : SetIngressHandler(h, value)
             \/ LoadSession(h) \/ Attach(h) \/ Detach(h)
      PROVE  HandlerTypes' /\ HandlerInv'
  <2> DEFINE Setter == [pc : {"idle", "load", "attach", "attached", "done"},
                        value : Handlers \cup {None}, s : 0 .. MaxSessions]
  <2>1. SUFFICES /\ setter' = [setter EXCEPT ![h] = setter'[h]] /\ setter'[h] \in Setter
                 /\ handler' \in [Sessions -> Handlers \cup {None}]
                 /\ ingressHandler' \in Handlers \cup {None}
                 /\ setter'[h].pc = "attach" => setter'[h].s \in Sessions
                 /\ setter'[h].pc \in {"load", "attach"} => setter'[h].value = ingressHandler'
                 /\ setter'[h].pc = "attach" => setter'[h].s = s
                 /\ setter'[h].pc \notin {"load", "attach"} => handler'[s] = ingressHandler'
    <3>1. s' = s
      BY <1>4 DEF SetIngressHandler, LoadSession, Attach, Detach
    <3>2. \A g \in Handlers : g = h
      OBVIOUS
    <3>3. setter' \in [Handlers -> Setter]
      BY <2>1 DEF HandlerTypes
    <3>4. HandlerTypes'
      BY <2>1, <3>2, <3>3 DEF HandlerTypes
    <3> QED BY <2>1, <3>1, <3>2, <3>4 DEF HandlerInv, HandlerFollows
  <2>2. setter[h] \in Setter
    BY DEF HandlerTypes
  <2>3. ASSUME NEW value \in {h, None}, SetIngressHandler(h, value)
        PROVE  /\ setter' = [setter EXCEPT ![h] = setter'[h]] /\ setter'[h] \in Setter
               /\ setter'[h].pc = "load" /\ setter'[h].value = value
               /\ UNCHANGED handler /\ ingressHandler' = value
    <3> DEFINE one == [setter[h] EXCEPT !.pc = "load"]
               two == [one EXCEPT !.value = value]
    <3>1. setter' = [setter EXCEPT ![h] = two]
      BY <2>3, Zenon DEF SetIngressHandler, HandlerTypes
    <3>2. one \in Setter /\ one.pc = "load"
      BY <2>2
    <3> HIDE DEF one
    <3>3. two \in Setter /\ two.pc = "load" /\ two.value = value
      BY <3>2
    <3> HIDE DEF two
    <3>4. setter'[h] = two
      BY <3>1 DEF HandlerTypes
    <3> QED BY <2>3, <3>1, <3>3, <3>4, Zenon DEF SetIngressHandler, sessionVars
  <2>4. CASE \E value \in {h, None} : SetIngressHandler(h, value)
    BY <2>3, <2>4 DEF HandlerTypes
  <2>5. CASE LoadSession(h)
    <3> DEFINE one == [setter[h] EXCEPT !.pc = "attach"]
               two == [one EXCEPT !.s = s]
    <3>1. /\ setter' = [setter EXCEPT ![h] = two] /\ UNCHANGED <<handler, ingressHandler>>
          /\ setter[h].pc = "load"
      BY <2>5, Zenon DEF LoadSession, HandlerTypes, sessionVars
    <3>2. one \in Setter /\ one.pc = "attach" /\ one.value = setter[h].value
      BY <2>2
    <3> HIDE DEF one
    <3>3. two \in Setter /\ two.pc = "attach" /\ two.value = setter[h].value /\ two.s = s
      BY <1>1, <3>2
    <3> HIDE DEF two
    <3>4. setter'[h] = two
      BY <3>1 DEF HandlerTypes
    <3> QED BY <1>1, <3>1, <3>3, <3>4 DEF HandlerTypes, HandlerInv
  <2>6. CASE Attach(h)
    <3> DEFINE pc == IF setter[h].value = h THEN "attached" ELSE "done"
               one == [setter[h] EXCEPT !.pc = pc]
               two == [one EXCEPT !.s = 0]
    <3>1. /\ setter' = [setter EXCEPT ![h] = two] /\ UNCHANGED ingressHandler
          /\ setter[h].pc = "attach"
          /\ handler' = [handler EXCEPT ![setter[h].s] = setter[h].value]
      BY <2>6, Zenon DEF Attach, HandlerTypes
    <3>2. pc \in {"attached", "done"}
      OBVIOUS
    <3> HIDE DEF pc
    <3>3. one \in Setter /\ one.pc = pc
      BY <2>2, <3>2
    <3> HIDE DEF one
    <3>4. two \in Setter /\ two.pc = pc
      BY <3>3, Constants
    <3> HIDE DEF two
    <3>5. setter'[h] = two
      BY <3>1 DEF HandlerTypes
    <3>6. /\ setter[h].s \in Sessions /\ setter[h].value = ingressHandler
          /\ setter[h].s = s \/ handler[s] = ingressHandler
      BY <3>1 DEF HandlerTypes, HandlerInv
    <3>7. handler'[s] = ingressHandler /\ handler' \in [Sessions -> Handlers \cup {None}]
      BY <1>1, <3>1, <3>6 DEF HandlerTypes
    <3> QED BY <3>1, <3>2, <3>4, <3>5, <3>7 DEF HandlerTypes
  <2>7. CASE Detach(h)
    <3> DEFINE pc == IF ingressHandler = h THEN "load" ELSE "done"
               one == [setter[h] EXCEPT !.pc = pc]
               two == [one EXCEPT !.value = None]
    <3>1. /\ setter' = [setter EXCEPT ![h] = two] /\ UNCHANGED handler
          /\ ingressHandler' = IF ingressHandler = h THEN None ELSE ingressHandler
          /\ setter[h].pc = "attached"
      BY <2>7, Zenon DEF Detach, HandlerTypes, sessionVars
    <3>2. pc \in {"load", "done"} /\ (pc = "load" <=> ingressHandler = h)
      OBVIOUS
    <3> HIDE DEF pc
    <3>3. one \in Setter /\ one.pc = pc
      BY <2>2, <3>2
    <3> HIDE DEF one
    <3>4. two \in Setter /\ two.pc = pc /\ two.value = None
      BY <3>3
    <3> HIDE DEF two
    <3>5. setter'[h] = two
      BY <3>1 DEF HandlerTypes
    <3>6. handler[s] = ingressHandler
      BY <3>1 DEF HandlerInv, HandlerFollows
    <3> QED BY <3>1, <3>2, <3>4, <3>5, <3>6 DEF HandlerTypes
  <2> QED BY <1>4, <2>4, <2>5, <2>6, <2>7, Zenon
<1> QED BY <1>2, <1>3, <1>4, HandlerKinds

(* With one consumer, which registers, detaches and clears its handler in  *)
(* turn ("Pick one consumer", openvpn.go:509), whatever session is current *)
(* delivers to what the client has registered, however many reconnects     *)
(* come between.  Consumers whose calls overlap can leave the session      *)
(* without the handler that is registered.                                 *)
THEOREM HandlerStays ==
  ASSUME \A g, h \in Handlers : g = h
  PROVE  Spec => []HandlerFollows
<1>1. Init => HandlerTypes /\ HandlerInv
  <2> SUFFICES ASSUME Init PROVE HandlerTypes /\ HandlerInv
    OBVIOUS
  <2>1. /\ \A h \in Handlers : setter[h].pc = "idle"
        /\ \A i \in Sessions : handler[i] = None
        /\ s \in Sessions /\ ingressHandler = None
    BY Constants DEF Init, Sessions
  <2>2. HandlerTypes
    BY <2>1, Constants DEF Init, HandlerTypes
  <2> QED BY <2>1, <2>2 DEF HandlerInv, HandlerFollows
<1>2. ReconnectInv /\ HandlerTypes /\ HandlerInv /\ [Next]_vars => HandlerTypes' /\ HandlerInv'
  BY HandlerStep
<1>3. HandlerInv => HandlerFollows
  BY DEF HandlerInv
<1> QED BY <1>1, <1>2, <1>3, ReconnectSafe, PTL DEF Spec

=============================================================================
