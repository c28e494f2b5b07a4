------------------------------- MODULE Socks5 -------------------------------
(***************************************************************************)
(* The SOCKS5 server of openvpn2socks: Serve and the handlers of its       *)
(* connections (cmd/openvpn2socks/socks5.go), CONNECT with its two copying *)
(* goroutines (socks5_tcp.go), and UDP ASSOCIATE with the relay manager,   *)
(* the goroutine that reads the client and one that reads each target      *)
(* (socks5_udp.go).                                                        *)
(*                                                                         *)
(* What a lookup, the rate limiter and a dial answer is left open here;    *)
(* the modules Resolver and ConnRate model the first two.  Payloads,       *)
(* addresses and reply codes are left out.                                 *)
(*                                                                         *)
(* A name that ends in an underscore and a word is a faulty variant of the *)
(* definition that follows it; no action uses one.                         *)
(***************************************************************************)
EXTENDS Integers, FiniteSets

CONSTANTS
  Conns,        (* connections of SOCKS clients                     *)
  Associator,   (* the one that may ask for UDP ASSOCIATE           *)
  Sources,      (* addresses that send to its UDP socket, authorise *)
                (* having passed their IP and port                  *)
  Keys,         (* destinations as the client names them            *)
  MaxRelays     (* bound: targets dialled in an association         *)

None == "none"
Relays == 1 .. MaxRelays

VARIABLES
  ctx, listener, serve,
  pc, conn,           (* of each handler; the client's end          *)
  remote, up, down,   (* CONNECT: the target, the copying goroutines *)
  udp, subCtx, pastDeadline,
  closed, relays, snapshot, client,     (* udpRelayMgr *)
  reader, key, fresh,                   (* pumpClientToTunnel *)
  target, relayKey, pump                (* each relay, pumpTunnelToClient *)

server == <<ctx, listener, serve>>
connect == <<remote, up, down>>
manager == <<udp, subCtx, pastDeadline, closed, relays, snapshot, client>>
flows == <<reader, key, fresh, target, relayKey, pump>>
vars == <<server, pc, conn, connect, manager, flows>>

Init ==
  /\ ctx = "live" /\ listener = "open" /\ serve = "accept"
  /\ pc = [h \in Conns |-> "none"] /\ conn = [h \in Conns |-> "none"]
  /\ remote = [h \in Conns |-> "none"]
  /\ up = [h \in Conns |-> FALSE] /\ down = [h \in Conns |-> FALSE]
  /\ udp = "none" /\ subCtx = "live" /\ pastDeadline = FALSE
  /\ closed = FALSE /\ relays = [k \in Keys |-> 0] /\ snapshot = {} /\ client = None
  /\ reader = "off" /\ key = None /\ fresh = 0
  /\ target = [r \in Relays |-> "none"] /\ relayKey = [r \in Relays |-> None]
  /\ pump = [r \in Relays |-> "off"]

SubDone == subCtx = "done" \/ ctx = "done"

-----------------------------------------------------------------------------
(* Serve *)

(* The signal handler or the watch over the client ends the context. *)
Cancel ==
  /\ ctx = "live" /\ ctx' = "done"
  /\ UNCHANGED <<listener, serve, pc, conn, connect, manager, flows>>

CloseListener ==
  /\ ctx = "done" /\ listener = "open" /\ listener' = "closed"
  /\ UNCHANGED <<ctx, serve, pc, conn, connect, manager, flows>>

Accept(h) ==
  /\ serve = "accept" /\ listener = "open" /\ pc[h] = "none"
  /\ pc' = [pc EXCEPT ![h] = "greet"] /\ conn' = [conn EXCEPT ![h] = "open"]
  /\ UNCHANGED <<server, connect, manager, flows>>

AcceptFails ==
  /\ serve = "accept" /\ listener = "closed"
  /\ serve' = "waiting"
  /\ UNCHANGED <<ctx, listener, pc, conn, connect, manager, flows>>

ServeDone ==
  /\ serve = "waiting" /\ \A h \in Conns : pc[h] \in {"none", "done"}
  /\ serve' = "returned"
  /\ UNCHANGED <<ctx, listener, pc, conn, connect, manager, flows>>

-----------------------------------------------------------------------------
(* handle *)

Goto(h, label) == pc' = [pc EXCEPT ![h] = label]

(* The watcher of the handler. *)
CloseConn(h) ==
  /\ ctx = "done" /\ pc[h] \notin {"none", "done"} /\ conn[h] # "closed"
  /\ conn' = [conn EXCEPT ![h] = "closed"]
  /\ UNCHANGED <<server, pc, connect, manager, flows>>

ClientLeaves(h) ==
  /\ conn[h] = "open" /\ conn' = [conn EXCEPT ![h] = "eof"]
  /\ UNCHANGED <<server, pc, connect, manager, flows>>

(* Each phase may fail: by a bad message, an end or its deadline. *)
Greet(h) ==
  /\ pc[h] = "greet"
  /\ \/ conn[h] = "open" /\ Goto(h, "request")
     \/ Goto(h, "leaving")
  /\ UNCHANGED <<server, conn, connect, manager, flows>>

ReadRequest(h) ==
  /\ pc[h] = "request"
  /\ \/ conn[h] = "open" /\ Goto(h, "lookup")
     \/ conn[h] = "open" /\ h = Associator /\ Goto(h, "bind")
     \/ Goto(h, "leaving")
  /\ UNCHANGED <<server, conn, connect, manager, flows>>

(* The deferred closes. *)
Leave(h) ==
  /\ pc[h] = "leaving"
  /\ Goto(h, "done")
  /\ conn' = [conn EXCEPT ![h] = "closed"]
  /\ remote' = [remote EXCEPT ![h] = IF @ = "none" THEN @ ELSE "closed"]
  /\ UNCHANGED <<server, up, down, manager, flows>>

-----------------------------------------------------------------------------
(* handleConnect and proxy *)

Lookup(h) ==
  /\ pc[h] = "lookup"
  /\ Goto(h, "dial") \/ Goto(h, "leaving")
  /\ UNCHANGED <<server, conn, connect, manager, flows>>

Dial(h) ==
  /\ pc[h] = "dial"
  /\ \/ Goto(h, "reply") /\ remote' = [remote EXCEPT ![h] = "open"]
     \/ Goto(h, "leaving") /\ UNCHANGED remote
  /\ UNCHANGED <<server, conn, up, down, manager, flows>>

Reply(h) ==
  /\ pc[h] = "reply"
  /\ \/ /\ conn[h] # "closed" /\ Goto(h, "proxy")
        /\ up' = [up EXCEPT ![h] = TRUE] /\ down' = [down EXCEPT ![h] = TRUE]
     \/ Goto(h, "leaving") /\ UNCHANGED <<up, down>>
  /\ UNCHANGED <<server, conn, remote, manager, flows>>

RemoteLeaves(h) ==
  /\ remote[h] = "open" /\ remote' = [remote EXCEPT ![h] = "eof"]
  /\ UNCHANGED <<server, pc, conn, up, down, manager, flows>>

(* A copy ends when a read or a write fails or the idle deadline passes.   *)
(* It need not end before both connections are closed: without a deadline  *)
(* a peer that does not read holds it up.                                  *)
CopyEnds(h) ==
  /\ \/ up[h] /\ up' = [up EXCEPT ![h] = FALSE] /\ UNCHANGED down
     \/ down[h] /\ down' = [down EXCEPT ![h] = FALSE] /\ UNCHANGED up
  /\ UNCHANGED <<server, pc, conn, remote, manager, flows>>

(* The watcher of the proxied pair. *)
ForceClose_ClientOnly(h) ==
  /\ ctx = "done" /\ pc[h] = "proxy" /\ conn[h] # "closed"
  /\ conn' = [conn EXCEPT ![h] = "closed"]
  /\ UNCHANGED <<server, pc, connect, manager, flows>>
ForceClose(h) ==
  /\ ctx = "done" /\ pc[h] = "proxy" /\ {conn[h], remote[h]} # {"closed"}
  /\ conn' = [conn EXCEPT ![h] = "closed"] /\ remote' = [remote EXCEPT ![h] = "closed"]
  /\ UNCHANGED <<server, pc, up, down, manager, flows>>

ProxyEnds(h) ==
  /\ pc[h] = "proxy" /\ ~up[h] /\ ~down[h]
  /\ Goto(h, "leaving")
  /\ UNCHANGED <<server, conn, connect, manager, flows>>

-----------------------------------------------------------------------------
(* handleAssociate *)

a == Associator

Bind ==
  /\ pc[a] = "bind"
  /\ \/ /\ conn[a] # "closed" /\ Goto(a, "relaying")
        /\ udp' = "open" /\ reader' = "check"
     \/ Goto(a, "leaving") /\ UNCHANGED <<udp, reader>>   (* no socket, or no reply *)
  /\ UNCHANGED <<server, conn, connect, subCtx, pastDeadline, closed, relays, snapshot,
                 client, key, fresh, target, relayKey, pump>>

(* The control connection ends: cancel, and closeAll begins. *)
ControlEnds ==
  /\ pc[a] = "relaying" /\ conn[a] # "open"
  /\ Goto(a, "closeAll") /\ subCtx' = "done"
  /\ UNCHANGED <<server, conn, connect, udp, pastDeadline, closed, relays, snapshot, client, flows>>

(* The goroutine that waits for subCtx wakes the reader. *)
SetReadDeadline ==
  /\ SubDone /\ udp = "open" /\ ~pastDeadline
  /\ pastDeadline' = TRUE
  /\ UNCHANGED <<server, pc, conn, connect, udp, subCtx, closed, relays, snapshot, client, flows>>

closeAll ==
  /\ pc[a] = "closeAll"
  /\ closed' = TRUE /\ snapshot' = {relays[k] : k \in Keys} \ {0}
  /\ Goto(a, "closeTargets")
  /\ UNCHANGED <<server, conn, connect, udp, subCtx, pastDeadline, relays, client, flows>>

CloseTargets ==
  /\ pc[a] = "closeTargets"
  /\ target' = [r \in Relays |-> IF r \in snapshot THEN "closed" ELSE target[r]]
  /\ Goto(a, "wait") /\ snapshot' = {}
  /\ UNCHANGED <<server, conn, connect, udp, subCtx, pastDeadline, closed, relays, client,
                 reader, key, fresh, relayKey, pump>>

(* wg.Wait, then the map goes and the deferred Close. *)
WaitPumps ==
  /\ pc[a] = "wait" /\ reader = "off" /\ \A r \in Relays : pump[r] = "off"
  /\ relays' = <<>> /\ udp' = "closed"
  /\ Goto(a, "leaving")
  /\ UNCHANGED <<server, conn, connect, subCtx, pastDeadline, closed, snapshot, client, flows>>

-----------------------------------------------------------------------------
(* pumpClientToTunnel *)

ReaderKeeps == <<server, pc, conn, connect, udp, subCtx, pastDeadline, closed, snapshot>>

(* key is a local of one datagram. *)
ReaderGoto(label) == reader' = label /\ key' = IF label \in {"check", "off"} THEN None ELSE key

ReaderCheck ==
  /\ reader = "check"
  /\ reader' = IF SubDone THEN "off" ELSE "read"
  /\ UNCHANGED <<ReaderKeeps, relays, client, key, fresh, target, relayKey, pump>>

ReadTimesOut ==
  /\ reader = "read" /\ pastDeadline
  /\ reader' = "off"
  /\ UNCHANGED <<ReaderKeeps, relays, client, key, fresh, target, relayKey, pump>>

authorise(src) == client \in {None, src} /\ client' = src

(* A datagram for k; one that authorise or parseUDPRequest turns down      *)
(* changes nothing but the lock.                                           *)
Datagram(src, k) ==
  /\ reader = "read" /\ authorise(src)
  /\ \/ reader' = "check" /\ UNCHANGED key
     \/ /\ reader' = IF relays[k] # 0 THEN "write" ELSE "create"
        /\ key' = k
  /\ UNCHANGED <<ReaderKeeps, relays, fresh, target, relayKey, pump>>

(* createRelay: lookup, address family and rate limit. *)
createRelay ==
  /\ reader = "create"
  /\ ReaderGoto("get") \/ ReaderGoto("check")
  /\ UNCHANGED <<ReaderKeeps, relays, client, fresh, target, relayKey, pump>>

(* getOrCreate, as far as the dial. *)
getOrCreate ==
  /\ reader = "get"
  /\ ReaderGoto(IF closed THEN "off" ELSE IF relays[key] # 0 THEN "write" ELSE "dial")
  /\ UNCHANGED <<ReaderKeeps, relays, client, fresh, target, relayKey, pump>>

DialTarget ==
  /\ reader = "dial"
  /\ \/ ReaderGoto("check") /\ UNCHANGED <<fresh, target>>
     \/ \E r \in Relays :
          /\ \A q \in Relays : q < r <=> target[q] # "none"
          /\ fresh' = r /\ target' = [target EXCEPT ![r] = "open"]
          /\ ReaderGoto("install")
  /\ UNCHANGED <<ReaderKeeps, relays, client, relayKey, pump>>

Install_Leaks ==
  /\ reader = "install"
  /\ IF closed
     THEN ReaderGoto("off") /\ UNCHANGED <<relays, relayKey, pump, target>>
     ELSE /\ relays' = [relays EXCEPT ![key] = fresh]
          /\ relayKey' = [relayKey EXCEPT ![fresh] = key]
          /\ pump' = [pump EXCEPT ![fresh] = "check"]
          /\ ReaderGoto("write") /\ UNCHANGED target
  /\ fresh' = 0
  /\ UNCHANGED <<ReaderKeeps, client>>
Install ==
  /\ reader = "install"
  /\ IF closed
     THEN /\ target' = [target EXCEPT ![fresh] = "closed"] /\ ReaderGoto("off")
          /\ UNCHANGED <<relays, relayKey, pump>>
     ELSE /\ relays' = [relays EXCEPT ![key] = fresh]
          /\ relayKey' = [relayKey EXCEPT ![fresh] = key]
          /\ pump' = [pump EXCEPT ![fresh] = "check"]
          /\ ReaderGoto("write") /\ UNCHANGED target
  /\ fresh' = 0
  /\ UNCHANGED <<ReaderKeeps, client>>

(* The payload goes to the target; a failure is only logged. *)
WriteTarget_Removes ==
  /\ reader = "write"
  /\ ReaderGoto("check")
  /\ \/ UNCHANGED <<relays, target>>
     \/ /\ relays[key] # 0 /\ relays' = [relays EXCEPT ![key] = 0]
        /\ target' = [target EXCEPT ![relays[key]] = "closed"]
  /\ UNCHANGED <<ReaderKeeps, client, fresh, relayKey, pump>>
WriteTarget ==
  /\ reader = "write"
  /\ ReaderGoto("check")
  /\ UNCHANGED <<ReaderKeeps, relays, client, fresh, target, relayKey, pump>>

-----------------------------------------------------------------------------
(* pumpTunnelToClient *)

PumpKeeps == <<ReaderKeeps, client, reader, key, fresh>>

PumpCheck(r) ==
  /\ pump[r] = "check"
  /\ pump' = [pump EXCEPT ![r] = IF SubDone THEN "remove" ELSE "read"]
  /\ UNCHANGED <<PumpKeeps, relays, target, relayKey>>

(* A reply goes to the client, or the read fails: the target is closed or  *)
(* has been silent for 60 seconds.                                         *)
PumpRead(r) ==
  /\ pump[r] = "read"
  /\ \/ target[r] = "open" /\ pump' = [pump EXCEPT ![r] = "check"]
     \/ pump' = [pump EXCEPT ![r] = "remove"]
  /\ UNCHANGED <<PumpKeeps, relays, target, relayKey>>

(* By the name of the destination.  The target is closed after the lock is *)
(* released, which no other goroutine can tell.                            *)
removeRelay(r) ==
  LET found == relays[relayKey[r]]
  IN /\ pump[r] = "remove"
     /\ pump' = [pump EXCEPT ![r] = "off"]
     /\ relays' = [relays EXCEPT ![relayKey[r]] = 0]
     /\ relayKey' = [relayKey EXCEPT ![r] = None]
     /\ target' = IF found = 0 THEN target ELSE [target EXCEPT ![found] = "closed"]
     /\ UNCHANGED PumpKeeps

-----------------------------------------------------------------------------
HandlerSteps(h) ==
  \/ Greet(h) \/ ReadRequest(h) \/ Lookup(h) \/ Dial(h) \/ Reply(h) \/ ProxyEnds(h) \/ Leave(h)
AssociateSteps == Bind \/ ControlEnds \/ closeAll \/ CloseTargets \/ WaitPumps
ReaderSteps ==
  \/ ReaderCheck \/ ReadTimesOut \/ createRelay \/ getOrCreate \/ DialTarget
  \/ Install \/ WriteTarget
PumpSteps(r) == PumpCheck(r) \/ PumpRead(r) \/ removeRelay(r)

(* Serve has returned; the system may stop. *)
Finished == serve = "returned" /\ UNCHANGED vars

Next ==
  \/ Cancel \/ CloseListener \/ AcceptFails \/ ServeDone \/ Finished
  \/ \E h \in Conns : \/ Accept(h) \/ CloseConn(h) \/ ClientLeaves(h) \/ HandlerSteps(h)
                      \/ RemoteLeaves(h) \/ CopyEnds(h) \/ ForceClose(h)
  \/ AssociateSteps \/ SetReadDeadline \/ ReaderSteps
  \/ \E src \in Sources, k \in Keys : Datagram(src, k)
  \/ \E r \in Relays : PumpSteps(r)

Spec == Init /\ [][Next]_vars

(* Goroutines run; a handshake, a lookup, a dial and a read of a target    *)
(* end by their deadlines.  Clients, remotes and senders owe nothing, and  *)
(* a copy must end only once both its connections are closed.              *)
Fairness ==
  /\ WF_vars(CloseListener) /\ WF_vars(AcceptFails) /\ WF_vars(ServeDone)
  /\ \A h \in Conns :
       /\ WF_vars(HandlerSteps(h)) /\ WF_vars(CloseConn(h)) /\ WF_vars(ForceClose(h))
       /\ WF_vars(CopyEnds(h) /\ conn[h] = "closed" /\ remote[h] = "closed")
  /\ WF_vars(AssociateSteps) /\ WF_vars(SetReadDeadline) /\ WF_vars(ReaderSteps)
  /\ \A r \in Relays : WF_vars(PumpSteps(r))

-----------------------------------------------------------------------------
(* Properties *)

(* A handler that has returned leaves nothing behind: its connections are  *)
(* closed, and of an association the socket and every target it dialled,   *)
(* with all of its goroutines gone, also the target whose dial ended       *)
(* during closeAll (socks5_udp.go:374-381).                                *)
HandlerLeavesNothing ==
  \A h \in Conns : pc[h] = "done" =>
    /\ conn[h] = "closed" /\ remote[h] \in {"none", "closed"} /\ ~up[h] /\ ~down[h]
    /\ h = a => /\ udp # "open" /\ reader = "off"
                /\ \A r \in Relays : pump[r] = "off" /\ target[r] # "open"

(* A relay is registered exactly as long as its goroutine runs, so that    *)
(* removeRelay, which goes by the name of the destination, closes the      *)
(* target of the goroutine that calls it and never that of a newer flow.   *)
(* And closeAll sets the map to nil when nobody writes to it any more,     *)
(* which would panic (socks5_udp.go:146-149).                              *)
RegisteredWhilePumping ==
  IF relays = <<>> THEN reader = "off"
  ELSE /\ \A r \in Relays : pump[r] # "off" => relays[relayKey[r]] = r
       /\ \A k \in Keys :
            relays[k] # 0 => pump[relays[k]] # "off" /\ relayKey[relays[k]] = k

(* Once the context has ended Serve returns, whatever the clients do       *)
(* (socks5.go:158-165), and an association ends with its control           *)
(* connection, whatever its goroutines are doing (socks5_udp.go:91-93).    *)
HandlersEnd ==
  /\ ctx = "done" ~> serve = "returned"
  /\ pc[a] = "relaying" /\ conn[a] # "open" ~> pc[a] = "done"

=============================================================================
