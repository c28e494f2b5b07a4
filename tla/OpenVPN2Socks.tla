--------------------------- MODULE OpenVPN2Socks ----------------------------
(***************************************************************************)
(* The parts of openvpn2socks that keep state: the SOCKS5 server, the      *)
(* resolver and the limiter of new flows.  The server takes from the other *)
(* two only an answer, which module Socks5 leaves open; they share no      *)
(* variable.                                                               *)
(***************************************************************************)
EXTENDS ConnRate, Sequences

CONSTANTS Conns, Associator, Sources, Keys, MaxRelays,
          Callers, Hosts, Override, Pushed, QTypes, dnsCacheMaxEntries, evictSample,
          MaxFlights

ASSUME Socks5Assumption ==
  /\ Associator \in Conns /\ Keys # {} /\ MaxRelays \in Nat
  /\ Override \in BOOLEAN /\ Pushed \in Seq(STRING)
  /\ dnsCacheMaxEntries \in Nat \ {0} /\ evictSample \in Nat \ {0}

VARIABLES
  ctx, listener, serve, pc, conn, remote, up, down, udp, subCtx, pastDeadline,
  closed, relays, snapshot, client, reader, key, fresh, target, relayKey, pump,
  cache, expired, flight, lookup

serverVars ==
  <<ctx, listener, serve, pc, conn, remote, up, down, udp, subCtx, pastDeadline,
    closed, relays, snapshot, client, reader, key, fresh, target, relayKey, pump>>
resolverVars == <<cache, expired, flight, lookup>>

Server == INSTANCE Socks5
DNS == INSTANCE Resolver

-----------------------------------------------------------------------------
(* The properties of modules Socks5 and Resolver, under names of this one. *)

(* A handler that has returned leaves no connection, socket, target or     *)
(* goroutine behind (socks5_tcp.go: handleConnect, socks5_udp.go:          *)
(* handleAssociate, closeAll, getOrCreate).                                *)
HandlerLeavesNothing == Server!HandlerLeavesNothing

(* A relay is registered exactly as long as its goroutine runs, in a map   *)
(* that is there (socks5_udp.go: getOrCreate, removeRelay, closeAll).      *)
RegisteredWhilePumping == Server!RegisteredWhilePumping

(* Serve returns once the context has ended, and an association ends with  *)
(* its control connection (socks5.go: Serve, socks5_udp.go:                *)
(* handleAssociate).                                                       *)
HandlersEnd == Server!HandlersEnd

(* The system resolver is asked exactly if no tunneled server has denied   *)
(* the host (resolver.go: lookupIPUncached, queryOverTunnel).              *)
DenialIsFinal == DNS!DenialIsFinal

(* The cache keeps to its bound, holds a host once and only what a         *)
(* tunneled server answered (resolver.go: cacheSet, lookupIPUncached).     *)
CacheSound == DNS!CacheSound


=============================================================================
