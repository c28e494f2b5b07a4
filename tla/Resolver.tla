------------------------------ MODULE Resolver ------------------------------
(***************************************************************************)
(* The DNS resolver of openvpn2socks (cmd/openvpn2socks/resolver.go):      *)
(* LookupIP with its bounded cache, the resolution that concurrent misses  *)
(* of one host share (singleflight), and the chain of tunneled servers     *)
(* with the system resolver as its last resort.  How a response is read is *)
(* module DNSAnswers.                                                      *)
(*                                                                         *)
(* An IP literal never gets here: LookupIP answers it at once.  Addresses  *)
(* are left out; an answer is told apart by where it is from.  Entries of  *)
(* the cache live equally long, so they are kept in the order in which     *)
(* they expire, the expired ones first.                                    *)
(*                                                                         *)
(* A name that ends in an underscore and a word is a faulty variant of the *)
(* definition that follows it; no action uses one.                         *)
(***************************************************************************)
EXTENDS Integers, Sequences, FiniteSets

CONSTANTS
  Callers,              (* goroutines in LookupIP                          *)
  Hosts,
  Override,             (* whether -dns is given                           *)
  Pushed,               (* servers the PUSH_REPLY named                    *)
  QTypes,               (* pickQueryTypes                                  *)
  dnsCacheMaxEntries, evictSample,
  MaxFlights            (* bound: resolutions at a time                    *)

VARIABLES
  cache, expired,   (* entries [host, via]; how many of them have expired  *)
  flight,           (* the shared resolution of each host                  *)
  lookup            (* where each caller is                                *)

vars == <<cache, expired, flight, lookup>>

-----------------------------------------------------------------------------
(* queryOverTunnel merges the answers for the query types. *)
Merge(answer) ==
  IF \E q \in QTypes : answer[q] = "records" THEN "records"
  ELSE IF QTypes # {} /\ \A q \in QTypes : answer[q] = "negative" THEN "negative" ELSE "error"

-----------------------------------------------------------------------------
NoFlight == [pc |-> "none", server |-> 0, sawNoData |-> FALSE, denied |-> FALSE,
             result |-> "none"]
Idle == [pc |-> "idle", host |-> "none"]

Init ==
  /\ cache = <<>> /\ expired = 0
  /\ flight = [h \in Hosts |-> NoFlight]
  /\ lookup = [c \in Callers |-> Idle]

(* The tunneled servers in the order they are asked: the public one takes  *)
(* the place of an override.                                               *)
Chain == IF Override THEN <<"override">> \o Pushed ELSE Pushed \o <<"public">>

Position(h) == {i \in 1 .. Len(cache) : cache[i].host = h}
RemoveAt(s, i) == SubSeq(s, 1, i - 1) \o SubSeq(s, i + 1, Len(s))
Delete(i) ==
  /\ cache' = RemoveAt(cache, i)
  /\ expired' = IF i <= expired THEN expired - 1 ELSE expired

-----------------------------------------------------------------------------
(* The cache *)

(* cacheSet: the soonest to expire of a sample of evictSample entries goes *)
(* if there is no room.                                                    *)
Evictable == {i \in 1 .. Len(cache) : i <= Len(cache) - evictSample + 1 \/ i = 1}
cacheSet(h, via) ==
  LET entry == [host |-> h, via |-> via]
      Replace(i) == /\ cache' = Append(RemoveAt(cache, i), entry)
                    /\ expired' = IF i <= expired THEN expired - 1 ELSE expired
  IN IF Position(h) # {} THEN \E i \in Position(h) : Replace(i)
     ELSE IF Len(cache) >= dnsCacheMaxEntries THEN \E i \in Evictable : Replace(i)
     ELSE cache' = Append(cache, entry) /\ UNCHANGED expired

Expire ==
  /\ expired < Len(cache)
  /\ expired' = expired + 1
  /\ UNCHANGED <<cache, flight, lookup>>

cacheSweep ==
  /\ expired > 0
  /\ cache' = SubSeq(cache, expired + 1, Len(cache))
  /\ expired' = 0
  /\ UNCHANGED <<flight, lookup>>

-----------------------------------------------------------------------------
(* LookupIP *)

(* cacheGet finds a fresh entry, or none; one that has expired goes. *)
LookupIP(c, h) ==
  /\ lookup[c].pc = "idle"
  /\ IF \E i \in Position(h) : i > expired
     THEN UNCHANGED <<cache, expired, lookup>>
     ELSE /\ lookup' = [lookup EXCEPT ![c] = [pc |-> "missed", host |-> h]]
          /\ IF Position(h) = {} THEN UNCHANGED <<cache, expired>>
             ELSE \E i \in Position(h) : Delete(i)
  /\ UNCHANGED <<flight>>

(* DoChan starts a resolution or joins the one in flight. *)
DoChan(c) ==
  LET h == lookup[c].host
  IN /\ lookup[c].pc = "missed"
     /\ Cardinality({g \in Hosts \ {h} : flight[g] # NoFlight}) < MaxFlights
     /\ lookup' = [lookup EXCEPT ![c].pc = "waiting"]
     /\ flight' = IF flight[h] # NoFlight THEN flight
                  ELSE [flight EXCEPT ![h] = [NoFlight EXCEPT !.pc = "query", !.server = 1]]
     /\ UNCHANGED <<cache, expired>>

(* The result is there. *)
Receive(c) ==
  /\ lookup[c].pc = "answered"
  /\ lookup' = [lookup EXCEPT ![c] = Idle]
  /\ UNCHANGED <<cache, expired, flight>>

GiveUp(c) ==
  /\ lookup[c].pc \in {"waiting", "answered"}
  /\ lookup' = [lookup EXCEPT ![c] = Idle]
  /\ UNCHANGED <<cache, expired, flight>>

-----------------------------------------------------------------------------
(* lookupIPUncached *)

Returns(h, result) ==
  flight' = [flight EXCEPT ![h] = [NoFlight EXCEPT !.pc = "return", !.result = result]]

(* After the last server the system resolver is asked, unless one of the   *)
(* servers has denied that there are records.                              *)
NextServer_LastDecides(f, outcome) ==
  LET g == [f EXCEPT !.sawNoData = (outcome = "negative")]
  IN IF f.server < Len(Chain) THEN [g EXCEPT !.server = @ + 1]
     ELSE IF g.sawNoData THEN [g EXCEPT !.pc = "return", !.result = "nodata"]
     ELSE [g EXCEPT !.pc = "system"]
NextServer(f, outcome) ==
  LET g == [f EXCEPT !.sawNoData = @ \/ outcome = "negative"]
  IN IF f.server < Len(Chain) THEN [g EXCEPT !.server = @ + 1]
     ELSE IF g.sawNoData THEN [g EXCEPT !.pc = "return", !.result = "nodata"]
     ELSE [g EXCEPT !.pc = "system"]

(* runTunneledQuery for the next server. *)
Query(h) ==
  /\ flight[h].pc = "query"
  /\ \E answer \in [QTypes -> {"records", "negative", "error"}] :
       LET outcome == Merge(answer)
           denied == QTypes # {} /\ \A q \in QTypes : answer[q] = "negative"
       IN IF outcome = "records"
          THEN cacheSet(h, Chain[flight[h].server]) /\ Returns(h, "tunnel")
          ELSE /\ flight' = [flight EXCEPT ![h] =
                               [NextServer(flight[h], outcome) EXCEPT !.denied = @ \/ denied]]
               /\ UNCHANGED <<cache, expired>>
  /\ UNCHANGED lookup

(* The system resolver's answer is not cached. *)
System_Cached(h) ==
  /\ flight[h].pc = "system"
  /\ \/ Returns(h, "system") /\ cacheSet(h, "system")
     \/ Returns(h, "error") /\ UNCHANGED <<cache, expired>>
  /\ UNCHANGED <<lookup>>
System(h) ==
  /\ flight[h].pc = "system"
  /\ \/ Returns(h, "system") \/ Returns(h, "error")
  /\ UNCHANGED <<cache, expired, lookup>>

(* singleflight hands the result to everyone who waits. *)
Finish(h) ==
  /\ flight[h].pc = "return"
  /\ flight' = [flight EXCEPT ![h] = NoFlight]
  /\ lookup' = [c \in Callers |->
                  IF lookup[c].pc = "waiting" /\ lookup[c].host = h
                  THEN [lookup[c] EXCEPT !.pc = "answered"]
                  ELSE lookup[c]]
  /\ UNCHANGED <<cache, expired>>

-----------------------------------------------------------------------------
CallerSteps(c) == DoChan(c) \/ Receive(c)
FlightSteps(h) == Query(h) \/ System(h) \/ Finish(h)

Next ==
  \/ \E c \in Callers : CallerSteps(c) \/ GiveUp(c) \/ \E h \in Hosts : LookupIP(c, h)
  \/ \E h \in Hosts : FlightSteps(h)
  \/ Expire \/ cacheSweep

Spec == Init /\ [][Next]_vars

(* Goroutines run, and a query ends by its timeout at the latest.  No      *)
(* caller need give up.                                                    *)
Fairness ==
  /\ \A c \in Callers : WF_vars(CallerSteps(c))
  /\ \A h \in Hosts : WF_vars(FlightSteps(h))

-----------------------------------------------------------------------------
(* Properties *)

(* The system resolver is asked for a host exactly if no tunneled server   *)
(* has said, for every query type, that there is no record: a definitive   *)
(* negative of any of them is final (resolver.go:34-36, 420-426), and a    *)
(* server that failed for one type has denied nothing.                     *)
DenialIsFinal ==
  \A h \in Hosts :
    /\ flight[h].pc = "system" => ~flight[h].denied
    /\ flight[h].result = "nodata" => flight[h].denied

(* The cache keeps to its bound and holds a host once, and what it answers *)
(* was learnt through the tunnel, so that a lookup that had to go to the   *)
(* system resolver is tried through the tunnel again (resolver.go:319-322).*)
CacheSound ==
  /\ Len(cache) <= dnsCacheMaxEntries
  /\ \A i \in 1 .. Len(cache) :
       /\ \E n \in 1 .. Len(Chain) : cache[i].via = Chain[n]
       /\ \A j \in 1 .. i - 1 : cache[j].host # cache[i].host


=============================================================================
