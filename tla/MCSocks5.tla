------------------------------ MODULE MCSocks5 ------------------------------
(***************************************************************************)
(* openvpn2socks: one behaviour runs one part of module OpenVPN2Socks, or  *)
(* reads one DNS response (module DNSAnswers), while the others stay as    *)
(* they began.                                                             *)
(***************************************************************************)
EXTENDS OpenVPN2Socks

CONSTANTS Names, MaxRecords

VARIABLES part, resp

Parser == INSTANCE DNSAnswers

MCInit ==
  /\ Init /\ Server!Init /\ DNS!Init /\ Parser!Init
  /\ part \in {"server", "resolver", "limiter", "parser"}
  /\ part # "parser" => resp.header = "NOERROR"

MCNext ==
  /\ \/ part = "server" /\ Server!Next /\ UNCHANGED <<vars, resolverVars, resp>>
     \/ part = "resolver" /\ DNS!Next /\ UNCHANGED <<vars, serverVars, resp>>
     \/ part = "limiter" /\ Next /\ UNCHANGED <<serverVars, resolverVars, resp>>
     \/ part = "parser" /\ Parser!Next /\ UNCHANGED <<vars, serverVars, resolverVars>>
  /\ UNCHANGED part

MCSpec == /\ MCInit /\ [][MCNext]_<<vars, serverVars, resolverVars, resp, part>>
          /\ Server!Fairness /\ DNS!Fairness

OnePushed == <<"pushed">>

-----------------------------------------------------------------------------
(* Every response is taken for what it says (resolver.go:                  *)
(* parseDNSAnswers).                                                       *)
ResponsesReadRight == Parser!ResponsesReadRight

=============================================================================
