----------------------------- MODULE DNSAnswers -----------------------------
(***************************************************************************)
(* How a response of a DNS server is read (parseDNSAnswers of              *)
(* cmd/openvpn2socks/resolver.go): which records count as answers to the   *)
(* name that was asked for, and whether the absence of any is the server's *)
(* word that there are none.                                               *)
(*                                                                         *)
(* A name that ends in an underscore and a word is a faulty variant of the *)
(* definition that follows it; no action uses one.                         *)
(***************************************************************************)
EXTENDS Integers, SequencesExt

CONSTANTS Names, MaxRecords   (* bounds: the names and the records of a response *)

VARIABLE resp

QName == CHOOSE n \in Names : TRUE
(* "bad" is a record of the type whose data has the wrong length; a target *)
(* that cannot be decoded is empty.                                        *)
Records == [typ : {"A", "bad"}, owner : Names, target : {QName}]
           \cup [typ : {"CNAME"}, owner : Names, target : Names \cup {""}]
Headers == {"mismatch", "truncated", "NXDOMAIN", "SERVFAIL", "NOERROR"}

Init == resp \in [header : Headers, rrs : {<<>>}]

(* The first pass: the records of a response without an error are decoded. *)
Decode ==
  /\ resp.header = "NOERROR" /\ Len(resp.rrs) < MaxRecords
  /\ \E rr \in Records : resp' = [resp EXCEPT !.rrs = Append(@, rr)]

(* The response is read when all of them are there. *)
Next == Decode \/ UNCHANGED resp

(* One round of the loop: trust goes on from a trusted owner to the target *)
(* of its CNAME, also within the round.                                    *)
Round(rrs, accepted) ==
  FoldLeft(LAMBDA acc, rr : IF /\ rr.typ = "CNAME" /\ rr.target # ""
                               /\ rr.owner \in acc
                            THEN acc \cup {rr.target} ELSE acc,
           accepted, rrs)
Accepted_OneRound(rrs) == Round(rrs, {QName})
Accepted(rrs) ==
  LET rounds[n \in 0 .. Len(rrs) + 1] ==
        IF n = 0 THEN {QName} ELSE Round(rrs, rounds[n - 1])
  IN rounds[Len(rrs) + 1]

parseDNSAnswers(r) ==
  LET accepted == Accepted(r.rrs)
      wanted == {rr \in ToSet(r.rrs) : rr.typ # "CNAME"}
      out == {rr \in wanted : rr.owner \in accepted /\ rr.typ = "A"}
      droppedOwner == \E rr \in wanted : rr.owner \notin accepted
  IN IF r.header = "NXDOMAIN" THEN "negative"
     ELSE IF r.header # "NOERROR" THEN "error"
     ELSE IF out # {} THEN "records"
     ELSE IF droppedOwner THEN "error" ELSE "negative"

(* What the response says.  An owner counts if a chain of aliases leads to *)
(* it from the name that was asked for, in whatever order the records      *)
(* stand.  There is no record if the server says so, or sends nothing of   *)
(* the type but malformed records of names that count.                     *)
Says(r) ==
  LET all == ToSet(r.rrs)
      Alias(n, m) == [typ |-> "CNAME", owner |-> n, target |-> m] \in all
      chains == {chain \in BoundedSeq(Names, Cardinality(Names)) :
                   /\ chain # <<>> /\ Head(chain) = QName
                   /\ \A i \in 1 .. Len(chain) - 1 : Alias(chain[i], chain[i + 1])}
      counts == {Last(chain) : chain \in chains}
      wanted == {rr \in all : rr.typ # "CNAME"}
  IN IF \E rr \in wanted : rr.typ = "A" /\ rr.owner \in counts THEN "records"
     ELSE IF \/ r.header = "NXDOMAIN"
             \/ r.header = "NOERROR" /\ \A rr \in wanted : rr.owner \in counts
     THEN "negative" ELSE "error"

-----------------------------------------------------------------------------
(* Every response is taken for what it says: the loop over the CNAMEs      *)
(* finds the owners that chains of aliases lead to, whatever the order of  *)
(* the records, and an answer under another name is neither a record nor   *)
(* a denial (resolver.go:793-798, 835-850).                                *)
ResponsesReadRight == parseDNSAnswers(resp) = Says(resp)

=============================================================================
